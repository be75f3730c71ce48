------------------------------ MODULE MailRead ------------------------------
(* The reading column of the web client (pages/Mail.tsx, ThreadReader.tsx):    *)
(* opening a mail, the conversation with the bodies of its mails, marking as   *)
(* read, moving and deleting what is being read.  The list is MailList's; here *)
(* it is refreshed as a whole at any time.  A mail moved away gets a new UID   *)
(* and is another mail for the client, so leaving the folder is one event.     *)
EXTENDS Naturals, FiniteSets, FiniteSetsExt

CONSTANTS
    Folders, Start,
    Drafts,     \* the folder of drafts, or None
    Mails,      \* numbered by age
    Home, Uid,  \* Uid[m]: its number, unique within Home[m] only
    Talk,       \* the mails of one conversation, in any folder
    MaxMoves, MaxCalls, MaxFailures,
    None

ASSUME ReadAssumption ==
    /\ Start \in Folders /\ IsFiniteSet(Mails) /\ Mails \subseteq Nat /\ None \notin Mails
    /\ Home \in [Mails -> Folders] /\ Uid \in [Mails -> Nat] /\ Talk \subseteq Mails
    /\ \A m, n \in Mails : Home[m] = Home[n] /\ Uid[m] = Uid[n] => m = n
    /\ MaxMoves \in Nat /\ MaxCalls \in Nat /\ MaxFailures \in Nat

VARIABLES
    folder,     \* the folder selected
    rows,       \* the list of its mails
    hits,       \* full-text hits from anywhere instead of the list, or None
    unreadRows, \* the mails the list shows as unread
    unreadTalk, \* the mails the conversation shows as unread
    count,      \* count[f]: the number of unread mails shown at f
    open, opening, popup, draft,
    thread,     \* the conversation in the column, or None
    reader,     \* its component: the cards open, the bodies, what was reported
    narrow,     \* one column at a time is visible
    pane,       \* the column a narrow screen shows
    asking,     \* the deletion waiting for its confirmation
    marked,     \* deletion marks
    calls,      \* requests under way
    held, unread,   \* the server: the mails where they were, the unread ones
    clicked,    \* history: what the user last asked to read
    moves, failures

vars == <<narrow, folder, rows, hits, unreadRows, unreadTalk, count, open, opening, popup,
          draft, thread, reader, pane, asking, marked, calls, held, unread, clicked,
          moves, failures>>
serverVars == <<held, unread>>
markVars == <<unreadRows, unreadTalk, count>>

-----------------------------------------------------------------------------
(* The list and the conversation *)

ListingOf(f) == {m \in held : Home[m] = f}
Shown == IF hits # None THEN hits ELSE rows

\* The conversation row of the list: more than one mail of Talk is shown.
Conversation == Shown \cap Talk
Latest(ms) == Max(ms)

NoReader == [key |-> None, cards |-> {}, bodies |-> {}, pending |-> {}, reported |-> {}]
\* Mounted with the latest mail and the unread ones unfolded.
Mount(ms, fresh) == [key |-> Latest(ms), cards |-> {Latest(ms)} \cup fresh,
                     bodies |-> {}, pending |-> {Latest(ms)} \cup fresh, reported |-> {}]

\* The rows with the UID of m: a patch of the list goes by the UID alone.
SameUid(m) == {n \in rows : Uid[n] = Uid[m]}
PatchHeader(m, seen) ==
    unreadRows' = IF seen THEN unreadRows \ SameUid(m) ELSE unreadRows \cup SameUid(m)
PatchThreadMsg(m, seen, at) ==
    /\ unreadTalk' = IF seen THEN unreadTalk \ {m} ELSE unreadTalk \cup {m}
    /\ IF Home[m] = at THEN PatchHeader(m, seen) ELSE UNCHANGED unreadRows

BumpUnseen(f, up) ==
    count' = [count EXCEPT ![f] = IF up THEN @ + 1 ELSE Max({@, 1}) - 1]

-----------------------------------------------------------------------------
(* Requests *)

Call(op, m, at) == [op |-> op, mail |-> m, at |-> at, newest |-> TRUE, current |-> TRUE,
                    popup |-> FALSE, was |-> {}, key |-> None, ms |-> {}, done |-> FALSE]

\* invalidateThreadCache: what the conversation was loaded for is outdated.
Outdated(cs) == {[c EXCEPT !.current = FALSE] : c \in cs}
\* The reader is gone: its requests still answer, to nobody.
Orphaned(cs) == {IF c.op = "detail" THEN [c EXCEPT !.key = None] ELSE c : c \in cs}
\* Mutant: an opening does not overtake earlier ones.
NotOvertaken(cs) == cs
\* A new opening: earlier ones must not set anything any more.
Overtaken(cs) == {IF c.op = "read" THEN [c EXCEPT !.newest = FALSE] ELSE c : c \in cs}

Room(n) == Cardinality(calls) + n <= MaxCalls

\* Mutant: marks not applied.
ShowWholeThread(ms, marks) == thread' = ms

\* setOpenThread with the deletion marks applied: an empty conversation is
\* closed.
ShowThread(ms, marks) ==
    thread' = IF ms = None \/ ms \subseteq marks THEN None ELSE ms \ marks

\* loadDetail for each mail of ms, for the reader mounted under key.
Details(ms, key, fresh) ==
    {[Call("detail", m, folder) EXCEPT !.key = key, !.was = fresh \cap {m}] : m \in ms}

\* React keeps the reader while the key stays, mounts another one for another
\* key and drops it without a conversation; cs are the requests besides.
Rendered(key, fresh, cs) ==
    CASE thread' = None -> reader' = NoReader /\ calls' = Orphaned(cs)
      [] thread' # None /\ thread # None /\ reader.key = key -> reader' = reader /\ calls' = cs
      [] OTHER -> LET mount == [Mount(thread', fresh \cap thread') EXCEPT !.key = key]
                  IN  /\ Room(Cardinality(mount.pending))
                      /\ reader' = mount
                      /\ calls' = Orphaned(cs) \cup Details(mount.pending, key, fresh)

\* The effect on a change of the open mail.
PaneAfter(p) == pane' = IF open' = None /\ open # None /\ p = "read" THEN "list" ELSE p

Sees(p) == (~narrow \/ pane = p) /\ asking = None /\ draft = None /\ ~popup

-----------------------------------------------------------------------------
(* The user *)

\* Another folder: the effects reload the list and empty the column.
ClickFolder(f) ==
    /\ Sees("folders") /\ f # folder
    /\ folder' = f /\ rows' = {}
    /\ open' = None /\ thread' = None /\ reader' = NoReader
    /\ hits' = hits /\ PaneAfter("list")
    /\ calls' = Orphaned(Outdated(calls))
    /\ UNCHANGED <<markVars, opening, popup, draft, asking, marked, serverVars, clicked>>

ShowFolders ==
    /\ narrow /\ pane = "list" /\ Sees("list")
    /\ pane' = "folders"
    /\ UNCHANGED <<folder, rows, hits, markVars, open, opening, popup, draft, thread,
                   reader, asking, marked, calls, serverVars, clicked>>

\* runFullText with its answer, and back to the folder.
FullText ==
    /\ Sees("list")
    /\ hits' = IF hits = None THEN held \ marked ELSE None
    /\ open' = IF hits = None THEN None ELSE open
    /\ PaneAfter(pane)
    /\ UNCHANGED <<folder, rows, markVars, opening, popup, draft, thread, reader, asking,
                   marked, calls, serverVars, clicked>>

\* openMsg up to its request; a double click opens the window besides.
OpenMsg(m, asPopup) ==
    /\ Sees("list") /\ m \in Shown /\ Room(1)
    /\ calls' = Overtaken(IF asPopup THEN calls ELSE Orphaned(Outdated(calls)))
                \cup {[Call("read", m, folder) EXCEPT !.popup = asPopup]}
    /\ IF asPopup
       THEN UNCHANGED <<opening, pane, thread, reader>>
       ELSE opening' = TRUE /\ pane' = "read" /\ thread' = None /\ reader' = NoReader
    /\ clicked' = m
    /\ UNCHANGED <<folder, rows, hits, markVars, open, popup, draft, asking, marked, serverVars>>

\* openConversation and augmentThread up to its request; the reader is mounted
\* and asks for the bodies of the unfolded cards.
OpenConversation ==
    LET ms == Conversation
        fresh == ms \cap unreadRows
    IN  /\ Sees("list") /\ Cardinality(ms) > 1 /\ Room(1)
        /\ open' = None /\ opening' = FALSE
        /\ PaneAfter("read")
        /\ ShowThread(ms, marked) /\ unreadTalk' = fresh
        /\ Rendered(Latest(ms), fresh, Overtaken(Outdated(calls))
                \cup {[Call("augment", Latest(ms), folder) EXCEPT !.ms = ms]})
        /\ clicked' = None /\ marked' = marked
        /\ UNCHANGED <<folder, rows, hits, unreadRows, count, popup, draft, asking, serverVars>>

\* toggle with loadDetail: the body of a card is asked for once.
ToggleCard(m) ==
    /\ Sees("read") /\ thread # None /\ m \in thread
    /\ IF m \in reader.cards
       THEN reader' = [reader EXCEPT !.cards = @ \ {m}] /\ calls' = calls
       ELSE LET ask == {m} \ (reader.bodies \cup reader.pending)
            IN  /\ Room(Cardinality(ask))
                /\ reader' = [reader EXCEPT !.cards = @ \cup {m}, !.pending = @ \cup ask]
                /\ calls' = calls \cup Details(ask, reader.key, unreadTalk)
    /\ UNCHANGED <<folder, rows, hits, markVars, open, opening, popup, draft, thread, pane,
                   asking, marked, serverVars, clicked>>

\* The cross of the column; of the window; of the composer.
CloseReading ==
    /\ \/ Sees("read") /\ thread # None
       \/ ~popup /\ asking = None /\ draft = None /\ open # None
    /\ open' = IF thread # None THEN open ELSE None
    /\ thread' = None /\ reader' = NoReader
    /\ calls' = IF thread # None THEN Orphaned(Outdated(calls)) ELSE calls
    /\ pane' = "list"
    /\ UNCHANGED <<folder, rows, hits, markVars, opening, popup, draft, asking, marked,
                   serverVars, clicked>>

ClosePopup ==
    /\ popup /\ asking = None /\ popup' = FALSE
    /\ UNCHANGED <<folder, rows, hits, markVars, open, opening, draft, thread, reader, pane,
                   asking, marked, calls, serverVars, clicked>>

CloseCompose ==
    /\ draft # None /\ draft' = None
    /\ UNCHANGED <<folder, rows, hits, markVars, open, opening, popup, thread, reader, pane,
                   asking, marked, calls, serverVars, clicked>>

\* markUnread of the open mail: its number goes up at the folder on screen.
MarkUnread ==
    /\ Sees("read") /\ open # None /\ thread = None /\ ~opening /\ Room(1)
    /\ PatchHeader(open, FALSE) /\ BumpUnseen(folder, TRUE)
    /\ open' = None /\ PaneAfter(pane)
    /\ calls' = Outdated(calls) \cup {Call("unsee", open, folder)}
    /\ UNCHANGED <<folder, rows, hits, unreadTalk, opening, popup, draft, thread, reader,
                   asking, marked, serverVars, clicked>>

MarkThreadUnread(m) ==
    /\ Sees("read") /\ thread # None /\ m \in thread /\ m \in reader.bodies /\ Room(1)
    /\ PatchThreadMsg(m, FALSE, folder) /\ BumpUnseen(Home[m], TRUE)
    /\ calls' = Outdated(calls) \cup {Call("unsee", m, folder)}
    /\ UNCHANGED <<folder, rows, hits, open, opening, popup, draft, thread, reader, pane,
                   asking, marked, serverVars, clicked>>

\* moveMsg and moveThreadMsg: nothing changes before the answer.
MoveAway(m) ==
    /\ Sees("read") /\ Room(1)
    /\ \/ m = open /\ thread = None /\ ~opening
       \/ thread # None /\ m \in thread /\ m \in reader.bodies
    /\ calls' = calls \cup {[Call("move", m, folder) EXCEPT !.was = IF thread # None THEN {m} ELSE {}]}
    /\ UNCHANGED <<folder, rows, hits, markVars, open, opening, popup, draft, thread, reader,
                   pane, asking, marked, serverVars, clicked>>

\* del: the question keeps what was open when it was asked.
AskDelete(m) ==
    /\ asking = None /\ draft = None
    /\ \/ Sees("list") /\ m \in Shown
       \/ m = open
       \/ Sees("read") /\ thread # None /\ m \in thread /\ m \in reader.bodies
    /\ asking' = [mail |-> m, open |-> open, ms |-> thread, key |-> reader.key,
                   was |-> {m} \cap (IF thread # None THEN unreadTalk ELSE unreadRows)]
    /\ UNCHANGED <<folder, rows, hits, markVars, open, opening, popup, draft, thread, reader,
                   pane, marked, calls, serverVars, clicked>>

Cancel ==
    /\ asking # None /\ asking' = None
    /\ UNCHANGED <<folder, rows, hits, markVars, open, opening, popup, draft, thread, reader,
                   pane, marked, calls, serverVars, clicked>>

\* deleteOptimistically: the mark, the list, the conversation, then the request.
Confirm ==
    /\ asking # None /\ asking' = None
    /\ LET m == asking.mail IN
       IF m \in marked
       THEN UNCHANGED <<rows, open, thread, reader, pane, marked, calls>>
       ELSE /\ Room(1)
            /\ marked' = marked \cup {m} /\ rows' = rows \ {m}
            /\ ShowThread(thread, marked')
            /\ IF Home[m] = folder /\ asking.open = m
               THEN open' = None /\ pane' = "list"
               ELSE open' = open /\ pane' = pane
            /\ Rendered(reader.key, {}, Outdated(calls) \cup
                 {[Call("delete", m, folder) EXCEPT !.ms = asking.ms, !.key = asking.key,
                      !.was = asking.was]})
    /\ UNCHANGED <<folder, hits, markVars, opening, popup, draft, serverVars, clicked>>

-----------------------------------------------------------------------------
(* Answers *)

\* The list arrives again, by a reload, a sync or an event.
Listed ==
    /\ rows' = ListingOf(folder) \ marked
    /\ rows' # rows \/ unreadRows # (rows' \cap unread)
    /\ unreadRows' = rows' \cap unread
    /\ count' = [count EXCEPT ![folder] = Cardinality(ListingOf(folder) \cap unread)]
    /\ calls' = Outdated(calls)
    /\ UNCHANGED <<folder, hits, unreadTalk, open, opening, popup, draft, thread, reader,
                   pane, asking, marked, serverVars, clicked>>

IsLatest(c) == c.newest /\ (Home[c.mail] # c.at \/ folder = c.at)
StopOpening(c) == opening' = (opening /\ ~c.newest)

\* The body of a mail: a draft goes to the composer; an unread one is reported.
ReadAnswers(c) ==
    LET m == c.mail IN
    /\ c.op = "read" /\ m \in held
    /\ StopOpening(c)
    /\ CASE ~IsLatest(c) ->
              /\ calls' = calls \ {c}
              /\ UNCHANGED <<open, popup, pane, draft, unreadRows, count>>
         [] IsLatest(c) /\ Home[m] = Drafts ->
              /\ calls' = calls \ {c} /\ draft' = m /\ pane' = "list"
              /\ UNCHANGED <<open, popup, unreadRows, count>>
         [] OTHER ->
              /\ open' = m /\ popup' = c.popup /\ pane' = "read" /\ draft' = draft
              /\ IF m \in unread
                 THEN /\ PatchHeader(m, TRUE) /\ BumpUnseen(Home[m], FALSE)
                      /\ calls' = Outdated(calls \ {c}) \cup {Call("see", m, c.at)}
                 ELSE calls' = calls \ {c} /\ UNCHANGED <<unreadRows, count>>
    /\ UNCHANGED <<folder, rows, hits, unreadTalk, thread, reader, asking, marked,
                   serverVars, clicked>>

\* Mutant: the sign stays when the request fails.
ReadFailsOpening(c) ==
    LET gone == c.mail \notin held IN
    /\ c.op = "read" /\ opening' = opening
    /\ calls' = IF gone /\ IsLatest(c) THEN Outdated(calls \ {c}) ELSE calls \ {c}
    /\ rows' = IF gone /\ IsLatest(c) THEN rows \ SameUid(c.mail) ELSE rows
    /\ open' = IF gone /\ IsLatest(c) /\ open # None /\ Uid[open] = Uid[c.mail] THEN None ELSE open
    /\ IF IsLatest(c) /\ open = None THEN pane' = "list" ELSE PaneAfter(pane)
    /\ UNCHANGED <<folder, hits, markVars, popup, draft, thread, reader, asking, marked,
                   serverVars, clicked>>

\* The mail is gone, or the request failed.
ReadFails(c) ==
    LET gone == c.mail \notin held IN
    /\ c.op = "read"
    /\ StopOpening(c)
    /\ calls' = IF gone /\ IsLatest(c) THEN Outdated(calls \ {c}) ELSE calls \ {c}
    /\ rows' = IF gone /\ IsLatest(c) THEN rows \ SameUid(c.mail) ELSE rows
    /\ open' = IF gone /\ IsLatest(c) /\ open # None /\ Uid[open] = Uid[c.mail] THEN None ELSE open
    /\ IF IsLatest(c) /\ open = None THEN pane' = "list" ELSE PaneAfter(pane)
    /\ UNCHANGED <<folder, hits, markVars, popup, draft, thread, reader, asking, marked,
                   serverVars, clicked>>

\* loadDetail of the mounted reader: the body is kept, the mail reported once.
\* A reader that is gone reports as well, into its own records.
DetailAnswers(c) ==
    LET m == c.mail
        mounted == c.key # None /\ reader.key = c.key
        reports == c.was # {} /\ (mounted => m \notin reader.reported)
    IN  /\ c.op = "detail" /\ m \in held
        /\ reader' = IF mounted
                     THEN [reader EXCEPT !.bodies = @ \cup {m}, !.pending = @ \ {m},
                              !.reported = IF reports THEN @ \cup {m} ELSE @]
                     ELSE reader
        /\ IF reports
           THEN /\ PatchThreadMsg(m, TRUE, c.at) /\ BumpUnseen(Home[m], FALSE)
                /\ calls' = Outdated(calls \ {c}) \cup {Call("see", m, c.at)}
           ELSE calls' = calls \ {c} /\ UNCHANGED markVars
        /\ UNCHANGED <<folder, rows, hits, open, opening, popup, draft, thread, pane, asking,
                       marked, serverVars, clicked>>

\* Mutant: a body that failed stays marked as loading.
DetailForgotten(c) ==
    /\ c.op = "detail" /\ calls' = calls \ {c}
    /\ UNCHANGED <<folder, rows, hits, markVars, open, opening, popup, draft, thread, reader, pane,
                   asking, marked, serverVars, clicked>>

DetailFails(c) ==
    /\ c.op = "detail" /\ calls' = calls \ {c}
    /\ reader' = IF reader.key = c.key THEN [reader EXCEPT !.pending = @ \ {c.mail}] ELSE reader
    /\ UNCHANGED <<folder, rows, hits, markVars, open, opening, popup, draft, thread, pane,
                   asking, marked, serverVars, clicked>>

\* augmentThread: the other mails of the conversation, unless something changed.
\* A newer mail among them changes the key and mounts the reader again.
AugmentAnswers(c) ==
    LET merged == c.ms \cup (Talk \cap held)
        news == (merged \ c.ms) \cap unread
    IN  /\ c.op = "augment" /\ marked' = marked
        /\ IF c.current /\ ~(merged \subseteq c.ms \cup marked)
           THEN /\ ShowThread(merged, marked) /\ unreadTalk' = unreadTalk \cup news
                /\ Rendered(Latest(merged), unreadTalk', calls \ {c})
           ELSE calls' = calls \ {c} /\ UNCHANGED <<thread, unreadTalk, reader>>
        /\ UNCHANGED <<folder, rows, hits, unreadRows, count, open, opening, popup, draft,
                       pane, asking, serverVars, clicked>>

AugmentFails(c) ==
    /\ c.op = "augment" /\ calls' = calls \ {c}
    /\ UNCHANGED <<folder, rows, hits, markVars, open, opening, popup, draft, thread, reader,
                   pane, asking, marked, serverVars, clicked>>

\* The server did what was asked; its answer follows.
ServerDoes(c) ==
    /\ c.op \in {"see", "unsee", "move", "delete"} /\ ~c.done
    /\ calls' = (calls \ {c}) \cup {[c EXCEPT !.done = TRUE]}
    /\ held' = IF c.op \in {"move", "delete"} THEN held \ {c.mail} ELSE held
    /\ unread' = IF c.op = "see" THEN unread \ {c.mail}
                 ELSE IF c.op = "unsee" THEN unread \cup {c.mail} ELSE unread
    /\ UNCHANGED <<folder, rows, hits, markVars, open, opening, popup, draft, thread, reader,
                   pane, asking, marked, clicked>>

FlagAnswers(c) ==
    /\ c.op \in {"see", "unsee"} /\ c.done /\ calls' = calls \ {c}
    /\ UNCHANGED <<folder, rows, hits, markVars, open, opening, popup, draft, thread, reader,
                   pane, asking, marked, serverVars, clicked>>

\* Only marking as read is rolled back.
FlagFails(c) ==
    /\ c.op \in {"see", "unsee"}
    /\ IF c.op = "see"
       THEN PatchThreadMsg(c.mail, FALSE, c.at) /\ BumpUnseen(Home[c.mail], TRUE) /\ calls' = Outdated(calls \ {c})
       ELSE calls' = calls \ {c} /\ UNCHANGED markVars
    /\ UNCHANGED <<folder, rows, hits, open, opening, popup, draft, thread, reader, pane,
                   asking, marked, serverVars, clicked>>

\* Moved: the row goes by its UID, the open mail or the card of the conversation.
MoveAnswers(c) ==
    LET inThread == c.was # {} IN
    /\ c.op = "move" /\ c.done /\ marked' = marked
    /\ rows' = IF inThread /\ Home[c.mail] # c.at THEN rows ELSE rows \ SameUid(c.mail)
    /\ IF inThread /\ thread # None
       THEN ShowThread(thread \ {c.mail}, marked) ELSE thread' = thread
    /\ Rendered(reader.key, {}, Outdated(calls \ {c}))
    /\ open' = IF ~inThread /\ open = c.mail THEN None ELSE open
    /\ IF inThread /\ thread # None /\ thread \ {c.mail} = {} THEN pane' = "list" ELSE PaneAfter(pane)
    /\ UNCHANGED <<folder, hits, markVars, opening, popup, draft, asking, serverVars, clicked>>

DeleteAnswers(c) ==
    /\ c.op = "delete" /\ c.done
    /\ calls' = calls \ {c}
    /\ IF c.was # {} THEN BumpUnseen(Home[c.mail], FALSE) ELSE count' = count
    /\ UNCHANGED <<folder, rows, hits, unreadRows, unreadTalk, open, opening, popup, draft,
                   thread, reader, pane, asking, marked, serverVars, clicked>>

\* Refused or lost: the mark goes, the row and the conversation of the question
\* come back if nothing was changed meanwhile.
DeleteFails(c) ==
    LET here == folder = c.at
        listed == here /\ Home[c.mail] = folder
        restored == here /\ c.current /\ c.ms # None
    IN  /\ c.op = "delete"
        /\ marked' = marked \ {c.mail}
        /\ rows' = IF listed THEN rows \cup {c.mail} ELSE rows
        /\ IF restored THEN ShowThread(c.ms, marked') ELSE thread' = thread
        /\ Rendered(IF restored THEN c.key ELSE reader.key, unreadTalk,
                    IF listed THEN Outdated(calls \ {c}) ELSE calls \ {c})
        /\ UNCHANGED <<folder, hits, markVars, open, opening, popup, draft, pane, asking,
                       serverVars, clicked>>

-----------------------------------------------------------------------------
Init ==
    /\ folder = Start /\ held = Mails /\ hits = None
    /\ unread = Mails /\ rows = {m \in Mails : Home[m] = Start}
    /\ unreadRows = rows /\ unreadTalk = {}
    /\ count = [f \in Folders |-> Cardinality({m \in Mails : Home[m] = f})]
    /\ open = None /\ opening = FALSE /\ popup = FALSE /\ draft = None
    /\ thread = None /\ reader = NoReader /\ narrow \in BOOLEAN /\ pane = "list"
    /\ asking = None /\ marked = {} /\ calls = {} /\ clicked = None
    /\ moves = 0 /\ failures = 0

User ==
    \/ \E f \in Folders : ClickFolder(f)
    \/ ShowFolders
    \/ FullText
    \/ \E m \in Mails, p \in BOOLEAN : OpenMsg(m, p)
    \/ OpenConversation
    \/ \E m \in Mails : ToggleCard(m) \/ MarkThreadUnread(m) \/ MoveAway(m) \/ AskDelete(m)
    \/ CloseReading \/ ClosePopup \/ CloseCompose \/ MarkUnread
    \/ Cancel \/ Confirm

Answers ==
    \E c \in calls :
        \/ ReadAnswers(c) \/ DetailAnswers(c) \/ AugmentAnswers(c)
        \/ ServerDoes(c) \/ FlagAnswers(c) \/ MoveAnswers(c) \/ DeleteAnswers(c)
        \/ c.mail \notin held /\ ReadFails(c)

Failing ==
    \E c \in calls :
        \/ c.mail \in held /\ ReadFails(c)
        \/ DetailFails(c) \/ AugmentFails(c) \/ FlagFails(c) \/ DeleteFails(c)

Move == moves < MaxMoves /\ moves' = moves + 1 /\ User /\ UNCHANGED <<failures, narrow>>
Failure == failures < MaxFailures /\ failures' = failures + 1 /\ Failing /\ UNCHANGED <<moves, narrow>>
Other == UNCHANGED <<moves, failures, narrow>>

Next ==
    \/ Move \/ Failure
    \/ (Answers \/ Listed) /\ Other

Spec == Init /\ [][Next]_vars
FairSpec == Spec /\ WF_vars(Answers /\ Other)

-----------------------------------------------------------------------------
(* Properties *)

Requests == [op: {"read", "detail", "augment", "see", "unsee", "move", "delete"},
             mail: Mails, at: Folders, newest: BOOLEAN, current: BOOLEAN, popup: BOOLEAN,
             was: SUBSET Mails, key: Mails \cup {None},
             ms: (SUBSET Mails) \cup {None}, done: BOOLEAN]
Readers == [key: Mails \cup {None}, cards: SUBSET Mails, bodies: SUBSET Mails,
            pending: SUBSET Mails, reported: SUBSET Mails]

TypeOK ==
    /\ folder \in Folders /\ rows \subseteq Mails /\ hits \in (SUBSET Mails) \cup {None}
    /\ unreadRows \subseteq Mails /\ unreadTalk \subseteq Mails
    /\ count \in [Folders -> Nat]
    /\ open \in Mails \cup {None} /\ opening \in BOOLEAN /\ popup \in BOOLEAN
    /\ draft \in Mails \cup {None}
    /\ thread \in ((SUBSET Mails) \ {{}}) \cup {None} /\ reader \in Readers
    /\ narrow \in BOOLEAN /\ pane \in {"folders", "list", "read"}
    /\ asking \in [mail: Mails, open: Mails \cup {None}, ms: (SUBSET Mails) \cup {None},
                   key: Mails \cup {None}, was: SUBSET Mails] \cup {None}
    /\ marked \subseteq Mails /\ calls \in SUBSET Requests
    /\ held \subseteq Mails /\ unread \subseteq Mails /\ clicked \in Mails \cup {None}
    /\ moves \in 0..MaxMoves /\ failures \in 0..MaxFailures

\* Only the mail the user clicked last is put into the column, however late the
\* answers of earlier clicks arrive; none once a conversation was opened.
LatestOpenWins == [][open' # open /\ open' # None => open' = clicked]_vars

\* A mail whose deletion is under way or confirmed is not in the conversation,
\* neither by the mails loaded later nor by one restored after a failure.
DeletedNotInThread == thread # None => thread \cap marked = {}

\* A card of the conversation shown as loading has its request under way, also
\* when the reader was mounted again in between: it does not load for ever.
LoadingHasRequest ==
    \A m \in reader.pending :
        \E c \in calls : c.op = "detail" /\ c.mail = m /\ c.key = reader.key

\* The sign of a mail being opened goes out again.
OpeningEnds == opening ~> ~opening
=============================================================================
