----------------------------- MODULE MailPanel ------------------------------
(* Around one mail being read in the web client (pages/Mail.tsx): pictures and *)
(* quotes, translation, labels, receipts, attachments, blocking its sender,    *)
(* the mails waiting to be sent, and what is loaded once per account in the    *)
(* background.  Opening is one step here; MailRead has its races.              *)
EXTENDS Sequences, ClientBase

CONSTANTS
    PanelMails, UidOf,  \* mails and their UIDs; in two folders they may be the same
    PanelAccounts,
    Warm                \* prefetched mails remembered

ASSUME PanelAssumption ==
    /\ UidOf \in [PanelMails -> Nat] /\ Warm \in Nat \ {0}
    /\ PanelMails # {} /\ PanelAccounts # {} /\ None # "sent"

VARIABLES
    pane,       \* the mail read, and what is unfolded about it
    notices,    \* receipts and unsubscriptions by UID, whether a receipt is on its way
    tags,       \* the labels there are, the one edited, the filter, those of each mail
    panelAsk,   \* the confirmation to be answered: block a sender, hand out unchecked
    later,      \* the list of mails to be sent later, when it is open
    where,      \* the account, whether conversations are shown, accounts with folders
    loads,      \* per kind: accounts loaded and accounts being loaded
    warm,       \* mails whose bodies were asked for, the oldest first
    panelCalls, \* requests under way
    panelServer,\* labels, mails waiting, the scanner
    given       \* history: receipts sent (twice: more than one of a mail), files handed out

panelVars == <<pane, notices, tags, panelAsk, later, where, loads, warm,
               panelCalls, panelServer, given>>

-----------------------------------------------------------------------------
(* The mail and its head *)

PanelCall(op, mail, arg) == [op |-> op, mail |-> mail, arg |-> arg, mine |-> TRUE, stage |-> "sent"]
SendPanel(op, mail, arg) == panelCalls' = panelCalls \cup {PanelCall(op, mail, arg)}

OfMail == {"translate", "raw", "contact", "receipt", "unsubscribe", "download", "block", "label", "prefetch"}
Folds == {"popup", "quote", "auth", "dark", "details"}
Folded == [f \in Folds |-> FALSE]
NoPane == [mail |-> None, images |-> None, folds |-> Folded, translated |-> None,
           translating |-> FALSE, saved |-> FALSE, raw |-> None]
Reading == pane.mail # None /\ panelAsk = None /\ pane.raw = None

\* Mutant: the permission for pictures is not taken back.
OpenMailAllowed(m, popup) ==
    /\ panelAsk = None /\ pane.raw = None /\ m # pane.mail
    /\ pane' = [pane EXCEPT !.mail = m, !.translated = None, !.saved = FALSE,
                   !.folds = [Folded EXCEPT !["popup"] = popup]]
    /\ UNCHANGED <<notices, tags, panelAsk, later, where, loads, warm, panelCalls, panelServer, given>>

\* images: the mail whose pictures were allowed; a flag in the program.
OpenMail(m, popup) ==
    /\ panelAsk = None /\ pane.raw = None /\ m # pane.mail
    /\ pane' = [pane EXCEPT !.mail = m, !.images = None, !.translated = None, !.saved = FALSE,
                   !.folds = [Folded EXCEPT !["popup"] = popup]]
    /\ UNCHANGED <<notices, tags, panelAsk, later, where, loads, warm, panelCalls, panelServer, given>>

\* By its button or Escape, which does nothing while the popup is there.
ClosePane ==
    /\ Reading /\ ~pane.folds["popup"]
    /\ pane' = [pane EXCEPT !.mail = None, !.saved = FALSE]
    /\ UNCHANGED <<notices, tags, panelAsk, later, where, loads, warm, panelCalls, panelServer, given>>

ToggleFold(f) ==
    /\ Reading /\ (f = "popup" => pane.folds["popup"])
    /\ pane' = [pane EXCEPT !.folds[f] = ~@]
    /\ UNCHANGED <<notices, tags, panelAsk, later, where, loads, warm, panelCalls, panelServer, given>>

\* Remote pictures are blocked until asked for, mail by mail.
ShowImages ==
    /\ Reading /\ pane.images = None /\ pane' = [pane EXCEPT !.images = pane.mail]
    /\ UNCHANGED <<notices, tags, panelAsk, later, where, loads, warm, panelCalls, panelServer, given>>

\* Again: back to the original.  The menu offers it while one is under way.
DoTranslate ==
    /\ Reading
    /\ IF pane.translated # None
       THEN pane' = [pane EXCEPT !.translated = None] /\ UNCHANGED panelCalls
       ELSE /\ Room(panelCalls) /\ pane' = [pane EXCEPT !.translating = TRUE]
            /\ SendPanel("translate", pane.mail, None)
    /\ UNCHANGED <<notices, tags, panelAsk, later, where, loads, warm, panelServer, given>>

ShowRaw ==
    /\ Reading /\ Room(panelCalls) /\ SendPanel("raw", pane.mail, None)
    /\ UNCHANGED <<pane, notices, tags, panelAsk, later, where, loads, warm, panelServer, given>>
CloseRaw ==
    /\ pane.raw # None /\ pane' = [pane EXCEPT !.raw = None]
    /\ UNCHANGED <<notices, tags, panelAsk, later, where, loads, warm, panelCalls, panelServer, given>>

SaveContact ==
    /\ Reading /\ ~pane.saved /\ Room(panelCalls) /\ SendPanel("contact", pane.mail, None)
    /\ UNCHANGED <<pane, notices, tags, panelAsk, later, where, loads, warm, panelServer, given>>

-----------------------------------------------------------------------------
(* Receipts, unsubscribing, attachments, blocking *)

Uid == UidOf[pane.mail]
\* The banner asks until a receipt was sent or declined.
MdnBanner == Reading /\ ~notices.busy /\ notices.mdn[Uid] = None
SendReadReceipt ==
    /\ MdnBanner /\ Room(panelCalls)
    /\ notices' = [notices EXCEPT !.busy = TRUE] /\ SendPanel("receipt", pane.mail, None)
    /\ UNCHANGED <<pane, tags, panelAsk, later, where, loads, warm, panelServer, given>>
IgnoreReceipt ==
    /\ MdnBanner /\ notices' = [notices EXCEPT !.mdn[Uid] = "hidden"]
    /\ UNCHANGED <<pane, tags, panelAsk, later, where, loads, warm, panelCalls, panelServer, given>>

Unsubscribe ==
    /\ Reading /\ notices.unsub[Uid] = None /\ Room(panelCalls)
    /\ notices' = [notices EXCEPT !.unsub[Uid] = "busy"] /\ SendPanel("unsubscribe", pane.mail, None)
    /\ UNCHANGED <<pane, tags, panelAsk, later, where, loads, warm, panelServer, given>>

\* An attachment known to be infected has no button; the server scans each time.
AttDownload ==
    /\ Reading /\ pane.mail \notin panelServer.found /\ Room(panelCalls)
    /\ SendPanel("download", pane.mail, "checked")
    /\ UNCHANGED <<pane, notices, tags, panelAsk, later, where, loads, warm, panelServer, given>>

AskBlock ==
    /\ Reading /\ panelAsk' = [op |-> "block", mail |-> pane.mail]
    /\ UNCHANGED <<pane, notices, tags, later, where, loads, warm, panelCalls, panelServer, given>>
PanelAnswered(yes) ==
    /\ panelAsk # None /\ panelAsk' = None
    /\ IF ~yes THEN UNCHANGED panelCalls
       ELSE IF panelAsk.op = "block" THEN SendPanel("block", panelAsk.mail, None)
       ELSE SendPanel("download", panelAsk.mail, "unchecked")
    /\ UNCHANGED <<pane, notices, tags, later, where, loads, warm, panelServer, given>>

-----------------------------------------------------------------------------
(* Labels *)

Tagged(m, on) == [tags EXCEPT !.of[m] = on]
LabelKnown == tags.known
\* Shown at once, taken back when the server refuses; either way the open mail
\* is a new object, and the contact may be saved once more.
SetLabel ==
    /\ Reading /\ LabelKnown /\ Room(panelCalls)
    /\ tags' = Tagged(pane.mail, ~tags.of[pane.mail]) /\ pane' = [pane EXCEPT !.saved = FALSE]
    /\ SendPanel("label", pane.mail, ~tags.of[pane.mail])
    /\ UNCHANGED <<notices, panelAsk, later, where, loads, warm, panelServer, given>>

LabelRequest(op) ==
    /\ Reading /\ Room(panelCalls) /\ SendPanel(op, None, None)
    /\ UNCHANGED <<pane, notices, tags, panelAsk, later, where, loads, warm, panelServer, given>>
CreateLabel == ~LabelKnown /\ LabelRequest("createLabel")
DeleteLabel == LabelKnown /\ LabelRequest("deleteLabel")
SaveLabelEdit == tags.editing /\ LabelRequest("editLabel")
EditLabel(on) ==
    /\ Reading /\ LabelKnown /\ tags.editing # on /\ tags' = [tags EXCEPT !.editing = on]
    /\ UNCHANGED <<pane, notices, panelAsk, later, where, loads, warm, panelCalls, panelServer, given>>
FilterByLabel ==
    /\ panelAsk = None /\ (LabelKnown \/ tags.filter) /\ tags' = [tags EXCEPT !.filter = ~@]
    /\ UNCHANGED <<pane, notices, panelAsk, later, where, loads, warm, panelCalls, panelServer, given>>

-----------------------------------------------------------------------------
(* Mails to be sent later *)

OpenScheduled ==
    /\ panelAsk = None /\ ~later.open /\ Room(panelCalls)
    /\ later' = [later EXCEPT !.open = TRUE] /\ SendPanel("scheduled", None, None)
    /\ UNCHANGED <<pane, notices, tags, panelAsk, where, loads, warm, panelServer, given>>
CloseScheduled ==
    /\ later.open /\ later' = [later EXCEPT !.open = FALSE]
    /\ UNCHANGED <<pane, notices, tags, panelAsk, where, loads, warm, panelCalls, panelServer, given>>
CancelScheduled(s) ==
    /\ later.open /\ s \in later.rows /\ Room(panelCalls) /\ SendPanel("cancel", None, s)
    /\ UNCHANGED <<pane, notices, tags, panelAsk, later, where, loads, warm, panelServer, given>>

-----------------------------------------------------------------------------
(* What is loaded once per account, and bodies asked for beforehand *)

LoadKinds == {"sent", "partners"}
\* An effect whose dependencies changed: what it loads is no longer wanted, and
\* it starts again unless the account is loaded or still being loaded.
Starts(k, place, at) ==
    /\ place.conversations /\ place.acc \notin at[k].done \cup at[k].busy
    /\ k = "sent" => place.acc \in place.folders
EffectsRun(ks, place, at, calls) ==
    LET starting == {k \in ks : Starts(k, place, at)} IN
    /\ where' = place
    /\ panelCalls' = {IF c.op \in ks THEN [c EXCEPT !.mine = FALSE] ELSE c : c \in calls}
                         \cup {PanelCall(k, None, place.acc) : k \in starting}
    /\ loads' = [k \in LoadKinds |->
                   IF k \in starting THEN [at[k] EXCEPT !.busy = @ \cup {place.acc}] ELSE at[k]]

SelectAccount(a) ==
    /\ panelAsk = None /\ a # where.acc
    /\ EffectsRun(LoadKinds, [where EXCEPT !.acc = a], loads, panelCalls)
    /\ pane' = [pane EXCEPT !.mail = None, !.saved = FALSE]
    /\ UNCHANGED <<notices, tags, panelAsk, later, warm, panelServer, given>>
ToggleConversations ==
    /\ panelAsk = None
    /\ EffectsRun(LoadKinds, [where EXCEPT !.conversations = ~@], loads, panelCalls)
    /\ UNCHANGED <<pane, notices, tags, panelAsk, later, warm, panelServer, given>>

\* Folder lists come with every count of the mails.
FoldersCome(a) ==
    /\ \/ a \notin where.folders \/ \E c \in panelCalls : c.op = "sent" /\ c.mine
    /\ EffectsRun({"sent"}, [where EXCEPT !.folders = @ \cup {a}], loads, panelCalls)
    /\ UNCHANGED <<pane, notices, tags, panelAsk, later, warm, panelServer, given>>

LoadEnds(c, ok) ==
    /\ c.op \in LoadKinds
    /\ LET freed == [loads EXCEPT ![c.op].busy = @ \ {c.arg}] IN
       IF c.mine
       THEN EffectsRun({c.op}, where, [freed EXCEPT ![c.op].done = @ \cup {c.arg}], panelCalls \ {c})
       ELSE where' = where /\ loads' = freed /\ panelCalls' = panelCalls \ {c}
    /\ UNCHANGED <<pane, notices, tags, panelAsk, later, warm, panelServer, given>>

\* warmBodies, for the row under the pointer.
PrefetchMsg(m) ==
    /\ \A i \in DOMAIN warm : warm[i] # m
    /\ Room(panelCalls) /\ SendPanel("prefetch", m, None)
    /\ warm' = LET longer == Append(warm, m) IN
               IF Len(longer) > Warm THEN Tail(longer) ELSE longer
    /\ UNCHANGED <<pane, notices, tags, panelAsk, later, where, loads, panelServer, given>>
ColdAgain(m) == Without(warm, m)

-----------------------------------------------------------------------------
(* The server and its answers *)

ScannerChanges ==
    /\ \E c \in panelCalls : c.op = "download"
    /\ panelServer' = [panelServer EXCEPT !.scanner = ~@]
    /\ UNCHANGED <<pane, notices, tags, panelAsk, later, where, loads, warm, panelCalls, given>>

\* attachment: scanned whenever the scanner can be reached, asked unchecked or not.
Scanned(c) ==
    IF panelServer.scanner
    THEN IF c.mail \in panelServer.infected THEN "infected" ELSE "clean"
    ELSE IF c.arg = "unchecked" THEN "unchecked" ELSE "unavailable"
PanelServerDoes(c) ==
    /\ c.stage = "sent" /\ c.op \in {"label", "createLabel", "deleteLabel", "receipt", "cancel", "download"}
    /\ LET stage == IF c.op = "download" THEN Scanned(c) ELSE "done" IN
       /\ panelCalls' = (panelCalls \ {c}) \cup {[c EXCEPT !.stage = stage]}
       /\ panelServer' = CASE c.op = "label" -> [panelServer EXCEPT !.of[c.mail] = c.arg]
                           [] c.op = "createLabel" -> [panelServer EXCEPT !.known = TRUE]
                           [] c.op = "deleteLabel" -> [panelServer EXCEPT !.known = FALSE]
                           [] c.op = "cancel" -> [panelServer EXCEPT !.waiting = @ \ {c.arg}]
                           [] stage = "infected" -> [panelServer EXCEPT !.found = @ \cup {c.mail}]
                           [] OTHER -> panelServer
       /\ given' = IF c.op = "receipt"
                   THEN [given EXCEPT !.receipts = @ \cup {c.mail},
                            !.twice = @ \/ c.mail \in given.receipts]
                   ELSE given
    /\ UNCHANGED <<pane, notices, tags, panelAsk, later, where, loads, warm>>

Direct == {"translate", "raw", "contact", "unsubscribe", "block", "scheduled", "editLabel", "prefetch"}
PanelAnswers(c) ==
    /\ c.stage = "done" \/ c.op \in Direct
    /\ panelCalls' = panelCalls \ {c}
    /\ pane' = CASE c.op = "translate" -> [pane EXCEPT !.translated = c.mail, !.translating = FALSE]
                 [] c.op = "raw" -> [pane EXCEPT !.raw = c.mail]
                 [] c.op = "contact" -> [pane EXCEPT !.saved = TRUE]
                 [] c.op = "block" -> [pane EXCEPT !.mail = None, !.saved = FALSE]
                 [] OTHER -> pane
    /\ notices' = CASE c.op = "receipt" -> [notices EXCEPT !.mdn[UidOf[c.mail]] = "sent", !.busy = FALSE]
                    [] c.op = "unsubscribe" -> [notices EXCEPT !.unsub[UidOf[c.mail]] = "done"]
                    [] OTHER -> notices
    /\ tags' = CASE c.op = "createLabel" -> [tags EXCEPT !.known = TRUE]
                 [] c.op = "deleteLabel" -> [tags EXCEPT !.known = FALSE]
                 [] c.op = "editLabel" -> [tags EXCEPT !.editing = FALSE]
                 [] OTHER -> tags
    /\ later' = CASE c.op = "scheduled" -> [later EXCEPT !.rows = panelServer.waiting]
                  [] c.op = "cancel" -> [later EXCEPT !.rows = @ \ {c.arg}]
                  [] OTHER -> later
    /\ UNCHANGED <<panelAsk, where, loads, warm, panelServer, given>>

\* downloadAttachment: only "could not be scanned" leads to the panelAsk.
DownloadAnswer(c) ==
    /\ c.op = "download" /\ c.stage # "sent" /\ panelCalls' = panelCalls \ {c}
    /\ (c.stage = "unavailable" => panelAsk = None)
    /\ panelAsk' = IF c.stage = "unavailable" THEN [op |-> "download", mail |-> c.mail] ELSE panelAsk
    /\ given' = IF c.stage \in {"clean", "unchecked"}
                THEN [given EXCEPT !.files = @ \cup {<<c.mail, c.stage>>}] ELSE given
    /\ UNCHANGED <<pane, notices, tags, later, where, loads, warm, panelServer>>

PanelFails(c) ==
    /\ c.op \notin LoadKinds /\ panelCalls' = panelCalls \ {c}
    /\ pane' = CASE c.op = "translate" -> [pane EXCEPT !.translating = FALSE]
                 [] c.op = "label" /\ c.mail = pane.mail -> [pane EXCEPT !.saved = FALSE]
                 [] OTHER -> pane
    /\ notices' = CASE c.op = "receipt" -> [notices EXCEPT !.busy = FALSE]
                    [] c.op = "unsubscribe" -> [notices EXCEPT !.unsub[UidOf[c.mail]] = None]
                    [] OTHER -> notices
    /\ tags' = IF c.op = "label" THEN Tagged(c.mail, ~c.arg) ELSE tags
    /\ warm' = IF c.op = "prefetch" THEN ColdAgain(c.mail) ELSE warm
    /\ UNCHANGED <<panelAsk, later, where, loads, panelServer, given>>

-----------------------------------------------------------------------------
PanelInit ==
    /\ pane = NoPane /\ panelAsk = None /\ warm = <<>> /\ panelCalls = {}
    /\ notices = [mdn |-> [u \in {UidOf[m] : m \in PanelMails} |-> None],
                  unsub |-> [u \in {UidOf[m] : m \in PanelMails} |-> None], busy |-> FALSE]
    /\ tags = [known |-> TRUE, editing |-> FALSE, filter |-> FALSE, of |-> [m \in PanelMails |-> FALSE]]
    /\ later = [open |-> FALSE, rows |-> {}]
    /\ where = [acc |-> CHOOSE a \in PanelAccounts : TRUE, conversations |-> FALSE, folders |-> {}]
    /\ loads = [k \in LoadKinds |-> [done |-> {}, busy |-> {}]]
    /\ \E m \in Beginning("panel", PanelMails) :
          panelServer = [known |-> TRUE, of |-> [n \in PanelMails |-> FALSE], waiting |-> {1},
                         scanner |-> TRUE, infected |-> {m}, found |-> {}]
    /\ given = [receipts |-> {}, twice |-> FALSE, files |-> {}]

PanelUser ==
    \/ \E m \in PanelMails : PrefetchMsg(m) \/ OpenMail(m, TRUE) \/ OpenMail(m, FALSE)
    \/ ClosePane \/ ShowImages \/ DoTranslate \/ ShowRaw \/ SaveContact
    \/ \E f \in Folds : ToggleFold(f)
    \/ SendReadReceipt \/ IgnoreReceipt \/ Unsubscribe \/ AttDownload \/ AskBlock
    \/ SetLabel \/ CreateLabel \/ DeleteLabel \/ SaveLabelEdit \/ FilterByLabel
    \/ \E on \in BOOLEAN : EditLabel(on)
    \/ OpenScheduled \/ CloseScheduled \/ \E s \in later.rows : CancelScheduled(s)
    \/ ToggleConversations \/ \E a \in PanelAccounts : SelectAccount(a)

PanelNext ==
    \/ ByUser(PanelUser)
    \/ ByFault(\E c \in panelCalls : PanelFails(c) \/ LoadEnds(c, FALSE))
    \/ ByItself(CloseRaw \/ ScannerChanges \/ (\E yes \in BOOLEAN : PanelAnswered(yes))
                \/ (\E a \in PanelAccounts : FoldersCome(a))
                \/ \E c \in panelCalls : PanelServerDoes(c) \/ PanelAnswers(c)
                                         \/ DownloadAnswer(c) \/ LoadEnds(c, TRUE))

-----------------------------------------------------------------------------
(* Properties *)

SomeMail == PanelMails \cup {None}
Panes == [mail: SomeMail, images: SomeMail, folds: [Folds -> BOOLEAN], translated: SomeMail,
          translating: BOOLEAN, saved: BOOLEAN, raw: SomeMail]
PanelUids == {UidOf[m] : m \in PanelMails}
Notices == [mdn: [PanelUids -> {None, "hidden", "sent"}], unsub: [PanelUids -> {None, "busy", "done"}],
            busy: BOOLEAN]
Labels == [PanelMails -> BOOLEAN]
Asks == [op: {"block", "download"}, mail: PanelMails]
Loads == [LoadKinds -> [done: SUBSET PanelAccounts, busy: SUBSET PanelAccounts]]
Places == [acc: PanelAccounts, conversations: BOOLEAN, folders: SUBSET PanelAccounts]
PanelCallOK(c) ==
    /\ c \in [op: {"createLabel", "deleteLabel", "editLabel", "scheduled", "cancel"} \cup OfMail \cup LoadKinds,
              mail: SomeMail, arg: {c.arg}, mine: BOOLEAN,
              stage: {"sent", "done", "clean", "infected", "unchecked", "unavailable"}]
    /\ c.op \in OfMail => c.mail \in PanelMails
    /\ c.op = "label" => c.arg \in BOOLEAN
    /\ c.op \in LoadKinds => c.arg \in PanelAccounts
PanelServers == [known: BOOLEAN, of: Labels, waiting: SUBSET {1}, scanner: BOOLEAN,
                 infected: SUBSET PanelMails, found: SUBSET PanelMails]
Gifts == [receipts: SUBSET PanelMails, twice: BOOLEAN, files: SUBSET (PanelMails \X {"clean", "unchecked"})]
PanelTypeOK ==
    /\ pane \in Panes /\ notices \in Notices /\ panelAsk \in Asks \cup {None}
    /\ tags \in [known: BOOLEAN, editing: BOOLEAN, filter: BOOLEAN, of: Labels]
    /\ later \in [open: BOOLEAN, rows: SUBSET {1}] /\ where \in Places
    /\ loads \in Loads /\ warm \in Seq(PanelMails) /\ \A c \in panelCalls : PanelCallOK(c)
    /\ panelServer \in PanelServers /\ given \in Gifts

\* Remote pictures are shown only of the mail they were allowed for; a file with
\* a virus leaves only when the scanner could not be reached and the user agreed;
\* the headers of an account are loaded once at a time however its folders, the
\* account and the view change meanwhile; and not more bodies are remembered.
PicturesAllowed == pane.mail # None => pane.images \in {None, pane.mail}
NoVirusAsClean == \A f \in given.files : f[1] \in panelServer.infected => f[2] = "unchecked"
OneLoad == \A c, d \in panelCalls : c.op \in LoadKinds /\ c.op = d.op /\ c.arg = d.arg => c = d
WarmBounded == Len(warm) <= Warm
\* No mail is confirmed as read twice unless a request failed.
ReceiptOnce == given.twice => failures > 0
PanelKeeps == PicturesAllowed /\ NoVirusAsClean /\ OneLoad /\ WarmBounded /\ ReceiptOnce
=============================================================================
