------------------------------ MODULE Compose -------------------------------
(* The window for writing a mail (components/Compose.tsx): the draft and its   *)
(* parts, the countdown in which sending can be undone, sending at a later     *)
(* time, closing with a draft saved.  A body is a sequence of parts.           *)
EXTENDS Naturals, Sequences, FiniteSets, FiniteSetsExt, ClientBase

CONSTANTS
    Undo,       \* seconds between the click and sending
    Aliases,    \* the identities besides the account itself, which is None
    Signed,     \* those with a signature
    Default     \* the default identity, or None

ASSUME ComposeAssumption ==
    Undo \in Nat \ {0} /\ None \notin Aliases /\ Signed \subseteq Aliases \cup {None}
    /\ Default \in Aliases \cup {None}

Parts == {"typed", "pasted", "template", "signature", "intro", "quoted", "head", "original"}
Windows == [to : BOOLEAN, subject : BOOLEAN, text : Seq(Parts), quote : {"none", "reply", "forward"},
          files : 0..2, from : Aliases \cup {None},
          loaded : SUBSET {"accounts", "identities", "templates"}, busy : BOOLEAN,
          menu : {"none", "formats", "more", "templates", "template", "schedule"}, over : 0..2]
Posts == [op : {"send", "schedule", "draft", "template", "untemplate"}, body : Seq(Parts),
          to : BOOLEAN, subject : BOOLEAN, files : 0..2, click : Nat, mine : BOOLEAN, done : BOOLEAN]

ASSUME WindowAssumption == None \notin Windows \cup Posts

VARIABLES
    form,       \* the window, or None
    sending,    \* the countdown with the form of its click, or None
    posts,      \* requests under way
    mailbox,    \* the server: mails sent and scheduled, the draft, the templates
    undone      \* history: the clicks on Send that were undone

composeVars == <<form, sending, posts, mailbox, undone>>

-----------------------------------------------------------------------------
(* Drafts *)

QuoteParts(q) == CASE q = "none" -> <<>>
                   [] q = "reply" -> <<"intro", "quoted">>
                   [] q = "forward" -> <<"head", "original">>

\* Known only once the accounts or the identities are there.
HasSignature(f) ==
    f.from \in Signed /\ (IF f.from = None THEN "accounts" ELSE "identities") \in f.loaded
Body(f) == f.text \o (IF HasSignature(f) THEN <<"signature">> ELSE <<>>) \o QuoteParts(f.quote)

\* Mutant: the signature stays in the editor.
ParseSigned(b) ==
    LET quoted == {i \in DOMAIN b : b[i] = "quoted"} IN
    [text |-> IF quoted = {} THEN b ELSE SubSeq(b, 1, Min(quoted) - 2),
     quote |-> IF quoted = {} THEN "none" ELSE "reply"]
\* The quoted lines with their introduction and the signature leave the editor;
\* a forwarded mail carries no marks of a quotation.
ParseDraftBody(b) ==
    LET quoted == {i \in DOMAIN b : b[i] = "quoted"}
        own == IF quoted = {} THEN b ELSE SubSeq(b, 1, Min(quoted) - 2)
        signed == {i \in DOMAIN own : own[i] = "signature"}
    IN  [text |-> IF signed = {} THEN own ELSE SubSeq(own, 1, Max(signed) - 1),
         quote |-> IF quoted = {} THEN "none" ELSE "reply"]

\* A window just mounted; Cc and Bcc fold out with the draft.
Window(to, subject, text, quote) ==
    [to |-> to, subject |-> subject, text |-> text, quote |-> quote, files |-> 0,
     from |-> None, loaded |-> {}, busy |-> FALSE, menu |-> "none", over |-> 0]
EmptyDraft == Window(FALSE, FALSE, <<>>, "none")
ReplyDraft == Window(TRUE, TRUE, <<>>, "reply")
ForwardDraft == Window(FALSE, TRUE, <<>>, "forward")
SavedDraft ==
    LET saved == mailbox.draft
        parsed == ParseDraftBody(saved.body)
    IN  Window(saved.to, saved.subject, parsed.text, parsed.quote)

OpenWindow ==
    /\ form = None
    /\ form' \in {EmptyDraft, ReplyDraft, ForwardDraft}
                 \cup (IF mailbox.draft = None THEN {} ELSE {SavedDraft})
    /\ UNCHANGED <<sending, posts, mailbox, undone>>

-----------------------------------------------------------------------------
(* Writing *)

Editing == form # None /\ form.menu = "none"
Edit(f) == form' = f /\ UNCHANGED <<sending, posts, mailbox, undone>>

\* The identities choose the default once, over a choice made before.
ListsArrive(list) ==
    /\ form # None /\ list \notin form.loaded
    /\ Edit([form EXCEPT !.loaded = @ \cup {list},
                !.from = IF list = "identities" /\ Default # None THEN Default ELSE @])

ChooseFrom(k) ==
    /\ Editing /\ "accounts" \in form.loaded /\ k # form.from
    /\ k = None \/ "identities" \in form.loaded
    /\ Edit([form EXCEPT !.from = k])

SetRecipients(some) == Editing /\ form.to # some /\ Edit([form EXCEPT !.to = some])
SetSubject == Editing /\ ~form.subject /\ Edit([form EXCEPT !.subject = TRUE])

Contains(f, part) == \E i \in DOMAIN f.text : f.text[i] = part

\* Typed, formatted, linked, or pasted and dropped after being sanitized.
Write(part) ==
    /\ Editing /\ ~Contains(form, part)
    /\ Edit([form EXCEPT !.text = Append(@, part)])
Erase == Editing /\ form.text # <<>> /\ Edit([form EXCEPT !.text = <<>>])

AddFile == Editing /\ form.files < 2 /\ Edit([form EXCEPT !.files = @ + 1])
RemoveFile == Editing /\ form.files > 0 /\ Edit([form EXCEPT !.files = @ - 1])

\* Entering and leaving is counted through the elements of the window.
DragEnter == form # None /\ form.over < 2 /\ Edit([form EXCEPT !.over = @ + 1])
DragLeave == form # None /\ form.over > 0 /\ Edit([form EXCEPT !.over = @ - 1])
DropFile == form # None /\ form.over > 0 /\ form.files < 2
            /\ Edit([form EXCEPT !.over = 0, !.files = @ + 1])

\* The menus open from one another; a click beside them closes them.
Formats == form.menu = "none"
SubMenus == form.menu = "more"
TemplateList == form.menu = "templates" /\ mailbox.templates # {}
TemplateEditor == form.menu = "template"
Times == form.menu = "schedule"
OpenMenu(m) ==
    /\ form # None
    /\ \/ m \in {"more", "formats"} /\ Formats
       \/ m \in {"templates", "schedule"} /\ SubMenus
       \/ m = "template" /\ TemplateList
       \/ m = "none" /\ ~Formats
    /\ Edit([form EXCEPT !.menu = m])

\* Appended to the text; the subject only if there is none.
InsertTemplate ==
    /\ form # None /\ TemplateList /\ "templates" \in form.loaded
    /\ ~Contains(form, "template")
    /\ Edit([form EXCEPT !.menu = "none", !.text = Append(@, "template"),
                !.subject = @ \/ "subject" \in mailbox.templates])

-----------------------------------------------------------------------------
(* Sending *)

Clicks == {p.click : p \in posts \cup mailbox.sent} \cup undone
          \cup (IF sending = None THEN {} ELSE {sending.click})
NextClick == IF Clicks = {} THEN 1 ELSE Max(Clicks) + 1
Post(op, f, click) ==
    [op |-> op, body |-> Body(f), to |-> f.to, subject |-> f.subject, files |-> f.files,
     click |-> click, mine |-> TRUE, done |-> FALSE]
Allowed(f) == f.to /\ f.files < 2

\* The click checks recipients and size and starts the countdown.
Send ==
    /\ Editing /\ ~form.busy /\ sending = None /\ Allowed(form)
    /\ sending' = [left |-> Undo, click |-> NextClick, form |-> form]
    /\ UNCHANGED <<form, posts, mailbox, undone>>

UndoSend ==
    /\ form # None /\ sending # None
    /\ sending' = None /\ undone' = undone \cup {sending.click}
    /\ UNCHANGED <<form, posts, mailbox>>

\* doSend at the end of the countdown: recipients, subject, sender and
\* attachments of the click, but the text that stands in the editor now.
Tick ==
    /\ sending # None
    /\ IF sending.left > 1
       THEN sending' = [sending EXCEPT !.left = @ - 1] /\ UNCHANGED <<form, posts>>
       ELSE /\ sending' = None
            /\ posts' = posts \cup
                  {Post("send", [sending.form EXCEPT !.text = form.text], sending.click)}
            /\ form' = [form EXCEPT !.busy = TRUE]
    /\ UNCHANGED <<mailbox, undone>>

\* A countdown goes on, and so does a request under way.
ScheduleSend ==
    /\ form # None /\ Times /\ Allowed(form)
    /\ form' = [form EXCEPT !.menu = "none", !.busy = TRUE]
    /\ posts' = posts \cup {Post("schedule", form, NextClick)}
    /\ UNCHANGED <<sending, mailbox, undone>>

\* onClose: the window is unmounted and its countdown with it; its requests go on.
Close(ps) ==
    /\ form' = None /\ sending' = None
    /\ posts' = {[p EXCEPT !.mine = FALSE] : p \in ps}

\* The cross: an empty window closes, another one is saved first.  A countdown
\* goes on meanwhile.
HasContent(f) == f.to \/ f.subject \/ f.text # <<>>
CloseAsDraft ==
    /\ Editing /\ ~form.busy
    /\ IF HasContent(form)
       THEN /\ posts' = posts \cup {Post("draft", form, 0)}
            /\ form' = [form EXCEPT !.busy = TRUE] /\ sending' = sending
       ELSE Close(posts)
    /\ UNCHANGED <<mailbox, undone>>

\* Discards, whatever is under way.
Cancel == Editing /\ Close(posts) /\ UNCHANGED <<mailbox, undone>>

SaveTemplate ==
    /\ form # None /\ (form.menu = "templates" \/ TemplateEditor)
    /\ form' = [form EXCEPT !.menu = IF @ = "templates" THEN "none" ELSE @]
    /\ posts' = posts \cup {Post("template", form, 0)}
    /\ UNCHANGED <<sending, mailbox, undone>>
DeleteTemplate ==
    /\ form # None /\ TemplateList
    /\ posts' = posts \cup {Post("untemplate", form, 0)}
    /\ UNCHANGED <<form, sending, mailbox, undone>>

-----------------------------------------------------------------------------
(* The server and its answers *)

ServerTakes(p) ==
    /\ ~p.done /\ posts' = (posts \ {p}) \cup {[p EXCEPT !.done = TRUE]}
    /\ mailbox' = CASE p.op \in {"send", "schedule"} -> [mailbox EXCEPT !.sent = @ \cup {p}]
                    [] p.op = "draft" -> [mailbox EXCEPT !.draft = p]
                    [] p.op = "template" ->
                         [mailbox EXCEPT !.templates =
                             {"body"} \cup (IF p.subject THEN {"subject"} ELSE {})]
                    [] p.op = "untemplate" -> [mailbox EXCEPT !.templates = {}]
    /\ UNCHANGED <<form, sending, undone>>

\* The answer closes the window that is open, whichever it is.
PostAnswers(p) ==
    /\ p.done
    /\ IF p.op \in {"template", "untemplate"}
       THEN /\ posts' = posts \ {p} /\ sending' = sending
            /\ form' = IF p.mine /\ TemplateEditor THEN [form EXCEPT !.menu = "none"] ELSE form
       ELSE Close(posts \ {p})
    /\ UNCHANGED <<mailbox, undone>>

\* The window that asked stays open with the message.  The request may have
\* reached the server all the same.
PostFails(p) ==
    /\ posts' = posts \ {p}
    /\ form' = IF p.mine /\ p.op \notin {"template", "untemplate"}
               THEN [form EXCEPT !.busy = FALSE] ELSE form
    /\ UNCHANGED <<sending, mailbox, undone>>

-----------------------------------------------------------------------------
ComposeInit ==
    /\ form = None /\ sending = None /\ posts = {} /\ undone = {}
    /\ mailbox \in Beginning("compose",
          {[sent |-> {}, draft |-> None, templates |-> ts] : ts \in {{}, {"body"}}})

ComposeUser ==
    \/ OpenWindow \/ SetSubject \/ Erase \/ AddFile \/ RemoveFile
    \/ \E k \in Aliases \cup {None} : ChooseFrom(k)
    \/ \E some \in BOOLEAN : SetRecipients(some)
    \/ \E part \in {"typed", "pasted"} : Write(part)
    \/ DragEnter \/ DragLeave \/ DropFile
    \/ \E m \in {"formats", "more"} : OpenMenu(m)
    \/ InsertTemplate \/ SaveTemplate \/ DeleteTemplate
    \/ Send \/ UndoSend \/ ScheduleSend \/ CloseAsDraft \/ Cancel
\* From menu to menu: the move counted is the one that opened the first.
InMenus == \E m \in {"none", "templates", "schedule", "template"} : OpenMenu(m)

ComposeNext ==
    \/ ByUser(ComposeUser)
    \/ ByFault(\E p \in posts : PostFails(p))
    \/ ByItself(\E p \in posts : ServerTakes(p) \/ PostAnswers(p))
    \/ ByItself(InMenus \/ Tick \/ \E list \in {"accounts", "identities", "templates"} : ListsArrive(list))

-----------------------------------------------------------------------------
(* Properties *)

Outgoing == {p \in posts \cup mailbox.sent : p.op \in {"send", "schedule"}}

ComposeTypeOK ==
    /\ form \in Windows \cup {None} /\ undone \subseteq Nat /\ posts \subseteq Posts
    /\ sending # None => sending \in [left : 1..Undo, click : Nat, form : Windows] /\ form # None
    /\ mailbox.sent \subseteq Posts /\ mailbox.draft \in Posts \cup {None}
    /\ mailbox.templates \subseteq {"body", "subject"}

\* What goes out has a recipient and no attachments above the limit, and comes
\* from a click that was not undone, whatever is edited, closed, saved, scheduled
\* or opened while the countdown and the requests run.
OnlyAllowedGoesOut ==
    \A p \in Outgoing : p.to /\ p.files < 2 /\ p.click \notin undone

\* However often a draft is saved and opened again, the mail that goes out has
\* its signature, its quotation and each part of its text once.
NoPartTwice ==
    \A p \in Outgoing : \A i, j \in DOMAIN p.body : p.body[i] = p.body[j] => i = j
=============================================================================
