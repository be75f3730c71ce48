------------------------------ MODULE MailBulk ------------------------------
(* Ticking mails in the list of the web client and acting on them together:    *)
(* deleting, marking, moving, dragging and transferring them (pages/Mail.tsx). *)
(* A request names a folder, UIDs and a generation; the server resolves them   *)
(* (api/mail.py) and refuses a generation the folder no longer has.  A reload  *)
(* is one step here; MailList has its races.                                   *)
EXTENDS Naturals, FiniteSets, ClientBase

CONSTANTS
    Folders, Start,
    Mails, Home,    \* Home[m]: the folder of m; a mail moved away is another mail
    Number,         \* Number[m][g]: its UID in generation g of its folder
    MaxGen

ASSUME BulkAssumption ==
    /\ Start \in Folders /\ IsFiniteSet(Mails)
    /\ Home \in [Mails -> Folders] /\ Number \in [Mails -> [0..MaxGen -> Nat]]
    /\ \A m, n \in Mails, g \in 0..MaxGen :
          Home[m] = Home[n] /\ Number[m][g] = Number[n][g] => m = n
    /\ MaxGen \in Nat /\ None \notin Folders \X (0..MaxGen)

VARIABLES
    folder, rows,   \* the folder selected and the rows of its list
    hits,           \* full-text hits from every folder, shown instead, or None
    open,           \* the row of the mail being read, or None
    sel,            \* the ticks: UIDs, whether the whole folder was asked for, and
                    \* (history) the mails meant and whether rows of the list were ticked
    drag,           \* the UIDs being dragged with the mails meant, or None
    dialog,         \* the deletion or the transfer waiting in its dialog, or None
    calls,          \* requests under way
    held, gen       \* the server: mails where they were, generation of each folder

bulkVars == <<folder, rows, hits, open, sel, drag, dialog, calls, held, gen>>
serverVars == <<held, gen>>

-----------------------------------------------------------------------------
(* Rows and ticks *)

\* Folder and generation name a numbering of mails; two folders never share one.
Row(m) == [mail |-> m, uid |-> Number[m][gen[Home[m]]], gen |-> <<Home[m], gen[Home[m]]>>]
Listing(f) == {Row(m) : m \in {n \in held : Home[n] = f}}
Visible == IF hits # None THEN hits ELSE rows
FolderGeneration(rs) == IF rs = {} THEN None ELSE (CHOOSE r \in rs : TRUE).gen

NoTicks == [uids |-> {}, whole |-> FALSE, meant |-> {}, listed |-> TRUE]
Uids(rs) == {r.uid : r \in rs}
MailsOf(rs) == {r.mail : r \in rs}
Ticks(rs) == [uids |-> Uids(rs), whole |-> FALSE, meant |-> MailsOf(rs), listed |-> hits = None]

\* Mutant: the ticks outlive another generation.
RowsUnderTicks(rs) == rows' = rs /\ sel' = sel

\* The effect that drops the ticks with another folder or generation.
RowsBecome(rs) ==
    /\ rows' = rs
    /\ sel' = IF FolderGeneration(rs) = FolderGeneration(rows) THEN sel ELSE NoTicks
Reloaded == rows' = Listing(folder) /\ sel' = NoTicks

\* identityFor: the first known mail with this UID in the folder selected.
IdentityFor(u) ==
    LET known == {r \in (IF open = None THEN {} ELSE {open}) : r.uid = u /\ r.gen[1] = folder}
        among == {r \in Visible \cup rows : r.uid = u /\ r.gen[1] = folder}
    IN  FolderGeneration(IF known # {} THEN known ELSE among)

Modal == dialog # None
Request(op, f, t, g, how) ==
    [op |-> op, folder |-> f, uids |-> t.uids, gen |-> g, meant |-> t.meant,
     whole |-> t.whole, how |-> how, state |-> "sent", touched |-> {}]
HowTicked(t) == IF t.listed /\ ~t.whole THEN "list" ELSE "other"
RowTicks(r) == [uids |-> {r.uid}, whole |-> FALSE, meant |-> {r.mail}, listed |-> TRUE]

-----------------------------------------------------------------------------
(* Ticking *)

SelectFolder(f) ==
    /\ ~Modal /\ drag = None /\ f # folder
    /\ folder' = f /\ rows' = Listing(f) /\ sel' = NoTicks /\ open' = None
    /\ UNCHANGED <<hits, drag, dialog, calls, serverVars>>

RunFullText ==
    /\ ~Modal /\ drag = None /\ hits = None
    /\ hits' = UNION {Listing(f) : f \in Folders}
    /\ sel' = NoTicks /\ open' = None
    /\ UNCHANGED <<folder, rows, drag, dialog, calls, serverVars>>

\* The ticks stay.
ClearFullText ==
    /\ ~Modal /\ drag = None /\ hits # None /\ hits' = None
    /\ UNCHANGED <<folder, rows, open, sel, drag, dialog, calls, serverVars>>

OpenRow(r) ==
    /\ ~Modal /\ drag = None /\ open # r /\ open' = r
    /\ UNCHANGED <<folder, rows, hits, sel, drag, dialog, calls, serverVars>>

\* A tick goes by the UID: rows of two folders may share it.
ToggleSelect(r) ==
    /\ ~Modal /\ drag = None
    /\ sel' = IF r.uid \in sel.uids
              THEN [sel EXCEPT !.uids = @ \ {r.uid},
                       !.meant = @ \ {m \in Mails : \E v \in Visible : v.mail = m /\ v.uid = r.uid}]
              ELSE [sel EXCEPT !.uids = @ \cup {r.uid}, !.meant = @ \cup {r.mail},
                       !.listed = @ /\ hits = None]
    /\ UNCHANGED <<folder, rows, hits, open, drag, dialog, calls, serverVars>>

AllSelected == Visible # {} /\ Uids(Visible) \subseteq sel.uids

\* The row of a conversation stands for all its mails; so does the menu of the list.
ToggleAll ==
    /\ ~Modal /\ drag = None
    /\ sel' = IF AllSelected THEN NoTicks ELSE Ticks(Visible)
    /\ UNCHANGED <<folder, rows, hits, open, drag, dialog, calls, serverVars>>

\* "All in the folder", over all pages: the server is asked for the UIDs.
SelectWholeFolder ==
    /\ ~Modal /\ drag = None /\ AllSelected /\ ~sel.whole /\ Room(calls)
    /\ calls' = calls \cup {Request("uids", folder, NoTicks, FolderGeneration(rows), "other")}
    /\ UNCHANGED <<folder, rows, hits, open, sel, drag, dialog, serverVars>>

-----------------------------------------------------------------------------
(* Acting on the ticks *)

\* The bar of actions is there with a tick.
BulkBar == ~Modal /\ drag = None /\ sel.uids # {} /\ Room(calls)

\* The rows go at once, the answer is not waited for.
Vanish(t) ==
    /\ RowsBecome({r \in rows : r.uid \notin t.uids})
    /\ open' = IF open # None /\ open.uid \in t.uids THEN None ELSE open

\* The question keeps the ticks, the folder and its generation.
AskDelete ==
    /\ BulkBar
    /\ dialog' = [kind |-> "delete", ticks |-> sel, folder |-> folder,
                   gen |-> FolderGeneration(rows)]
    /\ UNCHANGED <<folder, rows, hits, open, sel, drag, calls, serverVars>>

DelSelected ==
    /\ Modal /\ dialog.kind = "delete" /\ Room(calls)
    /\ calls' = calls \cup {Request("delete", dialog.folder, dialog.ticks, dialog.gen,
                                    HowTicked(dialog.ticks))}
    /\ rows' = {r \in rows : r.uid \notin dialog.ticks.uids} /\ sel' = NoTicks
    /\ open' = IF open # None /\ open.uid \in dialog.ticks.uids THEN None ELSE open
    /\ dialog' = None
    /\ UNCHANGED <<folder, hits, drag, serverVars>>

Dismiss ==
    /\ Modal /\ dialog' = None
    /\ UNCHANGED <<folder, rows, hits, open, sel, drag, calls, serverVars>>

MarkSelectedSeen ==
    /\ BulkBar
    /\ calls' = calls \cup {Request("seen", folder, sel, FolderGeneration(rows), HowTicked(sel))}
    /\ sel' = NoTicks
    /\ UNCHANGED <<folder, rows, hits, open, drag, dialog, serverVars>>

\* moveUids, also with the button for spam, which that folder does not have.
MoveSelected(dest) ==
    /\ BulkBar /\ dest # folder
    /\ calls' = calls \cup {Request("move", folder, sel, FolderGeneration(rows), HowTicked(sel))}
    /\ rows' = {r \in rows : r.uid \notin sel.uids} /\ sel' = NoTicks
    /\ open' = IF open # None /\ open.uid \in sel.uids THEN None ELSE open
    /\ UNCHANGED <<folder, hits, drag, dialog, serverVars>>

\* A row that is ticked takes the other ticks along.
StartDrag(r) ==
    /\ ~Modal /\ drag = None
    /\ drag' = IF r.uid \in sel.uids THEN sel ELSE RowTicks(r)
    /\ UNCHANGED <<folder, rows, hits, open, sel, dialog, calls, serverVars>>

Drop(dest) ==
    /\ drag # None /\ drag' = None /\ Room(calls)
    /\ IF dest = folder
       THEN UNCHANGED <<rows, sel, open, calls>>
       ELSE /\ calls' = calls \cup {Request("move", folder, drag, FolderGeneration(rows), "other")}
            /\ rows' = {r \in rows : r.uid \notin drag.uids} /\ sel' = NoTicks
            /\ open' = IF open # None /\ open.uid \in drag.uids THEN None ELSE open
    /\ UNCHANGED <<folder, hits, dialog, serverVars>>

\* To another account: the ticked mails or the one being read, as of the folder
\* selected; the generation is that of a known mail with the first UID.
OpenTransfer ==
    /\ ~Modal /\ drag = None
    /\ \E t \in {sel} \cup (IF open = None THEN {} ELSE {RowTicks(open)}) : \E u \in t.uids :
          dialog' = [kind |-> "transfer", ticks |-> t, folder |-> folder, gen |-> IdentityFor(u)]
    /\ UNCHANGED <<folder, rows, hits, open, sel, drag, calls, serverVars>>

\* Moved or copied; the dialog stays until the answer, only one is under way.
SubmitTransfer(op) ==
    /\ Modal /\ dialog.kind = "transfer" /\ Room(calls)
    /\ ~\E c \in calls : c.op \in {"transfer", "copy"}
    /\ calls' = calls \cup {Request(op, dialog.folder, dialog.ticks, dialog.gen, "other")}
    /\ UNCHANGED <<folder, rows, hits, open, sel, drag, dialog, serverVars>>

\* The buttons of one row and of the mail being read.  The star and the dot name
\* the folder selected with the generation of the mail itself.
ToggleFlag(r) ==
    /\ ~Modal /\ drag = None /\ Room(calls)
    /\ calls' = calls \cup {Request("flag", folder, RowTicks(r), r.gen, "row")}
    /\ UNCHANGED <<folder, rows, hits, open, sel, drag, dialog, serverVars>>

\* moveMsg names the folder of the mail; nothing changes before the answer.
MoveMsg(dest) ==
    /\ ~Modal /\ drag = None /\ Room(calls) /\ open # None /\ dest # folder
    /\ calls' = calls \cup {Request("moveOne", open.gen[1], RowTicks(open), open.gen, "row")}
    /\ UNCHANGED <<folder, rows, hits, open, sel, drag, dialog, serverVars>>

-----------------------------------------------------------------------------
(* The server and its answers *)

Resolve(c) == {m \in held : Home[m] = c.folder /\ Number[m][gen[c.folder]] \in c.uids}
Accepted(c) == c.gen = None \/ c.gen = <<c.folder, gen[c.folder]>>

ServerDoes(c) ==
    /\ c.state = "sent"
    /\ calls' = (calls \ {c}) \cup
          {IF ~Accepted(c) THEN [c EXCEPT !.state = "refused"]
           ELSE IF c.op = "uids"
           THEN [c EXCEPT !.state = "done", !.uids = Uids(Listing(c.folder)),
                          !.meant = MailsOf(Listing(c.folder))]
           ELSE [c EXCEPT !.state = "done", !.touched = Resolve(c)]}
    /\ held' = IF Accepted(c) /\ c.op \in {"delete", "move", "moveOne", "transfer"}
               THEN held \ Resolve(c) ELSE held
    /\ UNCHANGED <<folder, rows, hits, open, sel, drag, dialog, gen>>

\* UIDVALIDITY changes: every mail of the folder is numbered anew.
Renumber(f) ==
    /\ gen[f] < MaxGen /\ gen' = [gen EXCEPT ![f] = @ + 1]
    /\ UNCHANGED <<folder, rows, hits, open, sel, drag, dialog, calls, held>>

\* A sync brings the list up to date behind the user's back.
Synced ==
    /\ rows # Listing(folder) /\ RowsBecome(Listing(folder))
    /\ UNCHANGED <<folder, hits, open, drag, dialog, calls, serverVars>>

\* After success the list is read again only if the whole folder was ticked,
\* after a failure always, in both cases if the folder is still the selected one.
BulkAnswers(c) ==
    /\ c.state # "sent" /\ calls' = calls \ {c}
    /\ CASE c.op = "uids" ->
              /\ sel' = IF c.state = "done" /\ folder = c.folder
                        THEN [uids |-> c.uids, whole |-> TRUE, meant |-> c.meant, listed |-> FALSE]
                        ELSE sel
              /\ UNCHANGED <<rows, open>>
         [] c.op \in {"delete", "move", "seen"} ->
              /\ IF folder = c.folder /\ (c.state # "done" \/ (c.whole /\ c.op # "seen"))
                 THEN Reloaded ELSE UNCHANGED <<rows, sel>>
              /\ open' = open
         [] c.op = "transfer" ->
              IF c.state = "done" THEN Reloaded /\ open' = None ELSE UNCHANGED <<rows, sel, open>>
         [] c.op = "moveOne" ->
              IF c.state = "done" THEN Vanish(c) ELSE UNCHANGED <<rows, sel, open>>
         [] OTHER -> UNCHANGED <<rows, sel, open>>
    /\ dialog' = IF c.op \in {"transfer", "copy"} /\ c.state = "done" /\ Modal /\ dialog.kind = "transfer"
                 THEN None ELSE dialog
    /\ UNCHANGED <<folder, hits, drag, serverVars>>

\* The request or its answer is lost.
Lost(c) ==
    /\ c.state \in {"sent", "done"}
    /\ calls' = (calls \ {c}) \cup {[c EXCEPT !.state = "failed"]}
    /\ UNCHANGED <<folder, rows, hits, open, sel, drag, dialog, serverVars>>

-----------------------------------------------------------------------------
BulkInit ==
    /\ folder = Start /\ held = Mails /\ gen = [f \in Folders |-> 0]
    /\ rows = Listing(Start) /\ hits = None /\ open = None
    /\ sel = NoTicks /\ drag = None /\ dialog = None /\ calls = {}

BulkUser ==
    \/ \E f \in Folders : SelectFolder(f) \/ MoveSelected(f) \/ Drop(f) \/ MoveMsg(f)
    \/ RunFullText \/ ClearFullText \/ ToggleAll \/ SelectWholeFolder
    \/ \E r \in Visible : OpenRow(r) \/ ToggleSelect(r) \/ StartDrag(r) \/ ToggleFlag(r)
    \/ AskDelete \/ DelSelected \/ Dismiss \/ MarkSelectedSeen
    \/ OpenTransfer \/ \E op \in {"transfer", "copy"} : SubmitTransfer(op)

BulkNext ==
    \/ ByUser(BulkUser)
    \/ ByFault(\E c \in calls : Lost(c))
    \/ ByItself(\E c \in calls : ServerDoes(c) \/ BulkAnswers(c))
    \/ ByItself(Synced \/ \E f \in Folders : Renumber(f))

-----------------------------------------------------------------------------
(* Properties *)

Numberings == Folders \X (0..MaxGen)
Generations == Numberings \cup {None}
MailRows == [mail : Mails, uid : Nat, gen : Numberings]
TickSets == [uids : SUBSET Nat, whole : BOOLEAN, meant : SUBSET Mails, listed : BOOLEAN]
BulkQuestions == [kind : {"delete", "transfer"}, ticks : TickSets, folder : Folders, gen : Generations]
BulkOps == {"uids", "delete", "seen", "move", "transfer", "copy", "flag", "moveOne"}
BulkCalls == [op : BulkOps, folder : Folders, uids : SUBSET Nat, gen : Generations,
              meant : SUBSET Mails, whole : BOOLEAN, how : {"list", "row", "other"},
              state : {"sent", "done", "refused", "failed"}, touched : SUBSET Mails]

BulkTypeOK ==
    /\ folder \in Folders /\ held \subseteq Mails /\ gen \in [Folders -> 0..MaxGen]
    /\ rows \subseteq MailRows /\ (hits # None => hits \subseteq MailRows)
    /\ open # None => open \in MailRows
    /\ sel \in TickSets /\ (drag # None => drag \in TickSets)
    /\ dialog # None => dialog \in BulkQuestions
    /\ calls \subseteq BulkCalls

\* What was ticked in the list of the folder and then deleted, marked or moved
\* together is what the server touches, whatever sync, renumbering and change of
\* folder happen before the request arrives; a row's own buttons touch its mail.
TicksAreTouched ==
    \A c \in calls : c.how \in {"list", "row"} => c.touched \subseteq c.meant

\* The UIDs ticked in the list are those of the mails meant in the generation the
\* list shows: ticks never outlive the folder and the numbering they were made in.
TicksOfShown ==
    sel.listed /\ ~sel.whole /\ sel.uids # {} =>
        /\ rows # {} /\ FolderGeneration(rows)[1] = folder
        /\ sel.uids = {Number[m][FolderGeneration(rows)[2]] : m \in sel.meant}

\* An action on ticked mails touches ticked mails, wherever they were ticked.
OnlyTickedTouched == \A c \in calls : c.touched \subseteq c.meant
=============================================================================
