---------------------------- MODULE MailSidebar -----------------------------
(* Accounts and folders beside the list of mails (pages/Mail.tsx): counts from *)
(* the cache first and live afterwards, the tree of FolderTree, folders        *)
(* created, renamed, moved, deleted and hidden, the order of the accounts, the *)
(* quota, and the inbox of all accounts with its jump to the mail clicked.     *)
EXTENDS FolderTree, ClientBase

CONSTANTS
    Accounts, FirstAccount,
    Lists,          \* the lists of folders the first account may have
    FirstHidden     \* its folders that may be hidden from an earlier visit

ASSUME SidebarAssumption ==
    FirstAccount \in Accounts /\ IsFiniteSet(Accounts) /\ None \notin Accounts
\* A folder has a name.
ASSUME ListsAssumption ==
    Lists # {} /\ \A fs \in Lists : \A p \in DOMAIN fs : p \in Seq(STRING) /\ p # <<>>

VARIABLES
    boxes,          \* accounts loaded, their order, folders by account, newest count
    place,          \* the account and folder selected, or nowhere
    marks,          \* collapsed accounts, expanded and hidden folders, accounts revealing
    popup,          \* the menu of a folder, the prompt, the question, or None
    unified,        \* the inbox of all accounts: shown, loading, rows, mail wanted
    quota,          \* the account whose quota is shown, or None
    sideCalls,      \* requests under way
    boxServer       \* folders live and as last counted, order of the accounts

sideVars == <<boxes, place, marks, popup, unified, quota, sideCalls, boxServer>>

-----------------------------------------------------------------------------
(* Requests *)

\* What the server gave is a set of at most one: a list, or none.
SideCall(op, a) == [op |-> op, acc |-> a, arg |-> None, seq |-> 0, mine |-> TRUE,
                    done |-> FALSE, got |-> {}, order |-> <<>>]
Inbox == <<"INBOX">>
Nowhere == [acc |-> None, path |-> <<>>]
OnlyInbox == [p \in {Inbox} |-> [raw |-> "none", total |-> 0, unseen |-> 0]]

\* refreshCounts: only the answer to the newest request counts.  Requests for the
\* same address share one while it is under way.
CountCalls(a, live, cs) ==
    LET op == IF live THEN "recount" ELSE "count"
        next == boxes.seq[a] + 1
    IN  {c \in cs : c.op # op \/ c.acc # a} \cup
        {IF \E c \in cs : c.op = op /\ c.acc = a
         THEN [(CHOOSE c \in cs : c.op = op /\ c.acc = a) EXCEPT !.seq = next]
         ELSE [SideCall(op, a) EXCEPT !.seq = next]}
Counting(a) == boxes' = [boxes EXCEPT !.seq[a] = @ + 1]

\* Another account: its quota and its counts are asked for, an answer about the
\* quota of the former one is dropped.
SelectBox(s, cs) ==
    /\ place' = s
    /\ IF s.acc = place.acc
       THEN UNCHANGED <<quota, boxes>> /\ sideCalls' = cs
       ELSE /\ quota' = None /\ Counting(s.acc)
            /\ LET rest == {IF c.op = "quota" THEN [c EXCEPT !.mine = FALSE] ELSE c : c \in cs}
               IN  sideCalls' = CountCalls(s.acc, FALSE, rest) \cup {SideCall("quota", s.acc)}

\* From the cache first; live, which takes long, for the account in use.
LoadFolders(a, live) == [SideCall("cached", a) EXCEPT !.arg = live]

-----------------------------------------------------------------------------
(* The user *)

Clear == popup = None /\ Room(sideCalls)
Marking(m) == marks' = m /\ UNCHANGED <<boxes, place, popup, unified, quota, sideCalls, boxServer>>
Toggled(x, S) == IF x \in S THEN S \ {x} ELSE S \cup {x}

Tree(a) == BuildFolderTree(boxes.folders[a])
IsHidden(a, p) == <<a, p>> \in marks.hidden
\* What renderNode draws: nothing below a folder that is hidden or not expanded.
RenderNode(a) ==
    {p \in Tree(a).shown : /\ a \notin marks.collapsed /\ ~IsHidden(a, p)
        /\ \A q \in Tree(a).shown : q # p /\ p \in Tree(a).below[q] =>
              ~IsHidden(a, q) /\ <<a, q>> \in marks.expanded}

ToggleAccount(a) == Clear /\ a \in boxes.list /\ Marking([marks EXCEPT !.collapsed = Toggled(a, @)])
ToggleExpand(a, p) ==
    /\ Clear /\ p \in RenderNode(a) /\ Tree(a).below[p] # {p}
    /\ Marking([marks EXCEPT !.expanded = Toggled(<<a, p>>, @)])
ToggleReveal(a) ==
    /\ Clear /\ \E p \in DOMAIN boxes.folders[a] : IsHidden(a, p)
    /\ Marking([marks EXCEPT !.revealed = Toggled(a, @)])
UnhideFolder(a, p) == Clear /\ a \in marks.revealed /\ IsHidden(a, p)
                      /\ Marking([marks EXCEPT !.hidden = @ \ {<<a, p>>}])

ClickBox(a, p) ==
    /\ Clear /\ p \in RenderNode(a)
    /\ SelectBox([acc |-> a, path |-> p], sideCalls)
    /\ UNCHANGED <<marks, popup, unified, boxServer>>

\* Dragging puts one account before or behind another; the server is told, the
\* answer not waited for.
ReorderAccounts ==
    /\ Clear /\ boxes.list # {}
    /\ \E o \in [1..Cardinality(boxes.list) -> boxes.list] :
          /\ o # boxes.order /\ \A i, j \in DOMAIN o : o[i] = o[j] => i = j
          /\ boxes' = [boxes EXCEPT !.order = o]
          /\ boxServer' = [boxServer EXCEPT !.order = o]
    /\ UNCHANGED <<place, marks, popup, unified, quota, sideCalls>>

\* ↻: the rules first, then the counts.
RefreshAccount(a) ==
    /\ Clear /\ a \in boxes.list /\ ~\E c \in sideCalls : c.op = "apply"
    /\ sideCalls' = sideCalls \cup {SideCall("apply", a)}
    /\ UNCHANGED <<boxes, place, marks, popup, unified, quota, boxServer>>

-----------------------------------------------------------------------------
(* Folders *)

Popup(p) == popup' = p /\ UNCHANGED <<boxes, place, marks, unified, quota, sideCalls, boxServer>>
OpenFolderMenu(a, p) ==
    Clear /\ p \in RenderNode(a) /\ Popup([kind |-> "menu", op |-> None, acc |-> a, path |-> p])
CloseFolderMenu == popup # None /\ Popup(None)

\* Ordinary folders are moved, renamed and deleted, after a dialog; the inbox is
\* not hidden.  The button for a new folder is at the account.
Ordinary == Tree(popup.acc).kind[popup.path] = "none"
FolderDialog(op) ==
    /\ popup # None /\ popup.kind = "menu" /\ popup.path \in Tree(popup.acc).shown
    /\ op = "sub" \/ Ordinary
    /\ Popup([popup EXCEPT !.kind = "dialog", !.op = op])
NewFolder(a) ==
    Clear /\ a \in boxes.list /\ Popup([kind |-> "dialog", op |-> "new", acc |-> a, path |-> <<>>])
HideFolder ==
    /\ popup # None /\ popup.kind = "menu" /\ popup.path \in Tree(popup.acc).shown
    /\ Tree(popup.acc).kind[popup.path] # "inbox"
    /\ marks' = [marks EXCEPT !.hidden = @ \cup {<<popup.acc, popup.path>>}]
    /\ place' = IF place = [acc |-> popup.acc, path |-> popup.path]
               THEN [acc |-> popup.acc, path |-> Inbox] ELSE place
    /\ popup' = None /\ UNCHANGED <<boxes, unified, quota, sideCalls, boxServer>>

\* A folder does not move into itself or below itself.
Targets(a, p) == {<<>>} \cup {q \in DOMAIN boxes.folders[a] : q # p /\ ~Under(p, q)}
Confirm ==
    /\ popup # None /\ popup.kind = "dialog" /\ popup' = None
    /\ \E target \in (IF popup.op = "move" THEN Targets(popup.acc, popup.path) ELSE {<<>>}) :
         sideCalls' = sideCalls \cup
             {[SideCall(popup.op, popup.acc) EXCEPT !.arg = <<popup.path, target>>]}
    /\ UNCHANGED <<boxes, place, marks, unified, quota, boxServer>>

-----------------------------------------------------------------------------
(* The inbox of all accounts *)

Unify(u, cs) == unified' = u /\ sideCalls' = cs
                /\ UNCHANGED <<boxes, place, marks, popup, quota, boxServer>>
LoadUnified(u) ==
    Unify([u EXCEPT !.loading = TRUE], sideCalls \cup {SideCall("unified", FirstAccount)})
ToggleUnified ==
    /\ Clear /\ Cardinality(boxes.list) > 1
    /\ IF unified.on THEN Unify([unified EXCEPT !.on = FALSE], sideCalls)
       ELSE LoadUnified([unified EXCEPT !.on = TRUE])
ReloadUnified == Clear /\ unified.on /\ ~unified.loading /\ LoadUnified(unified)

\* A click goes to the account; the mail is opened once it is selected.
OpenUnifiedRow(a) ==
    /\ Clear /\ unified.on /\ a \in unified.rows
    /\ unified' = [unified EXCEPT !.on = FALSE, !.wanted = a]
    /\ SelectBox([acc |-> a, path |-> Inbox], sideCalls)
    /\ UNCHANGED <<marks, popup, boxServer>>
\* The effect forgets the mail wanted and sets a timer; the rendering that follows
\* cancels it unless it fires before.
OpenWanted ==
    /\ unified.wanted # None /\ place.acc = unified.wanted
    /\ \E fires \in BOOLEAN :
         Unify([unified EXCEPT !.wanted = None, !.opened = IF fires THEN place.acc ELSE @], sideCalls)

-----------------------------------------------------------------------------
(* The server and its answers *)

Moved(fs, p, q) ==
    LET To(r) == IF r = p \/ Under(p, r) THEN q \o SubSeq(r, Len(p) + 1, Len(r)) ELSE r
        From(r) == CHOOSE s \in DOMAIN fs : To(s) = r
    IN  [r \in {To(s) : s \in DOMAIN fs} |-> fs[From(r)]]
Made(fs, p) == [r \in DOMAIN fs \cup {p} |->
                  IF r \in DOMAIN fs THEN fs[r] ELSE [raw |-> "none", total |-> 0, unseen |-> 0]]
FolderOps == {"new", "sub", "rename", "move", "delete"}
Changed(c) ==
    LET fs == boxServer.live[c.acc]
        p == c.arg[1]
        moved == IF c.op = "rename" THEN Append(Up(p), "renamed") ELSE c.arg[2] \o <<p[Len(p)]>>
    IN  CASE c.op \in {"new", "sub"} -> Made(fs, Append(p, "made"))
          [] c.op = "delete" -> [q \in DOMAIN fs \ {p} |-> fs[q]]
          [] c.op \in {"rename", "move"} /\ moved \notin DOMAIN fs -> Moved(fs, p, moved)
          [] OTHER -> fs
Possible(c) == c.op \in {"new", "sub"} \/ c.arg[1] \in DOMAIN boxServer.live[c.acc]

BoxServerDoes(c) ==
    /\ ~c.done
    /\ \/ /\ c.op \in FolderOps /\ Possible(c)
          /\ boxServer' = [boxServer EXCEPT !.live[c.acc] = Changed(c)]
       \/ /\ c.op \in {"live", "recount"}
          /\ boxServer' = [boxServer EXCEPT !.counted[c.acc] = {boxServer.live[c.acc]}]
       \/ c.op \in {"cached", "count", "order"} /\ boxServer' = boxServer
    /\ sideCalls' = (sideCalls \ {c}) \cup
         {[c EXCEPT !.done = TRUE, !.order = IF c.op = "order" THEN boxServer.order ELSE <<>>,
                    !.got = IF c.op \in FolderOps \cup {"order"} THEN {} ELSE boxServer'.counted[c.acc]]}
    /\ UNCHANGED <<boxes, place, marks, popup, unified, quota>>

\* The inboxes are expanded with every new list.
SetFolders(a, fs) ==
    /\ boxes' = [boxes EXCEPT !.folders[a] = fs]
    /\ LET tree == BuildFolderTree(fs)
           inboxes == {p \in tree.roots : tree.kind[p] = "inbox"}
       IN  marks' = [marks EXCEPT !.expanded = @ \cup ({a} \X inboxes)]

AccountsAnswer(c) ==
    /\ c.op = "accounts" /\ boxes.list = {}
    /\ place' = IF place.acc = None THEN [acc |-> FirstAccount, path |-> Inbox] ELSE place
    /\ boxes' = [boxes EXCEPT !.list = Accounts, !.seq[FirstAccount] = @ + 1]
    /\ sideCalls' = CountCalls(FirstAccount, FALSE, sideCalls \ {c}) \cup {SideCall("quota", FirstAccount)}
                    \cup {LoadFolders(a, a = FirstAccount) : a \in Accounts}
    /\ UNCHANGED <<marks, popup, unified, quota, boxServer>>
OrderAnswer(c) ==
    /\ c.op = "order" /\ c.done
    /\ boxes' = [boxes EXCEPT !.order = IF c.order = <<>> THEN @ ELSE c.order]
    /\ sideCalls' = sideCalls \ {c}
    /\ UNCHANGED <<place, marks, popup, unified, quota, boxServer>>

\* Without a cache the inbox alone, and after the standard folders were created
\* the live list, for the account in use.
CachedAnswer(c) ==
    /\ c.op = "cached" /\ c.done
    /\ sideCalls' = (sideCalls \ {c}) \cup (IF c.arg THEN {SideCall("live", c.acc)} ELSE {})
    /\ \E fs \in (IF c.got # {} THEN c.got
               ELSE IF DOMAIN boxes.folders[c.acc] # {} THEN {boxes.folders[c.acc]} ELSE {OnlyInbox}) :
          SetFolders(c.acc, fs)
    /\ UNCHANGED <<place, popup, unified, quota, boxServer>>
\* Whichever live answer comes last stays.
CountsAnswer(c) ==
    /\ c.op \in {"live", "count", "recount"} /\ c.done
    /\ sideCalls' = sideCalls \ {c}
    /\ IF c.got # {} /\ (c.op = "live" \/ c.seq = boxes.seq[c.acc])
       THEN \E fs \in c.got : SetFolders(c.acc, fs) ELSE UNCHANGED <<boxes, marks>>
    /\ UNCHANGED <<place, popup, unified, quota, boxServer>>

QuotaAnswer(c) ==
    /\ c.op = "quota" /\ quota' = IF c.mine THEN c.acc ELSE quota
    /\ sideCalls' = sideCalls \ {c}
    /\ UNCHANGED <<boxes, place, marks, popup, unified, boxServer>>
UnifiedAnswer(c) ==
    /\ c.op = "unified"
    /\ Unify([unified EXCEPT !.loading = FALSE, !.rows = Accounts], sideCalls \ {c})
AppliedAnswer(c) ==
    /\ c.op = "apply" /\ Counting(c.acc) /\ sideCalls' = CountCalls(c.acc, TRUE, sideCalls \ {c})
    /\ UNCHANGED <<place, marks, popup, unified, quota, boxServer>>

\* The folder deleted gives way to the inbox; the new one's parent is expanded.
FolderAnswer(c) ==
    /\ c.op \in FolderOps /\ c.done
    /\ place' = IF c.op = "delete" /\ place = [acc |-> c.acc, path |-> c.arg[1]]
               THEN [acc |-> c.acc, path |-> Inbox] ELSE place
    /\ marks' = IF c.op = "sub" THEN [marks EXCEPT !.expanded = @ \cup {<<c.acc, c.arg[1]>>}] ELSE marks
    /\ sideCalls' = (sideCalls \ {c}) \cup {LoadFolders(c.acc, TRUE)}
    /\ UNCHANGED <<boxes, popup, unified, quota, boxServer>>

\* What is on the screen stays; the rules that fail are passed over.
SideFails(c) ==
    /\ c.op # "cached"
    /\ IF c.op = "apply"
       THEN Counting(c.acc) /\ sideCalls' = CountCalls(c.acc, TRUE, sideCalls \ {c})
       ELSE boxes' = boxes /\ sideCalls' = sideCalls \ {c}
    /\ unified' = IF c.op = "unified" THEN [unified EXCEPT !.loading = FALSE] ELSE unified
    /\ UNCHANGED <<place, marks, popup, quota, boxServer>>

-----------------------------------------------------------------------------
SideInit ==
    /\ boxes = [list |-> {}, order |-> <<>>, seq |-> [a \in Accounts |-> 0],
                folders |-> [a \in Accounts |-> [p \in {} |-> None]]]
    /\ place = Nowhere /\ popup = None /\ quota = None
    /\ unified = [on |-> FALSE, loading |-> FALSE, rows |-> {}, wanted |-> None, opened |-> None]
    /\ sideCalls = {SideCall("accounts", FirstAccount), SideCall("order", FirstAccount)}
    /\ \E fs \in Beginning("sidebar", Lists) :
       /\ \E hidden \in {{}} \cup {{<<FirstAccount, p>>} : p \in FirstHidden \cap DOMAIN fs} :
            marks = [collapsed |-> {}, expanded |-> {}, hidden |-> hidden, revealed |-> {}]
       /\ boxServer = [live |-> [a \in Accounts |-> IF a = FirstAccount THEN fs ELSE OnlyInbox],
                      counted |-> [a \in Accounts |-> IF a = FirstAccount THEN {fs} ELSE {}],
                      order |-> <<>>]

SideUser ==
    \/ \E a \in Accounts : ToggleAccount(a) \/ ToggleReveal(a) \/ RefreshAccount(a)
                           \/ NewFolder(a) \/ OpenUnifiedRow(a)
    \/ \E a \in Accounts : \E p \in DOMAIN boxes.folders[a] :
          ClickBox(a, p) \/ ToggleExpand(a, p) \/ UnhideFolder(a, p) \/ OpenFolderMenu(a, p)
    \/ ReorderAccounts \/ ToggleUnified \/ ReloadUnified
\* In a menu or a dialog: the move counted is the one that opened it.
SideInPopup ==
    \/ CloseFolderMenu \/ HideFolder \/ Confirm
    \/ \E op \in {"sub", "rename", "move", "delete"} : FolderDialog(op)

SideNext ==
    \/ ByUser(SideUser)
    \/ ByFault(\E c \in sideCalls : SideFails(c))
    \/ ByItself(SideInPopup \/ OpenWanted \/ \E c \in sideCalls :
          \/ BoxServerDoes(c) \/ AccountsAnswer(c) \/ OrderAnswer(c) \/ CachedAnswer(c)
          \/ CountsAnswer(c) \/ QuotaAnswer(c) \/ UnifiedAnswer(c) \/ AppliedAnswer(c)
          \/ FolderAnswer(c))

-----------------------------------------------------------------------------
(* Properties *)

SideOps == {"accounts", "order", "cached", "live", "count", "recount", "apply", "quota",
            "unified"} \cup FolderOps
SideCallOK(c) ==
    /\ c = [op |-> c.op, acc |-> c.acc, arg |-> c.arg, seq |-> c.seq, mine |-> c.mine,
            done |-> c.done, got |-> c.got, order |-> c.order]
    /\ c.op \in SideOps /\ c.acc \in Accounts /\ c.seq \in Nat
    /\ c.mine \in BOOLEAN /\ c.done \in BOOLEAN /\ c.order \in Seq(Accounts)

SideTypeOK ==
    /\ boxes = [list |-> boxes.list, order |-> boxes.order, seq |-> boxes.seq,
                folders |-> [a \in Accounts |-> boxes.folders[a]]]
    /\ boxes.list \in {{}, Accounts} /\ boxes.order \in Seq(Accounts)
    /\ boxes.seq \in [Accounts -> Nat]
    /\ place = [acc |-> place.acc, path |-> place.path]
    /\ place.acc \in boxes.list \cup {None}
    /\ popup # None =>
          /\ popup = [kind |-> popup.kind, op |-> popup.op, acc |-> popup.acc, path |-> popup.path]
          /\ popup.acc \in Accounts /\ (popup.kind = "dialog" => popup.op \in FolderOps)
    /\ unified \in [on : BOOLEAN, loading : BOOLEAN, rows : {{}, Accounts},
                    wanted : Accounts \cup {None}, opened : Accounts \cup {None}]
    /\ quota \in Accounts \cup {None}
    /\ \A c \in sideCalls : SideCallOK(c)
    /\ boxServer = [live |-> boxServer.live, counted |-> boxServer.counted,
                    order |-> boxServer.order]
    /\ boxServer.order \in Seq(Accounts)

\* The quota shown is that of the account selected, however quickly accounts are
\* changed; no account's tree hides mails whatever is made of its folders.
QuotaOfAccount == quota # None => quota = place.acc
TreesKeepMail == \A a \in Accounts : TreeKeepsMail(boxes.folders[a])
=============================================================================
