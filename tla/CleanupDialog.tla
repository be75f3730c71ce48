--------------------------- MODULE CleanupDialog ----------------------------
(* Clearing out a folder by a search in the web client                         *)
(* (components/MailCleanup.tsx): the matches are shown page by page, the page  *)
(* shown is moved after a second click, and the search may become a rule.      *)
(* While a request is under way everything on the dialog is disabled, closing  *)
(* it included; the answers' numbers (seq) then never differ.                  *)
EXTENDS Sequences, ClientBase

CONSTANTS
    CleanMails, Fits,       \* mails of the folder by UID; Fits[v]: those v matches
    CleanStarred,           \* those with a star at first
    PageLength, CleanTargets,    \* mails shown at once; folders to move to
    MaxViews                \* searches remembered

\* Searches, and what may be asked of the server.
CleanSearches == [value: DOMAIN Fits \cup {None}, protect: BOOLEAN]
CleanCalls ==
    [op: {"search"}, search: CleanSearches, from: Nat]
    \cup [op: {"move"}, uids: SUBSET CleanMails, gen: {1, 2}, dest: CleanTargets]
    \cup [op: {"rule"}, search: CleanSearches, dest: CleanTargets \cup {None}]

ASSUME CleanupAssumption ==
    /\ CleanMails \subseteq Nat /\ \A v \in DOMAIN Fits : Fits[v] \subseteq CleanMails
    /\ CleanStarred \subseteq CleanMails /\ {PageLength, MaxViews} \subseteq Nat \ {0}
    /\ None \notin DOMAIN Fits \cup CleanTargets \cup CleanCalls

VARIABLES
    cleanup,    \* the dialog: search, result, offset, target, confirmation, rule, busy
    views,      \* searches remembered in the browser, the latest first
    cleanCall,  \* the request under way or None
    folderNow,  \* the folder: its generation, the mails in it, those with a star
    cleared     \* history: what was confirmed; moves that differ from it; rules made

cleanVars == <<cleanup, views, cleanCall, folderNow, cleared>>

-----------------------------------------------------------------------------
CleanSearch == [value |-> cleanup.value, protect |-> cleanup.protect]
NoDialog == [open |-> FALSE, value |-> None, protect |-> TRUE, result |-> None, offset |-> 0,
             dest |-> None, confirm |-> FALSE, rule |-> FALSE, busy |-> FALSE]
AtRest == cleanup.open /\ ~cleanup.busy
OnlyDialog == UNCHANGED <<views, cleanCall, folderNow, cleared>>

\* From the list menu with nothing, from a mail with what fits it.
OpenCleanup(v) == ~cleanup.open /\ cleanup' = [NoDialog EXCEPT !.open = TRUE, !.value = v] /\ OnlyDialog
CloseCleanup == AtRest /\ cleanup' = NoDialog /\ OnlyDialog

\* Mutant: the first click survives a change of the search.
StillConfirmed(d) == [d EXCEPT !.result = None]
\* invalidate: whatever the search is made of, a change drops what was shown.
Invalid(d) == [d EXCEPT !.result = None, !.confirm = FALSE]
SetSearch(v, protect) ==
    /\ AtRest /\ <<v, protect>> # <<cleanup.value, cleanup.protect>>
    /\ cleanup' = [Invalid(cleanup) EXCEPT !.value = v, !.protect = protect] /\ OnlyDialog
ChooseTarget(f) ==
    /\ AtRest /\ cleanup.result # None /\ f # cleanup.dest
    /\ cleanup' = [cleanup EXCEPT !.dest = f, !.confirm = FALSE] /\ OnlyDialog
RememberRule ==
    /\ AtRest /\ cleanup.result # None /\ cleanup' = [cleanup EXCEPT !.rule = ~@] /\ OnlyDialog

\* Mutant: the searches are not cut to the number remembered.
SaveEveryView ==
    /\ AtRest /\ cleanup.value # None
    /\ views' = <<CleanSearch>> \o Without(views, CleanSearch)
    /\ UNCHANGED <<cleanup, cleanCall, folderNow, cleared>>
SaveView ==
    /\ AtRest /\ cleanup.value # None
    /\ LET all == <<CleanSearch>> \o Without(views, CleanSearch) IN
       views' = SubSeq(all, 1, IF Len(all) < MaxViews THEN Len(all) ELSE MaxViews)
    /\ UNCHANGED <<cleanup, cleanCall, folderNow, cleared>>
ForgetViews ==
    /\ AtRest /\ views # <<>> /\ views' = <<>>
    /\ UNCHANGED <<cleanup, cleanCall, folderNow, cleared>>
UseView(v) == SetSearch(v.value, v.protect)

AskPreview(call, d) == cleanCall' = call /\ cleanup' = [d EXCEPT !.busy = TRUE]
                /\ UNCHANGED <<views, folderNow, cleared>>
Preview(from) ==
    /\ AtRest /\ cleanup.value # None
    /\ AskPreview([op |-> "search", search |-> CleanSearch, from |-> from], [Invalid(cleanup) EXCEPT !.offset = from])
NextPage == cleanup.result # None /\ cleanup.result.more /\ Preview(cleanup.offset + PageLength)
PreviousPage == cleanup.result # None /\ cleanup.offset > 0
                /\ Preview(IF cleanup.offset < PageLength THEN 0 ELSE cleanup.offset - PageLength)

\* The first click; only a complete result can be cleared out.
ConfirmMove ==
    /\ AtRest /\ ~cleanup.confirm /\ cleanup.dest # None /\ cleanup.result # None
    /\ cleanup.result.complete /\ cleanup.result.items # {}
    /\ cleanup' = [cleanup EXCEPT !.confirm = TRUE]
    /\ cleared' = [cleared EXCEPT !.agreed = [items |-> cleanup.result.items, gen |-> cleanup.result.gen,
                                              dest |-> cleanup.dest, search |-> CleanSearch]]
    /\ UNCHANGED <<views, cleanCall, folderNow>>
MoveShown ==
    /\ AtRest /\ cleanup.confirm /\ cleanup.result # None /\ cleanup.result.items # {} /\ cleanup.dest # None
    /\ AskPreview([op |-> "move", uids |-> cleanup.result.items, gen |-> cleanup.result.gen,
            dest |-> cleanup.dest], cleanup)

-----------------------------------------------------------------------------
(* The server *)

\* Another client stars a mail; the server renumbers the folder.
OtherStars(m) ==
    /\ cleanCall # None /\ m \in folderNow.mails \ folderNow.starred
    /\ folderNow' = [folderNow EXCEPT !.starred = @ \cup {m}]
    /\ UNCHANGED <<cleanup, views, cleanCall, cleared>>
Renumbered ==
    /\ cleanup.result # None /\ folderNow.gen = 1 /\ folderNow' = [folderNow EXCEPT !.gen = 2]
    /\ UNCHANGED <<cleanup, views, cleanCall, cleared>>

Matches(s) == {m \in folderNow.mails \cap Fits[s.value] : s.protect => m \notin folderNow.starred}
BeforePage(m, ms) == Cardinality({n \in ms : n > m})
CleanFound(complete) ==
    /\ cleanCall # None /\ cleanCall.op = "search"
    /\ LET all == Matches(cleanCall.search)
           items == {m \in all : BeforePage(m, all) \in cleanCall.from .. cleanCall.from + PageLength - 1} IN
       cleanup' = [cleanup EXCEPT !.busy = FALSE,
           !.result = [items |-> items, gen |-> folderNow.gen, complete |-> complete,
                       more |-> Cardinality(all) > cleanCall.from + PageLength]]
    /\ cleanCall' = None /\ UNCHANGED <<views, folderNow, cleared>>

\* batch-move: refused when the folder was renumbered since.
AsAgreed(call, ms) ==
    /\ ms \subseteq cleared.agreed.items /\ folderNow.gen = cleared.agreed.gen
    /\ call.dest = cleared.agreed.dest /\ ms \subseteq Fits[cleared.agreed.search.value]
CleanMoved ==
    /\ cleanCall # None /\ cleanCall.op = "move" /\ cleanCall.gen = folderNow.gen
    /\ LET ms == cleanCall.uids \cap folderNow.mails IN
       /\ folderNow' = [folderNow EXCEPT !.mails = @ \ ms, !.starred = @ \ ms]
       /\ cleared' = [cleared EXCEPT !.wrong = @ \/ ~AsAgreed(cleanCall, ms)]
    /\ cleanCall' = IF cleanup.rule THEN [op |-> "rule", search |-> CleanSearch, dest |-> cleanup.dest] ELSE None
    /\ cleanup' = [Invalid(cleanup) EXCEPT !.offset = 0, !.busy = cleanup.rule]
    /\ UNCHANGED views

\* The rule comes after the mails; its failure leaves them moved.
CleanRuleMade(ok) ==
    /\ cleanCall # None /\ cleanCall.op = "rule" /\ cleanCall' = None
    /\ cleanup' = [cleanup EXCEPT !.busy = FALSE]
    /\ cleared' = IF ok THEN [cleared EXCEPT !.rules = @ \cup {<<cleanCall.search.value, cleanCall.dest>>}]
                  ELSE cleared
    /\ UNCHANGED <<views, folderNow>>
\* done: the mails were moved, only the answer got lost.
CleanFails(done) ==
    /\ cleanCall # None /\ cleanCall.op # "rule" /\ cleanCall' = None
    /\ done => cleanCall.op = "move" /\ cleanCall.gen = folderNow.gen
    /\ cleanup' = [Invalid(cleanup) EXCEPT !.busy = FALSE]
    /\ folderNow' = IF done THEN [folderNow EXCEPT !.mails = @ \ cleanCall.uids, !.starred = @ \ cleanCall.uids]
                    ELSE folderNow
    /\ cleared' = [cleared EXCEPT !.wrong = @ \/ (done /\ ~AsAgreed(cleanCall, cleanCall.uids))]
    /\ UNCHANGED views
CleanRefused ==
    /\ cleanCall # None /\ cleanCall.op = "move" /\ cleanCall.gen # folderNow.gen /\ cleanCall' = None
    /\ cleanup' = [Invalid(cleanup) EXCEPT !.busy = FALSE] /\ UNCHANGED <<views, folderNow, cleared>>

-----------------------------------------------------------------------------
CleanInit ==
    /\ cleanup = NoDialog /\ views = <<>> /\ cleanCall = None
    /\ folderNow = [gen |-> 1, mails |-> CleanMails, starred |-> CleanStarred]
    /\ cleared = [agreed |-> None, wrong |-> FALSE, rules |-> {}]

CleanUser ==
    \/ \E v \in DOMAIN Fits : OpenCleanup(v) \/ \E protect \in BOOLEAN : SetSearch(v, protect)
    \/ OpenCleanup(None) \/ CloseCleanup \/ \E f \in CleanTargets : ChooseTarget(f)
    \/ RememberRule \/ SaveView \/ ForgetViews \/ \E i \in DOMAIN views : UseView(views[i])
    \/ Preview(0) \/ NextPage \/ PreviousPage \/ ConfirmMove \/ MoveShown

CleanNext ==
    \/ ByUser(CleanUser)
    \/ ByFault(CleanRuleMade(FALSE) \/ \E done \in BOOLEAN : CleanFails(done))
    \/ ByItself(\/ Renumbered \/ CleanMoved \/ CleanRefused \/ CleanRuleMade(TRUE)
                \/ \E m \in CleanMails : OtherStars(m)
                \/ \E complete \in BOOLEAN : CleanFound(complete))

-----------------------------------------------------------------------------
(* Properties *)

CleanResults == [items: SUBSET CleanMails, gen: {1, 2}, complete: BOOLEAN, more: BOOLEAN]
Agreements == [items: SUBSET CleanMails, gen: {1, 2}, dest: CleanTargets, search: CleanSearches]
CleanTypeOK ==
    /\ cleanup \in [open: BOOLEAN, value: DOMAIN Fits \cup {None}, protect: BOOLEAN,
                    result: CleanResults \cup {None}, offset: Nat, dest: CleanTargets \cup {None},
                    confirm: BOOLEAN, rule: BOOLEAN, busy: BOOLEAN]
    /\ views \in Seq(CleanSearches) /\ Len(views) <= MaxViews
    /\ cleanCall \in CleanCalls \cup {None}
    /\ folderNow \in [gen: {1, 2}, mails: SUBSET CleanMails, starred: SUBSET CleanMails]
    /\ folderNow.starred \subseteq folderNow.mails
    /\ cleared \in [agreed: Agreements \cup {None}, wrong: BOOLEAN,
                    rules: SUBSET ((DOMAIN Fits \cup {None}) \X (CleanTargets \cup {None}))]

\* However search, page and target were changed around the first click: what is
\* moved are mails of that click, by the folder's numbering of that time, to the
\* folder shown then, and what is confirmed on the screen is still what is shown.
MovesAsConfirmed ==
    /\ ~cleared.wrong
    /\ cleanup.confirm => /\ cleanup.result # None /\ cleanup.result.items = cleared.agreed.items
                          /\ CleanSearch = cleared.agreed.search /\ cleanup.dest = cleared.agreed.dest
    /\ cleanCall # None => cleanup.open /\ cleanup.busy
    /\ cleanup.busy => cleanCall # None
=============================================================================
