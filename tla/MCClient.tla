------------------------------ MODULE MCClient ------------------------------
(* Small instances of every page.  In the list, two mails of the inbox swap    *)
(* their UIDs with the next generation and one of another folder has the UID   *)
(* of the first; two mails with one UID are read.                              *)
EXTENDS Client

CONSTANTS inbox, archive

MovesOn == [bulk |-> 3, sidebar |-> 2, panel |-> 3, cleanup |-> 6, compose |-> 4, notes |-> 5,
            calendar |-> 3, contacts |-> 3, sync |-> 3, rules |-> 3, signin |-> 5]
MovesOnPages == [p \in Pages |-> MovesOn[p]]

TwoFolders == {inbox, archive}
ThreeMails == {1, 2, 3}
HomeOf == [m \in ThreeMails |-> IF m = 3 THEN archive ELSE inbox]
NumberOf == [m \in ThreeMails |-> [g \in 0..MaxGen |->
                IF m = 3 THEN 1 ELSE IF g = 0 THEN m ELSE 3 - m]]

FoldersOf(S) == [p \in {f[1] : f \in S} |->
    LET f == CHOOSE g \in S : g[1] = p IN [raw |-> f[2], total |-> f[3], unseen |-> f[3]]]
TwoLists == {
    FoldersOf({<<<<"INBOX">>, "inbox", 1>>, <<<<"Entwurf">>, "none", 1>>, <<<<"Drafts">>, "none", 0>>}),
    FoldersOf({<<<<"INBOX">>, "inbox", 1>>, <<<<"box">>, "noselect", 0>>,
               <<<<"box", "Sent">>, "sent", 1>>, <<<<"Sent">>, "none", 0>>})}

SentInBox == {<<"box", "Sent">>}

PanelPair == {1, 2}
OneUid == [m \in PanelPair |-> 1]

CleanFits == [v \in {"x", "y"} |-> IF v = "x" THEN {1, 2} ELSE {2, 3}]
CardFinds == [q \in {"", "x"} |-> IF q = "x" THEN {"x"} ELSE {"x", "y"}]

Event(s, e, allDay, cal) == [id |-> 1, start |-> s, end |-> e, allDay |-> allDay, cal |-> cal]
FourEvents == {Event(3, 6, FALSE, "local"), Event(3, 7, FALSE, "work"),
               Event(4, 8, TRUE, "work"), Event(8, 9, FALSE, "foreign")}
=============================================================================
