----------------------------- MODULE FolderTree -----------------------------
(* The tree of folders of one account as the web client shows it               *)
(* (lib/folders.ts), from the flat list with counts that the server gives.     *)
(* The list is a function from paths, which are sequences of names, to what    *)
(* the backend says the folder is for and its mails.                           *)
EXTENDS Naturals, Sequences, FiniteSets

CONSTANT Separator      \* between the names of a path, "/" or "."

Kinds == {"inbox", "drafts", "sent", "spam", "trash", "archive"}
BackendKinds == Kinds \cup {"all"}
ResidualKinds == {"all", "flagged", "important"}

\* The standard name of each kind and others that are recognised.
Words == [inbox |-> {"INBOX"}, drafts |-> {"Drafts", "Entwurf"}, sent |-> {"Sent"},
          spam |-> {"Spam", "Werbung"}, trash |-> {"Trash", "Deleted"},
          archive |-> {"Archive", "Archiviert"}]
CanonicalNames == {"INBOX", "Drafts", "Sent", "Spam", "Trash", "Archive"}
SpecialKind(label) ==
    IF \E k \in Kinds : label \in Words[k] THEN CHOOSE k \in Kinds : label \in Words[k] ELSE "none"

Up(p) == SubSeq(p, 1, Len(p) - 1)
Under(p, q) == Len(p) < Len(q) /\ SubSeq(q, 1, Len(p)) = p
HasMail(f) == f.total > 0

\* detectDelimiter: dots only separate when a folder is the parent of another,
\* or below the inbox.
Nested(fs) ==
    \E p \in DOMAIN fs : Len(p) > 1 /\
        (Separator = "/" \/ <<p[1]>> \in DOMAIN fs \/ p[1] = "INBOX")

\* Of the folders of one kind the best: one with mails, then by the standard name.
Best(fs, same, canonical) ==
    LET full == {p \in same : HasMail(fs[p])}
        pool == IF full # {} THEN full ELSE same
        standard == pool \cap canonical
    IN  CHOOSE p \in pool : standard # {} => p \in standard

\* Containers dissolve, their children and orphans stand at the top, and so do
\* special folders right below the inbox.  The provider's views and outboxes go
\* with what is below them; so do empty duplicates of a kind, while full ones stay
\* as ordinary folders.
BuildFolderTree(fs) ==
    LET nested == Nested(fs)
        Label(p) == IF nested \/ Len(p) = 1 THEN p[Len(p)] ELSE "dotted"
        Child(p) == nested /\ Len(p) > 1 /\ Up(p) \in DOMAIN fs
        Container(p) == fs[p].raw = "noselect"
        special == [p \in DOMAIN fs |->
                      IF Container(p) THEN "none"
                      ELSE IF fs[p].raw \in BackendKinds THEN fs[p].raw
                      ELSE SpecialKind(Label(p))]
        tops == {p \in DOMAIN fs : ~Container(p) /\ (Child(p) => Container(Up(p)))}
        promoted == {p \in DOMAIN fs : Child(p) /\ Up(p) \in tops
                        /\ special[Up(p)] = "inbox" /\ special[p] \notin {"none", "inbox"}}
        candidates == {p \in tops \cup promoted :
                          fs[p].raw \notin ResidualKinds /\ Label(p) # "Outbox"}
        canonical == {p \in candidates : Label(p) \in CanonicalNames}
        OfKind(k) == {p \in candidates : special[p] = k}
        duplicates == {p \in candidates : special[p] # "none"
                          /\ p # Best(fs, OfKind(special[p]), canonical)}
        roots == {p \in candidates : p \in duplicates => HasMail(fs[p])}
        above == [p \in DOMAIN fs |->
                    {q \in tops \cup promoted : q = p \/ (nested /\ Under(q, p))}]
        root == [p \in DOMAIN fs |-> CHOOSE q \in above[p] \cup {p} :
                    above[p] # {} => q \in above[p] /\ \A r \in above[p] : Len(r) <= Len(q)]
        dissolved == {p \in DOMAIN fs : Container(p) /\ (Child(p) => Container(Up(p)))}
        shown == {p \in DOMAIN fs \ dissolved : root[p] \in roots}
    IN  [roots |-> roots, shown |-> shown,
         kind |-> [p \in shown |-> IF p \in duplicates THEN "none" ELSE special[p]],
         below |-> [p \in shown |-> {q \in shown : q = p \/
                       (nested /\ Under(p, q) /\ Len(root[q]) <= Len(p))}],
         special |-> special]

-----------------------------------------------------------------------------
\* No mail becomes invisible: a folder with mails is in the tree unless it or a
\* folder above it is one of the provider's views, an outbox or an empty folder
\* of a kind that another one shows; of each kind one folder at most is special,
\* and never an empty one while another at the top is recognised and has mails.
TreeKeepsMail(fs) ==
    LET tree == BuildFolderTree(fs)
        Special(p) == p \in tree.roots /\ tree.kind[p] # "none"
    IN  /\ \A p \in DOMAIN fs : HasMail(fs[p]) /\ fs[p].raw # "noselect" =>
              \/ p \in tree.shown
              \/ \E q \in DOMAIN fs : (q = p \/ Under(q, p)) /\
                   \/ fs[q].raw \in ResidualKinds \/ q[Len(q)] = "Outbox"
                   \/ ~HasMail(fs[q]) /\ \E r \in tree.roots :
                         r # q /\ Special(r) /\ tree.kind[r] = tree.special[q]
        /\ \A p, q \in tree.roots : Special(p) /\ tree.kind[p] = tree.kind[q] => p = q
        /\ \A p \in tree.roots : Special(p) /\ ~HasMail(fs[p]) =>
              \A q \in tree.roots : tree.special[q] = tree.kind[p] => ~HasMail(fs[q])
=============================================================================
