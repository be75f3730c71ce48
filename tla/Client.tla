------------------------------- MODULE Client -------------------------------
(* The pages of the web client together.  A behaviour follows one of them.     *)
(* App.tsx keeps the mail page mounted, hidden while another page is shown     *)
(* beside it.  Pages meet at the server only; the parts of the mail page each  *)
(* bring what they need of it.                                                 *)
EXTENDS MailBulk, MailSidebar, MailPanel, CleanupDialog, Compose, NotesPage,
        CalendarPage, ContactsPage, SyncPage, RulesPage, SignIn

AtMail == <<bulkVars, sideVars, panelVars, cleanVars, composeVars>>
AtPages == <<notesVars, calVars, contactVars, syncVars, rulesVars, signInVars>>
clientVars == <<baseVars, AtMail, AtPages>>

Init ==
    /\ BaseInit
    /\ BulkInit /\ SideInit /\ PanelInit /\ CleanInit /\ ComposeInit
    /\ NotesInit /\ CalInit /\ ContactsInit /\ SyncInit /\ RulesInit /\ SignInInit

Bulk == page = "bulk" /\ BulkNext
        /\ UNCHANGED <<sideVars, panelVars, cleanVars, composeVars, AtPages>>
Side == page = "sidebar" /\ SideNext
        /\ UNCHANGED <<bulkVars, panelVars, cleanVars, composeVars, AtPages>>
Panel == page = "panel" /\ PanelNext
         /\ UNCHANGED <<bulkVars, sideVars, cleanVars, composeVars, AtPages>>
Cleanup == page = "cleanup" /\ CleanNext
           /\ UNCHANGED <<bulkVars, sideVars, panelVars, composeVars, AtPages>>
Composing == page = "compose" /\ ComposeNext
         /\ UNCHANGED <<bulkVars, sideVars, panelVars, cleanVars, AtPages>>
NotesStep == page = "notes" /\ NotesNext
             /\ UNCHANGED <<AtMail, calVars, contactVars, syncVars, rulesVars, signInVars>>
Cal == page = "calendar" /\ CalNext
       /\ UNCHANGED <<AtMail, notesVars, contactVars, syncVars, rulesVars, signInVars>>
Contacts == page = "contacts" /\ ContactsNext
            /\ UNCHANGED <<AtMail, notesVars, calVars, syncVars, rulesVars, signInVars>>
Syncs == page = "sync" /\ SyncNext
         /\ UNCHANGED <<AtMail, notesVars, calVars, contactVars, rulesVars, signInVars>>
Rules == page = "rules" /\ RulesNext
         /\ UNCHANGED <<AtMail, notesVars, calVars, contactVars, syncVars, signInVars>>
Sign == page = "signin" /\ SignInNext
        /\ UNCHANGED <<AtMail, notesVars, calVars, contactVars, syncVars, rulesVars>>

Next == \/ Bulk \/ Side \/ Panel \/ Cleanup \/ Composing \/ NotesStep
        \/ Cal \/ Contacts \/ Syncs \/ Rules \/ Sign

Spec == Init /\ [][Next]_clientVars

-----------------------------------------------------------------------------
(* Properties *)

\* The type invariants of all pages.
PagesTypeOK ==
    /\ page \in Pages /\ moves <= MaxMoves[page] /\ failures <= MaxFailures
    /\ BulkTypeOK /\ SideTypeOK /\ PanelTypeOK /\ CleanTypeOK /\ ComposeTypeOK
    /\ DialogTypeOK /\ NotesTypeOK /\ CalTypeOK /\ ContactsTypeOK /\ SyncTypeOK
    /\ RulesTypeOK /\ SignInTypeOK

\* MailBulk: what was ticked in the list and then acted on is what the server
\* touches, and ticks do not outlive the folder and the numbering they were made in.
TicksFit == TicksAreTouched /\ TicksOfShown

\* Compose: what goes out was allowed and not undone, and has each part once.
ComposedAsMeant == OnlyAllowedGoesOut /\ NoPartTwice

\* CalendarPage and FolderTree: saving unchanged asks for no change, an event is on its
\* days, and the tree of folders has a place for every folder with mail.
ConversionsKeep == SavedAsShown /\ OnItsDays /\ TreesKeepMail

\* NotesPage and SyncPage: neither edits of a note nor a calendar hidden are taken
\* back by another page, a late answer, a failure or signing out.
ChoicesKept == EditsKept /\ HideKept

\* What a page shows or sends with an account, a query or a text chosen is that
\* choice's, whatever answers come late: the rules and the quota of the account, the
\* contacts and the notes of the query, the password typed.
ShownFits ==
    RulesOfAccount /\ RowsAnswerBox /\ ListFitsQuery /\ QuotaOfAccount /\ OwnPassword
=============================================================================
