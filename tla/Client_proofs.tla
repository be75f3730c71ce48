--------------------------- MODULE Client_proofs ----------------------------
(* What the web client guarantees, for any mails, folders, accounts and texts  *)
(* and any number of moves and failures, from what each page keeps to          *)
(* (Mail_proofs and Pages_proofs).                                             *)
EXTENDS Client, Mail_proofs, Pages_proofs

-----------------------------------------------------------------------------
(* From the steps of a page to those of the client: every other page stands    *)
(* still meanwhile, and of what pages share only the counters move.            *)

LEMMA EachPageAlone ==
  ASSUME [Next]_clientVars
  PROVE  /\ BulkNext \/ UNCHANGED bulkVars
         /\ SideNext \/ UNCHANGED sideVars
         /\ PanelNext \/ UNCHANGED panelVars
         /\ CleanNext \/ UNCHANGED cleanVars
         /\ ComposeNext \/ UNCHANGED composeVars
         /\ NotesNext \/ UNCHANGED notesVars
         /\ CalNext \/ UNCHANGED calVars
         /\ ContactsNext \/ UNCHANGED contactVars
         /\ SyncNext \/ UNCHANGED syncVars
         /\ RulesNext \/ UNCHANGED rulesVars
         /\ SignInNext \/ UNCHANGED signInVars
<1>1. CASE UNCHANGED clientVars
  BY <1>1 DEF clientVars, AtMail, AtPages
<1>2. CASE Bulk \/ Side \/ Panel \/ Cleanup \/ Composing
  BY <1>2 DEF Bulk, Side, Panel, Cleanup, Composing, AtPages
<1>3. CASE NotesStep \/ Cal \/ Contacts \/ Syncs \/ Rules \/ Sign
  BY <1>3 DEF NotesStep, Cal, Contacts, Syncs, Rules, Sign, AtMail
<1> QED
  BY <1>1, <1>2, <1>3 DEF Next

LEMMA EveryStepCounts ==
  ASSUME [Next]_clientVars
  PROVE  Counted
<1>1. ASSUME UNCHANGED baseVars PROVE Counted
  BY <1>1 DEF baseVars, Counted
<1>2. CASE BulkNext \/ SideNext \/ PanelNext
  BY <1>1, <1>2 DEF BulkNext, SideNext, PanelNext, ByUser, ByFault, ByItself, Counted
<1>3. CASE CleanNext \/ ComposeNext \/ NotesNext \/ CalNext
  BY <1>1, <1>3 DEF CleanNext, ComposeNext, NotesNext, CalNext, ByUser, ByFault, ByItself, Counted
<1>4. CASE ContactsNext \/ SyncNext \/ RulesNext \/ SignInNext
  BY <1>1, <1>4 DEF ContactsNext, SyncNext, RulesNext, SignInNext, ByUser, ByFault, ByItself, Counted
<1>5. CASE UNCHANGED clientVars
  BY <1>1, <1>5 DEF clientVars
<1> QED
  BY <1>2, <1>3, <1>4, <1>5 DEF Next, Bulk, Side, Panel, Cleanup, Composing, NotesStep, Cal,
                                 Contacts, Syncs, Rules, Sign

\* The list of mails and its ticks.
LEMMA BulkHolds == Spec => []BulkInv
<1>1. Init => BulkInv
  BY BulkStart DEF Init
<1>2. BulkInv /\ [Next]_clientVars => BulkInv'
  BY BulkStep, EachPageAlone
<1> QED
  BY <1>1, <1>2, PTL DEF Spec

\* Mail.tsx: what was ticked in the list and then deleted, marked or moved is what the
\* server touches, whatever sync, renumbering and change of folder come between, and
\* ticks never outlive the folder and the numbering they were made in.
THEOREM TicksAlwaysFit == Spec => []TicksFit
<1>1. BulkInv => TicksFit
  BY BulkGives DEF TicksFit
<1> QED
  BY <1>1, BulkHolds, PTL

\* The window a mail is written in, and what goes out of it.
LEMMA ComposeHolds == Spec => []ComposeInv
<1>1. Init => ComposeInv
  BY ComposeStart DEF Init, BaseInit
<1>2. ComposeInv /\ [Next]_clientVars => ComposeInv'
  BY ComposeStep, EachPageAlone, EveryStepCounts
<1> QED
  BY <1>1, <1>2, PTL DEF Spec

\* Compose.tsx: what goes out had a recipient and no attachments over the limit, comes
\* from no click that was undone, and holds each part of the text once, whatever is
\* edited, quoted, saved, scheduled, failed or undone before.
THEOREM OutAsMeant == Spec => []ComposedAsMeant
<1>1. ComposeInv => ComposedAsMeant
  BY ComposeGives DEF ComposedAsMeant
<1> QED
  BY <1>1, ComposeHolds, PTL

\* The dialog to clean up.
LEMMA CleanHolds == Spec => []CleanInv
<1>1. Init => CleanInv
  BY CleanStarts DEF Init
<1>2. CleanInv /\ [Next]_clientVars => CleanInv'
  BY CleanStep, EachPageAlone
<1> QED
  BY <1>1, <1>2, PTL DEF Spec

\* MailCleanup.tsx: however search, page and target were changed around the first
\* click, what is moved are mails of that click, by the numbering of that time, to
\* the folder shown then.
THEOREM MovesWhatWasConfirmed == Spec => []MovesAsConfirmed
<1>1. CleanInv => MovesAsConfirmed
  BY DEF CleanInv
<1> QED
  BY <1>1, CleanHolds, PTL

\* What is around one mail.
LEMMA PanelHolds == Spec => []PanelInv
<1>1. Init => PanelInv
  BY PanelStarts DEF Init, BaseInit
<1>2. PanelInv /\ [Next]_clientVars => PanelInv'
  BY PanelStep, EachPageAlone, EveryStepCounts
<1> QED
  BY <1>1, <1>2, PTL DEF Spec

\* Mail.tsx around one mail: pictures are loaded of the mail they were allowed for, an
\* infected file leaves only unchecked and asked for, each account's headers are loaded
\* once at a time, few bodies are remembered, and without a failing request no mail is
\* confirmed twice.
THEOREM PanelAlwaysKeeps == Spec => []PanelKeeps
<1>1. PanelInv => PanelKeeps
  BY DEF PanelInv, CallsFit, PanelKeeps
<1> QED
  BY <1>1, PanelHolds, PTL

\* Signing in and the second factor.
LEMMA SignInHolds == Spec => []SignInInv
<1>1. Init => SignInInv
  BY SignInStarts DEF Init
<1>2. SignInInv /\ [Next]_clientVars => SignInInv'
  BY SignInStep, EachPageAlone
<1> QED
  BY <1>1, <1>2, PTL DEF Spec

\* App.tsx, TotpSettings.tsx and auth.py: a user with a second factor on the server
\* has it in the authenticator, unless two handlers of the server ran at once.
THEOREM AuthenticatorAlwaysFits == Spec => []AuthenticatorFits
<1>1. SignInInv => AuthenticatorFits
  BY DEF SignInInv, ReadStillHolds, AuthenticatorFits
<1> QED
  BY <1>1, SignInHolds, PTL

LEMMA NotesHold == Spec => [](DialogInv /\ NotesInv /\ moves \in Nat)
<1>1. Init => DialogInv /\ NotesInv /\ moves \in Nat
  BY NotesStart DEF Init, BaseInit
<1>2. (DialogInv /\ NotesInv /\ moves \in Nat) /\ [Next]_clientVars
         => (DialogInv /\ NotesInv /\ moves \in Nat)'
  BY NotesDialogs, NotesKeep, EachPageAlone, EveryStepCounts DEF Counted
<1> QED
  BY <1>1, <1>2, PTL DEF Spec

\* The pages ask through one queue of dialogs (lib/dialog.tsx): a question gets one
\* answer and is then gone, however late its buttons are clicked and whatever page is
\* left or account signed out meanwhile.
THEOREM ClientAnswersOnce == Spec => []AnsweredOnce
<1>1. DialogInv => AnsweredOnce
  BY DEF DialogInv
<1> QED
  BY <1>1, NotesHold, PTL

\* The notes listed are the answer to the query in the search field (Notes.tsx).
THEOREM NotesListFitsQuery == Spec => []ListFitsQuery
<1>1. NotesInv => ListFitsQuery
  BY DEF NotesInv
<1> QED
  BY <1>1, NotesHold, PTL

\* Edits of a note leave the editor only by typing, with an answer of the server that
\* has them, or after the user agreed (Notes.tsx and lib/leaveGuard.ts).
THEOREM EditsAreKept == Spec => EditsKept
<1>1. (DialogInv /\ NotesInv /\ moves \in Nat) /\ [Next]_clientVars
        => [Dirty /\ (note' = None \/ <<note'.sel, note'.draft>> # <<note.sel, note.draft>>) =>
              \/ note' # None /\ note'.sel = note.sel /\ note'.saved = note.saved /\ moves' # moves
              \/ \E r \in requests : r.op = "save" /\ r.done /\ r.text = note.draft
              \/ consent \/ consent']_notesVars
  BY EditsStep, EachPageAlone DEF TextKept, MayDrop
<1> QED
  BY <1>1, NotesHold, PTL DEF Spec, EditsKept

LEMMA SyncHolds == Spec => []SyncInv
<1>1. Init => SyncInv
  BY SyncStarts DEF Init
<1>2. SyncInv /\ [Next]_clientVars => SyncInv'
  BY SyncStep, EachPageAlone
<1> QED
  BY <1>1, <1>2, PTL DEF Spec

\* Neither edits of a note nor a calendar hidden are taken back by another page, a late
\* answer, a failure or signing out (Notes.tsx, Sync.tsx).
THEOREM ChoicesAreKept == Spec => ChoicesKept
<1>1. moves \in Nat /\ [Next]_clientVars => [hiddenCals \subseteq hiddenCals' \/ moves' # moves]_syncVars
  BY HideStep, EachPageAlone
<1> QED
  BY <1>1, EditsAreKept, NotesHold, PTL DEF Spec, ChoicesKept, HideKept
\* The folders, the menu and the quota beside the list.
LEMMA SideHolds == Spec => []SideInv
<1>1. Init => SideInv
  BY SideStart DEF Init
<1>2. SideInv /\ [Next]_clientVars => SideInv'
  BY SideStep, EachPageAlone
<1> QED
  BY <1>1, <1>2, PTL DEF Spec

LEMMA RulesHold == Spec => []RulesInv
<1>1. Init => RulesInv
  BY RulesStart DEF Init
<1>2. RulesInv /\ [Next]_clientVars => RulesInv'
  BY RulesStep, EachPageAlone
<1> QED
  BY <1>1, <1>2, PTL DEF Spec

LEMMA ContactsHold == Spec => []ContactsInv
<1>1. Init => ContactsInv
  BY ContactsStart DEF Init
<1>2. ContactsInv /\ [Next]_clientVars => ContactsInv'
  BY ContactsStep, EachPageAlone
<1> QED
  BY <1>1, <1>2, PTL DEF Spec

\* What a page shows or sends with an account, a query or a text chosen is that
\* choice's, whatever answers come late (Rules.tsx, Contacts.tsx, Notes.tsx, Mail.tsx,
\* Sync.tsx).
THEOREM ShownFitsChoice == Spec => []ShownFits
<1>1. RulesInv => RulesOfAccount
  BY DEF RulesInv
<1>2. ContactsInv => RowsAnswerBox
  BY DEF ContactsInv
<1>3. SideInv => QuotaOfAccount
  BY DEF SideInv
<1>4. SyncInv => OwnPassword
  BY DEF SyncInv
<1> QED
  BY <1>1, <1>2, <1>3, <1>4, RulesHold, ContactsHold, SideHolds, SyncHolds, NotesListFitsQuery, PTL
     DEF ShownFits

\* The calendar: events, lists, the form and the requests.
LEMMA CalHolds == Spec => []CalInv
<1>1. Init => CalInv
  BY CalStart DEF Init
<1>2. CalInv /\ [Next]_clientVars => CalInv'
  BY CalStep, EachPageAlone
<1> QED
  BY <1>1, <1>2, PTL DEF Spec

\* The user makes the moves a page has, and requests fail as often as is assumed.
CountsBounded == page \in Pages /\ moves \in 0..MaxMoves[page] /\ failures \in 0..MaxFailures

LEMMA CountsHold == Spec => []CountsBounded
<1>1. Init => CountsBounded
  BY BaseAssumption DEF Init, BaseInit, CountsBounded
<1>2. ASSUME CountsBounded, [Next]_clientVars PROVE CountsBounded'
  <2>1. MaxMoves[page] \in Nat /\ MaxFailures \in Nat
    BY <1>2, BaseAssumption DEF CountsBounded
  <2>2. \/ UNCHANGED baseVars
        \/ moves < MaxMoves[page] /\ moves' = moves + 1 /\ UNCHANGED <<page, failures>>
        \/ failures < MaxFailures /\ failures' = failures + 1 /\ UNCHANGED <<page, moves>>
    <3>1. CASE UNCHANGED clientVars
      BY <3>1 DEF clientVars
    <3>2. CASE BulkNext \/ SideNext \/ PanelNext
      BY <3>2 DEF BulkNext, SideNext, PanelNext, ByUser, ByFault, ByItself
    <3>3. CASE CleanNext \/ ComposeNext \/ NotesNext \/ CalNext
      BY <3>3 DEF CleanNext, ComposeNext, NotesNext, CalNext, ByUser, ByFault, ByItself
    <3>4. CASE ContactsNext \/ SyncNext \/ RulesNext \/ SignInNext
      BY <3>4 DEF ContactsNext, SyncNext, RulesNext, SignInNext, ByUser, ByFault, ByItself
    <3> QED
      BY <1>2, <3>1, <3>2, <3>3, <3>4 DEF Next, Bulk, Side, Panel, Cleanup, Composing,
                                 NotesStep, Cal, Contacts, Syncs, Rules, Sign
  <2> QED
    BY <1>2, <2>1, <2>2 DEF CountsBounded, baseVars
<1> QED
  BY <1>1, <1>2, PTL DEF Spec

\* Every page keeps to its types: what its code reads of its state and of the answers of
\* the server is there whatever is clicked, answered, refused and lost before.
THEOREM EveryPageTyped == Spec => []PagesTypeOK
<1>1. CountsBounded => page \in Pages /\ moves <= MaxMoves[page] /\ failures <= MaxFailures
  BY BaseAssumption DEF CountsBounded
<1>2. BulkInv => BulkTypeOK
  BY DEF BulkInv
<1>3. SideInv /\ PanelInv /\ CleanInv => SideTypeOK /\ PanelTypeOK /\ CleanTypeOK
  BY DEF SideInv, PanelInv, CleanInv
<1>4. ComposeInv => ComposeTypeOK
  BY ComposeGives
<1>5. DialogInv /\ NotesInv /\ CalInv => DialogTypeOK /\ NotesTypeOK /\ CalTypeOK
  BY DEF DialogInv, NotesInv, CalInv
<1>6. ContactsInv /\ SyncInv => ContactsTypeOK /\ SyncTypeOK
  BY DEF ContactsInv, SyncInv
<1>7. RulesInv /\ SignInInv => RulesTypeOK /\ SignInTypeOK
  BY DEF RulesInv, SignInInv
<1> QED
  BY <1>1, <1>2, <1>3, <1>4, <1>5, <1>6, <1>7, CountsHold, BulkHolds, SideHolds, PanelHolds,
     CleanHolds, ComposeHolds, NotesHold, CalHolds, ContactsHold, SyncHolds, RulesHold,
     SignInHolds, PTL DEF PagesTypeOK

\* The lists of folders shown and those on their way to be.
LEMMA FoldersHold == Spec => [](SideInv /\ FoldersInv)
<1>1. Init => SideInv /\ FoldersInv
  BY SideStart, FoldersStart DEF Init
<1>2. (SideInv /\ FoldersInv) /\ [Next]_clientVars => (SideInv /\ FoldersInv)'
  BY SideStep, FoldersStep, EachPageAlone
<1> QED
  BY <1>1, <1>2, PTL DEF Spec

\* Calendar.tsx and lib/folders.ts: an event saved as it was opened asks the server for
\* no change, an event stands on the days it takes hours of, and whatever is made,
\* renamed, moved and deleted, no tree of folders loses one with mails.
THEOREM ConversionsAlwaysKeep == Spec => []ConversionsKeep
<1>1. CalInv => SavedAsShown /\ OnItsDays
  BY CalGives
<1>2. FoldersInv => TreesKeepMail
  BY FoldersGive
<1> QED
  BY <1>1, <1>2, CalHolds, FoldersHold, PTL DEF ConversionsKeep
=============================================================================
