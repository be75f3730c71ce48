----------------------------- MODULE Mail_proofs ----------------------------
(* What the parts of the mail page keep to with every step, for any mails,     *)
(* folders, accounts and texts and any number of moves and failures: ticks,    *)
(* cleaning up, the panel of a mail, accounts and folders, writing.            *)
EXTENDS MailBulk, MailSidebar, MailPanel, CleanupDialog, Compose, FiniteSetTheorems,
        SequenceTheorems, WellFoundedInduction, TLAPS

\* A list without one of its elements is a list of the others.
LEMMA WithoutFits ==
  ASSUME NEW S, NEW list \in Seq(S), NEW x
  PROVE  /\ Without(list, x) \in Seq(S) /\ Len(Without(list, x)) <= Len(list)
         /\ (\E i \in DOMAIN list : list[i] = x) => Len(Without(list, x)) = Len(list) - 1
<1>1. CASE \E i \in DOMAIN list : list[i] = x
  <2> DEFINE at == CHOOSE i \in DOMAIN list : list[i] = x
             before == SubSeq(list, 1, at - 1)
             after == SubSeq(list, at + 1, Len(list))
  <2>1. at \in DOMAIN list
    BY <1>1
  <2>2. at \in 1 .. Len(list) /\ Len(list) \in Nat
    BY <2>1
  <2> HIDE DEF at
  <2>3. before \in Seq(S) /\ Len(before) = at - 1
    BY <2>2
  <2>4. after \in Seq(S) /\ Len(after) = Len(list) - at
    BY <2>2
  <2>5. Without(list, x) = before \o after
    BY <1>1 DEF Without, at
  <2> HIDE DEF before, after
  <2>6. before \o after \in Seq(S) /\ Len(before \o after) = Len(list) - 1
    BY <2>2, <2>3, <2>4
  <2> QED
    BY <2>2, <2>5, <2>6
<1>2. CASE ~\E i \in DOMAIN list : list[i] = x
  BY <1>2 DEF Without
<1> QED
  BY <1>1, <1>2

\* The counters of the moves and the failures.
Counted == /\ page' = page
           /\ \/ moves' = moves /\ failures' = failures
              \/ moves < MaxMoves[page] /\ moves' = moves + 1 /\ failures' = failures
              \/ failures < MaxFailures /\ failures' = failures + 1 /\ moves' = moves

-----------------------------------------------------------------------------
(* Clearing out: what the second click moves is what the first one showed *)

\* While the move is confirmed or under way, nothing on the dialog can change: the
\* result on the screen, its numbering and its search are those agreed to.
ShownIsAgreed ==
    /\ cleanup.confirm => /\ cleared.agreed \in Agreements
                          /\ cleanup.result.gen = cleared.agreed.gen
    /\ cleanup.result # None => /\ cleanup.value \in DOMAIN Fits
                                /\ cleanup.result.items \subseteq Fits[cleanup.value]
CallIsShown ==
    cleanCall # None =>
        /\ cleanCall.op = "search" => /\ ~cleanup.confirm /\ cleanup.value \in DOMAIN Fits
                                      /\ cleanCall.search = CleanSearch
        /\ cleanCall.op = "move" =>
              /\ cleanup.confirm /\ cleanCall.uids = cleanup.result.items
              /\ cleanCall.gen = cleanup.result.gen /\ cleanCall.dest = cleanup.dest
CleanInv == CleanTypeOK /\ MovesAsConfirmed /\ ShownIsAgreed /\ CallIsShown

CleanDialogs ==
    [open: BOOLEAN, value: DOMAIN Fits \cup {None}, protect: BOOLEAN,
     result: CleanResults \cup {None}, offset: Nat, dest: CleanTargets \cup {None},
     confirm: BOOLEAN, rule: BOOLEAN, busy: BOOLEAN]

LEMMA CleanStarts == CleanInit => CleanInv
<1> SUFFICES ASSUME CleanInit PROVE CleanInv
  OBVIOUS
<1>1. CleanTypeOK
  BY CleanupAssumption DEF CleanInit, CleanTypeOK, NoDialog
<1>2. MovesAsConfirmed /\ ShownIsAgreed /\ CallIsShown
  BY DEF CleanInit, MovesAsConfirmed, ShownIsAgreed, CallIsShown, NoDialog
<1> QED
  BY <1>1, <1>2 DEF CleanInv

\* What changes the dialog at rest and drops the confirmation or has none.
LEMMA CleanDialogKeeps ==
  ASSUME CleanInv, AtRest, OnlyDialog, cleanup' \in CleanDialogs, ~cleanup'.busy,
         \/ cleanup'.result = None /\ ~cleanup'.confirm
         \/ /\ cleanup'.result = cleanup.result /\ cleanup'.value = cleanup.value
            /\ ~cleanup'.confirm
         \/ /\ cleanup'.result = cleanup.result /\ cleanup'.value = cleanup.value
            /\ cleanup'.protect = cleanup.protect /\ cleanup'.dest = cleanup.dest
            /\ cleanup'.confirm = cleanup.confirm
  PROVE  CleanInv'
<1>1. cleanCall = None /\ UNCHANGED <<views, cleanCall, folderNow, cleared>>
  BY DEF CleanInv, MovesAsConfirmed, AtRest, OnlyDialog
<1>2. CleanTypeOK'
  BY <1>1 DEF CleanInv, CleanTypeOK, CleanDialogs
<1>3. MovesAsConfirmed'
  BY <1>1 DEF CleanInv, MovesAsConfirmed, CleanSearch, CleanTypeOK, CleanDialogs
<1>4. ShownIsAgreed' /\ CallIsShown'
  BY <1>1 DEF CleanInv, ShownIsAgreed, CallIsShown
<1> QED
  BY <1>2, <1>3, <1>4 DEF CleanInv

LEMMA OpenCleanupKeeps ==
  ASSUME CleanInv, NEW v \in DOMAIN Fits \cup {None}, OpenCleanup(v)
  PROVE  CleanInv'
<1>1. /\ cleanup' = [NoDialog EXCEPT !.open = TRUE, !.value = v]
      /\ UNCHANGED <<views, cleanCall, folderNow, cleared>> /\ cleanCall = None
  BY DEF CleanInv, MovesAsConfirmed, OpenCleanup, OnlyDialog
<1>2. /\ cleanup' \in CleanDialogs /\ cleanup'.result = None /\ ~cleanup'.confirm /\ ~cleanup'.busy
  BY <1>1 DEF NoDialog, CleanDialogs
<1>3. CleanTypeOK'
  BY <1>1, <1>2 DEF CleanInv, CleanTypeOK, CleanDialogs
<1>4. MovesAsConfirmed' /\ ShownIsAgreed' /\ CallIsShown'
  BY <1>1, <1>2 DEF CleanInv, MovesAsConfirmed, ShownIsAgreed, CallIsShown
<1> QED
  BY <1>3, <1>4 DEF CleanInv

\* Looking for the matches forgets those shown before.
LEMMA PreviewKeeps ==
  ASSUME CleanInv, NEW from \in Nat, Preview(from)
  PROVE  CleanInv'
<1> DEFINE call == [op |-> "search", search |-> CleanSearch, from |-> from]
<1>1. /\ cleanCall' = call /\ UNCHANGED <<views, folderNow, cleared>>
      /\ cleanup' = [[Invalid(cleanup) EXCEPT !.offset = from] EXCEPT !.busy = TRUE]
      /\ cleanup.open /\ cleanup.value # None /\ cleanup \in CleanDialogs
  BY DEF Preview, AskPreview, AtRest, CleanInv, CleanTypeOK, CleanDialogs
<1>2. /\ cleanup' \in CleanDialogs /\ cleanup'.open /\ cleanup'.busy /\ ~cleanup'.confirm
      /\ cleanup'.result = None /\ cleanup'.value = cleanup.value /\ cleanup'.protect = cleanup.protect
  BY <1>1 DEF Invalid, CleanDialogs
<1>3. cleanup.value \in DOMAIN Fits /\ CleanSearch \in CleanSearches /\ CleanSearch' = CleanSearch
  BY <1>1, <1>2 DEF CleanSearch, CleanSearches, CleanDialogs
<1>4. call \in CleanCalls /\ call # None /\ call.op = "search" /\ call.search = CleanSearch
  BY <1>3, CleanupAssumption DEF CleanCalls
<1> HIDE DEF call
<1>5. CleanTypeOK'
  BY <1>1, <1>2, <1>4 DEF CleanInv, CleanTypeOK, CleanDialogs
<1>6. MovesAsConfirmed' /\ ShownIsAgreed' /\ CallIsShown'
  BY <1>1, <1>2, <1>3, <1>4 DEF CleanInv, MovesAsConfirmed, ShownIsAgreed, CallIsShown
<1> QED
  BY <1>5, <1>6 DEF CleanInv

LEMMA ConfirmKeeps ==
  ASSUME CleanInv, ConfirmMove
  PROVE  CleanInv'
<1> DEFINE deal == [items |-> cleanup.result.items, gen |-> cleanup.result.gen,
                    dest |-> cleanup.dest, search |-> CleanSearch]
<1>1. /\ cleanup' = [cleanup EXCEPT !.confirm = TRUE] /\ cleared' = [cleared EXCEPT !.agreed = deal]
      /\ UNCHANGED <<views, cleanCall, folderNow>> /\ cleanCall = None /\ ~cleanup.busy
      /\ cleanup.result # None /\ cleanup.dest # None
  BY DEF ConfirmMove, AtRest, CleanInv, MovesAsConfirmed
<1>2. cleanup \in CleanDialogs /\ cleared.wrong = FALSE
  BY DEF CleanInv, CleanTypeOK, CleanDialogs, MovesAsConfirmed
<1>3. cleanup' \in CleanDialogs /\ cleanup'.result = cleanup.result /\ ~cleanup'.busy
      /\ cleanup'.dest = cleanup.dest /\ cleanup'.value = cleanup.value /\ CleanSearch' = CleanSearch
  BY <1>1, <1>2 DEF CleanDialogs, CleanSearch
<1>4. cleanup.value \in DOMAIN Fits /\ cleanup.result.items \subseteq Fits[cleanup.value]
  BY <1>1 DEF CleanInv, ShownIsAgreed
<1>5. deal \in Agreements
  BY <1>1, <1>2, <1>4 DEF Agreements, CleanDialogs, CleanResults, CleanSearch, CleanSearches
<1>6. cleared'.agreed = deal /\ ~cleared'.wrong /\ cleared'.rules = cleared.rules
      /\ DOMAIN cleared' = DOMAIN cleared
  BY <1>1, <1>2 DEF CleanInv, CleanTypeOK
<1>7. CleanTypeOK'
  <2>1. cleared' \in [agreed: Agreements \cup {None}, wrong: BOOLEAN,
                      rules: SUBSET ((DOMAIN Fits \cup {None}) \X (CleanTargets \cup {None}))]
    BY <1>1, <1>5 DEF CleanInv, CleanTypeOK
  <2> QED
    BY <1>1, <1>3, <2>1 DEF CleanInv, CleanTypeOK, CleanDialogs
<1>8. MovesAsConfirmed'
  BY <1>1, <1>3, <1>6 DEF MovesAsConfirmed
<1>9. ShownIsAgreed' /\ CallIsShown'
  BY <1>1, <1>3, <1>4, <1>5, <1>6 DEF CleanInv, ShownIsAgreed, CallIsShown
<1> QED
  BY <1>7, <1>8, <1>9 DEF CleanInv

LEMMA MoveShownKeeps ==
  ASSUME CleanInv, MoveShown
  PROVE  CleanInv'
<1> DEFINE call == [op |-> "move", uids |-> cleanup.result.items, gen |-> cleanup.result.gen,
                    dest |-> cleanup.dest]
<1>1. /\ cleanCall' = call /\ UNCHANGED <<views, folderNow, cleared>>
      /\ cleanup' = [cleanup EXCEPT !.busy = TRUE] /\ cleanup.open /\ cleanup.confirm
      /\ cleanup.result # None /\ cleanup.dest # None /\ cleanup \in CleanDialogs
  BY DEF MoveShown, AskPreview, AtRest, CleanInv, CleanTypeOK, CleanDialogs
<1>2. call \in CleanCalls /\ call # None /\ call.op = "move"
  BY <1>1, CleanupAssumption DEF CleanCalls, CleanDialogs, CleanResults
<1>3. cleanup' \in CleanDialogs /\ cleanup'.open /\ cleanup'.busy /\ cleanup'.confirm
      /\ cleanup'.result = cleanup.result /\ cleanup'.dest = cleanup.dest
      /\ cleanup'.value = cleanup.value /\ CleanSearch' = CleanSearch
  BY <1>1 DEF CleanDialogs, CleanSearch
<1>4. CleanTypeOK'
  BY <1>1, <1>2, <1>3 DEF CleanInv, CleanTypeOK, CleanDialogs
<1>5. MovesAsConfirmed' /\ ShownIsAgreed' /\ CallIsShown'
  BY <1>1, <1>2, <1>3 DEF CleanInv, MovesAsConfirmed, ShownIsAgreed, CallIsShown
<1> QED
  BY <1>4, <1>5 DEF CleanInv

\* The answer to a search shows mails that it matches.
LEMMA CleanFoundKeeps ==
  ASSUME CleanInv, NEW complete \in BOOLEAN, CleanFound(complete)
  PROVE  CleanInv'
<1> DEFINE all == Matches(cleanCall.search)
           items == {m \in all : BeforePage(m, all) \in cleanCall.from .. cleanCall.from + PageLength - 1}
           res == [items |-> items, gen |-> folderNow.gen, complete |-> complete,
                   more |-> Cardinality(all) > cleanCall.from + PageLength]
<1>1. /\ cleanCall # None /\ cleanCall.op = "search" /\ cleanCall' = None
      /\ UNCHANGED <<views, folderNow, cleared>>
      /\ cleanup' = [cleanup EXCEPT !.busy = FALSE, !.result = res]
  BY DEF CleanFound
<1>2. /\ ~cleanup.confirm /\ cleanup.value \in DOMAIN Fits /\ cleanCall.search.value = cleanup.value
  BY <1>1 DEF CleanInv, CallIsShown, CleanSearch
<1>3. items \subseteq CleanMails /\ items \subseteq Fits[cleanup.value]
  BY <1>2 DEF Matches, CleanInv, CleanTypeOK
<1>4. res.items = items /\ res \in CleanResults
  <2>1. folderNow.gen \in {1, 2}
    BY DEF CleanInv, CleanTypeOK
  <2>2. (Cardinality(all) > cleanCall.from + PageLength) \in BOOLEAN
    OBVIOUS
  <2> HIDE DEF items, all
  <2> QED
    BY <1>3, <2>1, <2>2 DEF CleanResults
<1> HIDE DEF res, items, all
<1>5. cleanup \in CleanDialogs
  BY DEF CleanInv, CleanTypeOK, CleanDialogs
<1>6. cleanup' \in CleanDialogs /\ ~cleanup'.busy /\ ~cleanup'.confirm /\ cleanup'.result = res
      /\ cleanup'.value = cleanup.value
  BY <1>1, <1>2, <1>4, <1>5 DEF CleanDialogs
<1>7. CleanTypeOK'
  BY <1>1, <1>6 DEF CleanInv, CleanTypeOK, CleanDialogs
<1>8. MovesAsConfirmed' /\ ShownIsAgreed' /\ CallIsShown'
  BY <1>1, <1>2, <1>3, <1>4, <1>6 DEF CleanInv, MovesAsConfirmed, ShownIsAgreed, CallIsShown
<1> QED
  BY <1>7, <1>8 DEF CleanInv

\* Moving what the request names, now, is as agreed.
LEMMA MoveIsAgreed ==
  ASSUME CleanInv, cleanCall # None, cleanCall.op = "move", cleanCall.gen = folderNow.gen,
         NEW ms \in SUBSET cleanCall.uids
  PROVE  AsAgreed(cleanCall, ms)
<1>1. /\ cleanup.confirm /\ cleanCall.uids = cleanup.result.items
      /\ cleanCall.gen = cleanup.result.gen /\ cleanCall.dest = cleanup.dest
  BY DEF CleanInv, CallIsShown
<1>2. /\ cleanup.result # None /\ cleanup.result.items = cleared.agreed.items
      /\ cleared.agreed.search.value = cleanup.value /\ cleanup.dest = cleared.agreed.dest
  BY <1>1 DEF CleanInv, MovesAsConfirmed, CleanSearch
<1>3. cleanup.result.gen = cleared.agreed.gen /\ cleanup.result.items \subseteq Fits[cleanup.value]
  BY <1>1, <1>2 DEF CleanInv, ShownIsAgreed
<1> QED
  BY <1>1, <1>2, <1>3 DEF AsAgreed

\* The end of a request that leaves no result on the screen.
LEMMA CleanEndKeeps ==
  ASSUME CleanInv, UNCHANGED views, cleanup' \in CleanDialogs,
         folderNow' \in [gen: {1, 2}, mails: SUBSET CleanMails, starred: SUBSET CleanMails],
         folderNow'.starred \subseteq folderNow'.mails,
         cleared' \in [agreed: Agreements \cup {None}, wrong: BOOLEAN,
                       rules: SUBSET ((DOMAIN Fits \cup {None}) \X (CleanTargets \cup {None}))],
         ~cleared'.wrong, ~cleanup'.confirm, cleanup'.result = None,
         cleanCall' \in CleanCalls \cup {None}, cleanup'.busy <=> cleanCall' # None,
         cleanCall' # None => cleanup'.open /\ cleanCall'.op = "rule"
  PROVE  CleanInv'
<1>1. CleanTypeOK'
  BY DEF CleanInv, CleanTypeOK, CleanDialogs
<1>2. MovesAsConfirmed' /\ ShownIsAgreed' /\ CallIsShown'
  BY DEF MovesAsConfirmed, ShownIsAgreed, CallIsShown
<1> QED
  BY <1>1, <1>2 DEF CleanInv

LEMMA CleanMovedKeeps ==
  ASSUME CleanInv, CleanMoved
  PROVE  CleanInv'
<1> DEFINE ms == cleanCall.uids \cap folderNow.mails
           make == [op |-> "rule", search |-> CleanSearch, dest |-> cleanup.dest]
<1>1. /\ cleanCall # None /\ cleanCall.op = "move" /\ cleanCall.gen = folderNow.gen
      /\ folderNow' = [folderNow EXCEPT !.mails = @ \ ms, !.starred = @ \ ms]
      /\ cleared' = [cleared EXCEPT !.wrong = @ \/ ~AsAgreed(cleanCall, ms)]
      /\ cleanCall' = (IF cleanup.rule THEN make ELSE None)
      /\ cleanup' = [Invalid(cleanup) EXCEPT !.offset = 0, !.busy = cleanup.rule]
      /\ UNCHANGED views
  BY DEF CleanMoved
<1>2. AsAgreed(cleanCall, ms)
  BY <1>1, MoveIsAgreed
<1> HIDE DEF ms
<1>3. cleanup \in CleanDialogs /\ cleanup.open /\ cleared.wrong = FALSE
  BY <1>1 DEF CleanInv, CleanTypeOK, CleanDialogs, MovesAsConfirmed
<1>4. cleanup' \in CleanDialogs /\ ~cleanup'.confirm /\ cleanup'.result = None /\ cleanup'.open
      /\ cleanup'.busy = cleanup.rule
  BY <1>1, <1>3 DEF Invalid, CleanDialogs
<1>5. make \in CleanCalls /\ make # None /\ make.op = "rule"
  BY <1>3, CleanupAssumption DEF CleanCalls, CleanDialogs, CleanSearch, CleanSearches
<1> HIDE DEF make
<1>6. /\ folderNow' \in [gen: {1, 2}, mails: SUBSET CleanMails, starred: SUBSET CleanMails]
      /\ folderNow'.starred \subseteq folderNow'.mails
  BY <1>1 DEF CleanInv, CleanTypeOK
<1>7. /\ cleared' \in [agreed: Agreements \cup {None}, wrong: BOOLEAN,
                       rules: SUBSET ((DOMAIN Fits \cup {None}) \X (CleanTargets \cup {None}))]
      /\ ~cleared'.wrong
  BY <1>1, <1>2, <1>3 DEF CleanInv, CleanTypeOK
<1>8. /\ cleanCall' \in CleanCalls \cup {None} /\ (cleanup'.busy <=> cleanCall' # None)
      /\ cleanCall' # None => cleanup'.open /\ cleanCall'.op = "rule"
  BY <1>1, <1>4, <1>5
<1> QED
  BY <1>1, <1>4, <1>6, <1>7, <1>8, CleanEndKeeps

LEMMA CleanFailsKeeps ==
  ASSUME CleanInv, NEW done \in BOOLEAN, CleanFails(done)
  PROVE  CleanInv'
<1>1. /\ cleanCall # None /\ cleanCall' = None /\ UNCHANGED views
      /\ done => cleanCall.op = "move" /\ cleanCall.gen = folderNow.gen
      /\ cleanup' = [Invalid(cleanup) EXCEPT !.busy = FALSE]
      /\ folderNow' = (IF done THEN [folderNow EXCEPT !.mails = @ \ cleanCall.uids,
                                                     !.starred = @ \ cleanCall.uids]
                       ELSE folderNow)
      /\ cleared' = [cleared EXCEPT !.wrong = @ \/ (done /\ ~AsAgreed(cleanCall, cleanCall.uids))]
  BY DEF CleanFails
<1>2. done => AsAgreed(cleanCall, cleanCall.uids)
  BY <1>1, MoveIsAgreed
<1>3. cleanup \in CleanDialogs /\ cleared.wrong = FALSE
  BY DEF CleanInv, CleanTypeOK, CleanDialogs, MovesAsConfirmed
<1>4. cleanup' \in CleanDialogs /\ ~cleanup'.confirm /\ cleanup'.result = None /\ ~cleanup'.busy
  BY <1>1, <1>3 DEF Invalid, CleanDialogs
<1>5. /\ folderNow' \in [gen: {1, 2}, mails: SUBSET CleanMails, starred: SUBSET CleanMails]
      /\ folderNow'.starred \subseteq folderNow'.mails
  BY <1>1 DEF CleanInv, CleanTypeOK
<1>6. /\ cleared' \in [agreed: Agreements \cup {None}, wrong: BOOLEAN,
                       rules: SUBSET ((DOMAIN Fits \cup {None}) \X (CleanTargets \cup {None}))]
      /\ ~cleared'.wrong
  BY <1>1, <1>2, <1>3 DEF CleanInv, CleanTypeOK
<1> QED
  BY <1>1, <1>4, <1>5, <1>6, CleanEndKeeps

LEMMA CleanRefusedKeeps ==
  ASSUME CleanInv, CleanRefused
  PROVE  CleanInv'
<1>1. /\ cleanCall' = None /\ UNCHANGED <<views, folderNow, cleared>>
      /\ cleanup' = [Invalid(cleanup) EXCEPT !.busy = FALSE]
  BY DEF CleanRefused
<1>2. cleanup \in CleanDialogs /\ ~cleared'.wrong
  BY <1>1 DEF CleanInv, CleanTypeOK, CleanDialogs, MovesAsConfirmed
<1>3. cleanup' \in CleanDialogs /\ ~cleanup'.confirm /\ cleanup'.result = None /\ ~cleanup'.busy
  BY <1>1, <1>2 DEF Invalid, CleanDialogs
<1> QED
  BY <1>1, <1>2, <1>3, CleanEndKeeps DEF CleanInv, CleanTypeOK

\* A rule is asked for when the mails are away: there is no confirmation any more.
LEMMA CleanRuleKeeps ==
  ASSUME CleanInv, NEW ok \in BOOLEAN, CleanRuleMade(ok)
  PROVE  CleanInv'
<1> DEFINE line == <<cleanCall.search.value, cleanCall.dest>>
<1>1. /\ cleanCall # None /\ cleanCall.op = "rule" /\ cleanCall' = None
      /\ cleanup' = [cleanup EXCEPT !.busy = FALSE]
      /\ cleared' = (IF ok THEN [cleared EXCEPT !.rules = @ \cup {line}] ELSE cleared)
      /\ UNCHANGED <<views, folderNow>>
  BY DEF CleanRuleMade
<1>2. cleanup \in CleanDialogs /\ cleared.wrong = FALSE
  BY DEF CleanInv, CleanTypeOK, CleanDialogs, MovesAsConfirmed
<1>3. cleanup' \in CleanDialogs /\ ~cleanup'.busy /\ cleanup'.confirm = cleanup.confirm
      /\ cleanup'.result = cleanup.result /\ cleanup'.value = cleanup.value
      /\ cleanup'.protect = cleanup.protect /\ cleanup'.dest = cleanup.dest
  BY <1>1, <1>2 DEF CleanDialogs
<1>4. line \in (DOMAIN Fits \cup {None}) \X (CleanTargets \cup {None})
  BY <1>1 DEF CleanInv, CleanTypeOK, CleanCalls, CleanSearches
<1> HIDE DEF line
<1>5. /\ cleared' \in [agreed: Agreements \cup {None}, wrong: BOOLEAN,
                       rules: SUBSET ((DOMAIN Fits \cup {None}) \X (CleanTargets \cup {None}))]
      /\ cleared'.agreed = cleared.agreed /\ cleared'.wrong = FALSE
  BY <1>1, <1>2, <1>4 DEF CleanInv, CleanTypeOK
<1>6. CleanTypeOK'
  BY <1>1, <1>3, <1>5 DEF CleanInv, CleanTypeOK, CleanDialogs
<1>7. MovesAsConfirmed'
  BY <1>1, <1>3, <1>5 DEF CleanInv, MovesAsConfirmed, CleanSearch
<1>8. ShownIsAgreed' /\ CallIsShown'
  BY <1>1, <1>3, <1>5 DEF CleanInv, ShownIsAgreed, CallIsShown
<1> QED
  BY <1>6, <1>7, <1>8 DEF CleanInv

\* Remembering a search keeps the number of those remembered.
LEMMA SaveViewKeeps ==
  ASSUME CleanInv, SaveView
  PROVE  CleanInv'
<1> DEFINE all == <<CleanSearch>> \o Without(views, CleanSearch)
<1>1. /\ views' = SubSeq(all, 1, IF Len(all) < MaxViews THEN Len(all) ELSE MaxViews)
      /\ UNCHANGED <<cleanup, cleanCall, folderNow, cleared>>
  BY DEF SaveView
<1>2. CleanSearch \in CleanSearches /\ views \in Seq(CleanSearches) /\ MaxViews \in Nat \ {0}
  BY CleanupAssumption DEF CleanSearch, CleanSearches, CleanInv, CleanTypeOK
<1>3. all \in Seq(CleanSearches) /\ Len(all) \in Nat
  <2>1. Without(views, CleanSearch) \in Seq(CleanSearches)
    BY <1>2, WithoutFits
  <2>2. <<CleanSearch>> \in Seq(CleanSearches)
    BY <1>2
  <2>3. all \in Seq(CleanSearches)
    BY <2>1, <2>2
  <2> QED
    BY <2>3
<1> HIDE DEF all
<1>4. views' \in Seq(CleanSearches) /\ Len(views') <= MaxViews
  <2>1. CASE Len(all) < MaxViews
    BY <1>1, <1>2, <1>3, <2>1
  <2>2. CASE ~(Len(all) < MaxViews)
    BY <1>1, <1>2, <1>3, <2>2
  <2> QED
    BY <2>1, <2>2
<1> QED
  BY <1>1, <1>4 DEF CleanInv, CleanTypeOK, MovesAsConfirmed, ShownIsAgreed, CallIsShown, CleanSearch

\* The choices on the dialog, each with what it makes of the confirmation.
LEMMA CleanChoiceKeeps ==
  ASSUME CleanInv
  PROVE  /\ CloseCleanup \/ RememberRule => CleanInv'
         /\ \A v \in DOMAIN Fits \cup {None}, protect \in BOOLEAN : SetSearch(v, protect) => CleanInv'
         /\ \A f \in CleanTargets : ChooseTarget(f) => CleanInv'
<1>1. cleanup \in CleanDialogs
  BY DEF CleanInv, CleanTypeOK, CleanDialogs
<1>2. CloseCleanup => CleanInv'
  <2> SUFFICES ASSUME CloseCleanup PROVE CleanInv'
    OBVIOUS
  <2>1. cleanup' = NoDialog /\ AtRest /\ OnlyDialog
    BY DEF CloseCleanup
  <2>2. cleanup' \in CleanDialogs /\ ~cleanup'.busy /\ cleanup'.result = None /\ ~cleanup'.confirm
    BY <2>1 DEF NoDialog, CleanDialogs
  <2> QED
    BY <2>1, <2>2, CleanDialogKeeps
<1>3. RememberRule => CleanInv'
  <2> SUFFICES ASSUME RememberRule PROVE CleanInv'
    OBVIOUS
  <2>1. cleanup' = [cleanup EXCEPT !.rule = ~@] /\ AtRest /\ ~cleanup.busy /\ OnlyDialog
    BY DEF RememberRule, AtRest
  <2>2. /\ cleanup' \in CleanDialogs /\ ~cleanup'.busy
        /\ cleanup'.result = cleanup.result /\ cleanup'.value = cleanup.value
        /\ cleanup'.protect = cleanup.protect /\ cleanup'.dest = cleanup.dest
        /\ cleanup'.confirm = cleanup.confirm
    BY <1>1, <2>1 DEF CleanDialogs
  <2> QED
    BY <2>1, <2>2, CleanDialogKeeps
<1>4. ASSUME NEW v \in DOMAIN Fits \cup {None}, NEW protect \in BOOLEAN, SetSearch(v, protect)
      PROVE  CleanInv'
  <2>1. /\ cleanup' = [Invalid(cleanup) EXCEPT !.value = v, !.protect = protect]
        /\ AtRest /\ ~cleanup.busy /\ OnlyDialog
    BY <1>4 DEF SetSearch, AtRest
  <2>2. cleanup' \in CleanDialogs /\ ~cleanup'.busy /\ cleanup'.result = None /\ ~cleanup'.confirm
    BY <1>1, <2>1 DEF Invalid, CleanDialogs
  <2> QED
    BY <2>1, <2>2, CleanDialogKeeps
<1>5. ASSUME NEW f \in CleanTargets, ChooseTarget(f)
      PROVE  CleanInv'
  <2>1. /\ cleanup' = [cleanup EXCEPT !.dest = f, !.confirm = FALSE]
        /\ AtRest /\ ~cleanup.busy /\ OnlyDialog
    BY <1>5 DEF ChooseTarget, AtRest
  <2>2. cleanup' \in CleanDialogs /\ ~cleanup'.busy /\ ~cleanup'.confirm
        /\ cleanup'.result = cleanup.result /\ cleanup'.value = cleanup.value
    BY <1>1, <2>1 DEF CleanDialogs
  <2> QED
    BY <2>1, <2>2, CleanDialogKeeps
<1> QED
  BY <1>2, <1>3, <1>4, <1>5

LEMMA CleanUserKeeps ==
  ASSUME CleanInv, CleanUser
  PROVE  CleanInv'
<1>1. ASSUME NEW v \in DOMAIN Fits \cup {None}, OpenCleanup(v) PROVE CleanInv'
  BY <1>1, OpenCleanupKeeps
<1>2. ASSUME NEW v \in DOMAIN Fits, NEW protect \in BOOLEAN, SetSearch(v, protect) PROVE CleanInv'
  BY <1>2, CleanChoiceKeeps
<1>3. CASE CloseCleanup \/ RememberRule
  BY <1>3, CleanChoiceKeeps
<1>4. ASSUME NEW f \in CleanTargets, ChooseTarget(f) PROVE CleanInv'
  BY <1>4, CleanChoiceKeeps
<1>5. CASE SaveView
  BY <1>5, SaveViewKeeps
<1>6. CASE ForgetViews
  <2>1. views' = <<>> /\ UNCHANGED <<cleanup, cleanCall, folderNow, cleared>>
    BY <1>6 DEF ForgetViews
  <2>2. views' \in Seq(CleanSearches) /\ Len(views') <= MaxViews
    BY <2>1, CleanupAssumption
  <2> QED
    BY <2>1, <2>2 DEF CleanInv, CleanTypeOK, MovesAsConfirmed, ShownIsAgreed, CallIsShown, CleanSearch
<1>7. ASSUME NEW i \in DOMAIN views, UseView(views[i]) PROVE CleanInv'
  <2>1. views[i] \in CleanSearches
    BY DEF CleanInv, CleanTypeOK
  <2>2. views[i].value \in DOMAIN Fits \cup {None} /\ views[i].protect \in BOOLEAN
    BY <2>1 DEF CleanSearches
  <2>3. SetSearch(views[i].value, views[i].protect)
    BY <1>7 DEF UseView
  <2> QED
    BY <2>2, <2>3, CleanChoiceKeeps
<1>8. CASE Preview(0) \/ NextPage \/ PreviousPage
  <2>1. cleanup.offset \in Nat /\ PageLength \in Nat
    BY CleanupAssumption DEF CleanInv, CleanTypeOK
  <2>2. cleanup.offset + PageLength \in Nat
    BY <2>1
  <2>3. (IF cleanup.offset < PageLength THEN 0 ELSE cleanup.offset - PageLength) \in Nat
    BY <2>1
  <2> QED
    BY <1>8, <2>2, <2>3, PreviewKeeps DEF NextPage, PreviousPage
<1>9. CASE ConfirmMove
  BY <1>9, ConfirmKeeps
<1>10. CASE MoveShown
  BY <1>10, MoveShownKeeps
<1> QED
  BY <1>1, <1>2, <1>3, <1>4, <1>5, <1>6, <1>7, <1>8, <1>9, <1>10 DEF CleanUser

\* The folder changes by itself: another client stars a mail, the server renumbers.
LEMMA FolderNowKeeps ==
  ASSUME CleanInv, Renumbered \/ \E m \in CleanMails : OtherStars(m)
  PROVE  CleanInv'
<1>1. UNCHANGED <<cleanup, views, cleanCall, cleared>>
  BY DEF Renumbered, OtherStars
<1>2. /\ folderNow' \in [gen: {1, 2}, mails: SUBSET CleanMails, starred: SUBSET CleanMails]
      /\ folderNow'.starred \subseteq folderNow'.mails
  BY DEF Renumbered, OtherStars, CleanInv, CleanTypeOK
<1> QED
  BY <1>1, <1>2 DEF CleanInv, CleanTypeOK, MovesAsConfirmed, ShownIsAgreed, CallIsShown, CleanSearch

LEMMA CleanStep == CleanInv /\ (CleanNext \/ UNCHANGED cleanVars) => CleanInv'
<1> SUFFICES ASSUME CleanInv, CleanNext \/ UNCHANGED cleanVars PROVE CleanInv'
  OBVIOUS
<1>1. CASE CleanUser
  BY <1>1, CleanUserKeeps
<1>2. ASSUME NEW ok \in BOOLEAN, CleanRuleMade(ok) PROVE CleanInv'
  BY <1>2, CleanRuleKeeps
<1>3. ASSUME NEW done \in BOOLEAN, CleanFails(done) PROVE CleanInv'
  BY <1>3, CleanFailsKeeps
<1>4. CASE Renumbered \/ \E m \in CleanMails : OtherStars(m)
  BY <1>4, FolderNowKeeps
<1>5. CASE CleanMoved
  BY <1>5, CleanMovedKeeps
<1>6. CASE CleanRefused
  BY <1>6, CleanRefusedKeeps
<1>7. ASSUME NEW complete \in BOOLEAN, CleanFound(complete) PROVE CleanInv'
  BY <1>7, CleanFoundKeeps
<1>8. CASE UNCHANGED cleanVars
  BY <1>8 DEF cleanVars, CleanInv, CleanTypeOK, MovesAsConfirmed, ShownIsAgreed, CallIsShown, CleanSearch
<1> QED
  BY <1>1, <1>2, <1>3, <1>4, <1>5, <1>6, <1>7, <1>8 DEF CleanNext, ByUser, ByFault, ByItself

-----------------------------------------------------------------------------
(* Around the mail being read                                                  *)

\* An answer of the scanner is true of the mail it is about.
ScansHold == \A c \in panelCalls : c.mail \in panelServer.infected => c.stage # "clean"
\* What is loading is noted as being loaded.
LoadsNoted == \A c \in panelCalls : c.op \in LoadKinds => c.arg \in loads[c.op].busy
\* While nothing failed: one receipt is on its way at a time, and one that was sent
\* is known as sent or about to be.
ReceiptsKnown ==
    /\ \A c \in panelCalls : c.op = "receipt" =>
          /\ notices.busy /\ \A d \in panelCalls : d.op = "receipt" => d = c
          /\ c.stage = "sent" => c.mail \notin given.receipts
    /\ \A m \in given.receipts :
          \/ notices.mdn[UidOf[m]] = "sent"
          \/ \E c \in panelCalls : c.op = "receipt" /\ c.stage = "done" /\ c.mail = m
CallsFit ==
    /\ NoVirusAsClean /\ ScansHold /\ OneLoad /\ LoadsNoted
    /\ ReceiptOnce /\ (failures = 0 => ReceiptsKnown)
PanelInv == PanelTypeOK /\ failures \in Nat /\ PicturesAllowed /\ WarmBounded /\ CallsFit

PanelStages == {"sent", "done", "clean", "infected", "unchecked", "unavailable"}
PanelOps == {"createLabel", "deleteLabel", "editLabel", "scheduled", "cancel"} \cup OfMail \cup LoadKinds

LEMMA PanelTyped ==
  ASSUME PanelInv
  PROVE  /\ pane \in Panes /\ notices \in Notices /\ panelAsk \in Asks \cup {None}
         /\ tags \in [known: BOOLEAN, editing: BOOLEAN, filter: BOOLEAN, of: Labels]
         /\ later \in [open: BOOLEAN, rows: SUBSET {1}] /\ where \in Places
         /\ loads \in Loads /\ warm \in Seq(PanelMails) /\ panelServer \in PanelServers /\ given \in Gifts
         /\ \A c \in panelCalls : PanelCallOK(c)
  BY DEF PanelInv, PanelTypeOK

\* Steps that only add requests with nothing to watch, or take some away.
LEMMA OthersKeep ==
  ASSUME PanelInv, failures' \in Nat, failures <= failures',
         \A c \in panelCalls' : \/ c \in panelCalls
                                \/ /\ c.op \notin LoadKinds \cup {"receipt"}
                                   /\ c.mail \in panelServer.infected => c.stage # "clean",
         failures' = failures => \A c \in panelCalls : c.op = "receipt" => c \in panelCalls',
         UNCHANGED <<loads, given.receipts, given.twice>>, panelServer'.infected = panelServer.infected,
         NoVirusAsClean',
         failures' = failures => /\ notices'.busy = notices.busy
                                 /\ \A m \in PanelMails : notices.mdn[UidOf[m]] = "sent" => notices'.mdn[UidOf[m]] = "sent"
  PROVE  CallsFit'
<1>1. failures \in Nat /\ CallsFit /\ given.receipts \subseteq PanelMails
  BY PanelTyped DEF PanelInv, Gifts
<1>3. ScansHold'
  BY <1>1 DEF CallsFit, ScansHold
<1>4. OneLoad'
  BY <1>1 DEF CallsFit, OneLoad
<1>5. LoadsNoted'
  BY <1>1 DEF CallsFit, LoadsNoted
<1>6. ReceiptOnce'
  BY <1>1 DEF CallsFit, ReceiptOnce
<1>7. ASSUME failures' = 0 PROVE ReceiptsKnown'
  <2>1. failures = 0 /\ failures' = failures
    BY <1>1, <1>7
  <2>2. ReceiptsKnown
    BY <1>1, <2>1 DEF CallsFit
  <2>3. \A c \in panelCalls' : c.op = "receipt" => c \in panelCalls
    OBVIOUS
  <2>4. ASSUME NEW c \in panelCalls', c.op = "receipt"
        PROVE  /\ notices'.busy /\ \A d \in panelCalls' : d.op = "receipt" => d = c
               /\ c.stage = "sent" => c.mail \notin given.receipts
    BY <2>1, <2>2, <2>3, <2>4 DEF ReceiptsKnown
  <2>5. ASSUME NEW m \in given.receipts
        PROVE  \/ notices'.mdn[UidOf[m]] = "sent"
               \/ \E c \in panelCalls' : c.op = "receipt" /\ c.stage = "done" /\ c.mail = m
    BY <1>1, <2>1, <2>2 DEF ReceiptsKnown
  <2> QED
    BY <2>4, <2>5 DEF ReceiptsKnown
<1> QED
  BY <1>3, <1>4, <1>5, <1>6, <1>7 DEF CallsFit

\* A request with nothing to watch is sent, or none.
Unwatched == PanelOps \ (LoadKinds \cup {"receipt"})
SentUnwatched ==
    \E op \in Unwatched, mail \in SomeMail, arg \in {None, "checked", "unchecked", TRUE, FALSE, 1} :
        /\ op \in OfMail => mail \in PanelMails
        /\ op = "label" => arg \in BOOLEAN
        /\ SendPanel(op, mail, arg)

LEMMA SendingIt ==
  ASSUME NEW op \in Unwatched, NEW mail \in SomeMail,
         NEW arg \in {None, "checked", "unchecked", TRUE, FALSE, 1},
         op \in OfMail => mail \in PanelMails, op = "label" => arg \in BOOLEAN, SendPanel(op, mail, arg)
  PROVE  SentUnwatched
  BY DEF SentUnwatched

LEMMA SendsKeep ==
  ASSUME PanelInv, UNCHANGED failures, UNCHANGED <<where, loads, panelServer, given>>,
         UNCHANGED panelCalls \/ SentUnwatched,
         pane' \in Panes, PicturesAllowed', panelAsk' \in Asks \cup {None},
         tags' \in [known: BOOLEAN, editing: BOOLEAN, filter: BOOLEAN, of: Labels],
         later' \in [open: BOOLEAN, rows: SUBSET {1}], warm' \in Seq(PanelMails), Len(warm') <= Warm,
         notices' \in Notices, notices'.busy = notices.busy,
         \A m \in PanelMails : notices.mdn[UidOf[m]] = "sent" => notices'.mdn[UidOf[m]] = "sent"
  PROVE  PanelInv'
<1>1. /\ \A c \in panelCalls' : PanelCallOK(c)
      /\ \A c \in panelCalls' : \/ c \in panelCalls
                                \/ c.op \notin LoadKinds \cup {"receipt"} /\ c.stage = "sent"
      /\ panelCalls \subseteq panelCalls'
  <2>1. CASE UNCHANGED panelCalls
    BY <2>1, PanelTyped
  <2>2. ASSUME NEW op \in Unwatched, NEW mail \in SomeMail, NEW arg,
               op \in OfMail => mail \in PanelMails, op = "label" => arg \in BOOLEAN,
               SendPanel(op, mail, arg)
        PROVE  <1>1!:
    <3> DEFINE new == PanelCall(op, mail, arg)
    <3>0. op \in PanelOps /\ op \notin LoadKinds \cup {"receipt"}
      BY DEF Unwatched
    <3>1. PanelCallOK(new) /\ new.op = op /\ new.stage = "sent"
      BY <2>2, <3>0 DEF PanelCall, PanelCallOK, PanelOps
    <3>2. panelCalls' = panelCalls \cup {new}
      BY <2>2 DEF SendPanel
    <3> HIDE DEF new
    <3> QED
      BY <3>0, <3>1, <3>2, PanelTyped
  <2> QED
    BY <2>1, <2>2 DEF SentUnwatched
<1>2. failures \in Nat
  BY DEF PanelInv
<1>3. CallsFit'
  <2>1. NoVirusAsClean'
    BY DEF PanelInv, CallsFit, NoVirusAsClean
  <2> QED
    BY <1>1, <1>2, <2>1, OthersKeep
<1> QED
  BY <1>1, <1>2, <1>3, PanelTyped DEF PanelInv, PanelTypeOK, WarmBounded

\* Looking at a mail, and away from it.
LEMMA ReadingKeeps ==
  ASSUME PanelInv, UNCHANGED failures,
         \/ \E m \in PanelMails, pop \in BOOLEAN : OpenMail(m, pop)
         \/ ClosePane \/ (\E f \in Folds : ToggleFold(f)) \/ ShowImages \/ CloseRaw
         \/ DoTranslate \/ ShowRaw \/ SaveContact
  PROVE  PanelInv'
<1>1. /\ PanelTypeOK /\ PicturesAllowed /\ WarmBounded
  BY DEF PanelInv
<1>2. pane \in Panes /\ None \in SomeMail
  BY <1>1 DEF PanelTypeOK, SomeMail
<1>3. UNCHANGED <<notices, tags, panelAsk, later, where, loads, warm, panelServer, given>>
  BY DEF OpenMail, ClosePane, ToggleFold, ShowImages, CloseRaw, DoTranslate, ShowRaw, SaveContact
<1>4. pane' \in Panes /\ PicturesAllowed'
  <2>1. ASSUME NEW m \in PanelMails, NEW pop \in BOOLEAN, OpenMail(m, pop)
        PROVE  pane' \in Panes /\ PicturesAllowed'
    <3>1. pane' = [pane EXCEPT !.mail = m, !.images = None, !.translated = None, !.saved = FALSE,
                      !.folds = [Folded EXCEPT !["popup"] = pop]]
      BY <2>1 DEF OpenMail
    <3>2. [Folded EXCEPT !["popup"] = pop] \in [Folds -> BOOLEAN]
      BY DEF Folded
    <3>3. m \in SomeMail
      BY DEF SomeMail
    <3> QED
      BY <1>2, <3>1, <3>2, <3>3 DEF Panes, PicturesAllowed
  <2>2. CASE ClosePane
    BY <1>2, <2>2 DEF ClosePane, Panes, PicturesAllowed
  <2>3. ASSUME NEW f \in Folds, ToggleFold(f)
        PROVE  pane' \in Panes /\ PicturesAllowed'
    BY <1>1, <1>2, <2>3 DEF ToggleFold, Panes, PicturesAllowed
  <2>4. CASE ShowImages
    BY <1>1, <1>2, <2>4 DEF ShowImages, Panes, PicturesAllowed
  <2>5. CASE CloseRaw
    BY <1>1, <1>2, <2>5 DEF CloseRaw, Panes, PicturesAllowed
  <2>6. CASE DoTranslate
    BY <1>1, <1>2, <2>6 DEF DoTranslate, Panes, PicturesAllowed
  <2>7. CASE ShowRaw \/ SaveContact
    BY <1>1, <1>2, <2>7 DEF ShowRaw, SaveContact, PicturesAllowed
  <2> QED
    BY <2>1, <2>2, <2>3, <2>4, <2>5, <2>6, <2>7
<1>5. UNCHANGED panelCalls \/ SentUnwatched
  <2>1. ASSUME Reading, NEW op \in {"translate", "raw", "contact"}, SendPanel(op, pane.mail, None)
        PROVE  SentUnwatched
    <3>1. pane.mail \in PanelMails /\ pane.mail \in SomeMail
      BY <1>2, <2>1 DEF Reading, Panes, SomeMail
    <3>2. op \in Unwatched /\ op # "label"
      BY DEF Unwatched, PanelOps, OfMail, LoadKinds
    <3> QED
      BY <2>1, <3>1, <3>2, SendingIt
  <2> QED
    BY <2>1 DEF OpenMail, ClosePane, ToggleFold, ShowImages, CloseRaw, DoTranslate, ShowRaw, SaveContact
<1> QED
  BY <1>1, <1>3, <1>4, <1>5, SendsKeep, PanelTyped DEF WarmBounded

\* Declining a receipt, unsubscribing, attachments, the question and its answer.
LEMMA NoticesKeep ==
  ASSUME PanelInv, UNCHANGED failures,
         IgnoreReceipt \/ Unsubscribe \/ AttDownload \/ AskBlock \/ \E yes \in BOOLEAN : PanelAnswered(yes)
  PROVE  PanelInv'
<1>1. /\ PanelTypeOK /\ PicturesAllowed /\ WarmBounded
  BY DEF PanelInv
<1>2. pane \in Panes /\ notices \in Notices /\ panelAsk \in Asks \cup {None}
  BY <1>1 DEF PanelTypeOK
<1>3. UNCHANGED <<pane, tags, later, where, loads, warm, panelServer, given>> /\ PicturesAllowed'
  BY <1>1 DEF IgnoreReceipt, Unsubscribe, AttDownload, AskBlock, PanelAnswered, PicturesAllowed
<1>4. Reading => pane.mail \in PanelMails /\ Uid \in PanelUids
  BY <1>2 DEF Reading, Panes, SomeMail, Uid, PanelUids
<1>5. /\ notices' \in Notices /\ notices'.busy = notices.busy
      /\ \A m \in PanelMails : notices.mdn[UidOf[m]] = "sent" => notices'.mdn[UidOf[m]] = "sent"
  <2>1. CASE IgnoreReceipt
    <3>1. notices' = [notices EXCEPT !.mdn[Uid] = "hidden"] /\ notices.mdn[Uid] = None /\ Uid \in PanelUids
      BY <1>4, <2>1 DEF IgnoreReceipt, MdnBanner
    <3>2. notices' = [notices EXCEPT !.mdn = [notices.mdn EXCEPT ![Uid] = "hidden"]]
      BY <3>1
    <3>3. [notices.mdn EXCEPT ![Uid] = "hidden"] \in [PanelUids -> {None, "hidden", "sent"}]
      BY <1>2 DEF Notices
    <3>4. notices' \in Notices /\ notices'.busy = notices.busy
          /\ notices'.mdn = [notices.mdn EXCEPT ![Uid] = "hidden"]
      BY <1>2, <3>2, <3>3 DEF Notices
    <3>5. notices.mdn \in [PanelUids -> {None, "hidden", "sent"}] /\ \A m \in PanelMails : UidOf[m] \in PanelUids
      BY <1>2 DEF Notices, PanelUids
    <3> QED
      BY <3>1, <3>4, <3>5, PanelAssumption
  <2>2. CASE Unsubscribe
    <3>1. notices' = [notices EXCEPT !.unsub = [notices.unsub EXCEPT ![Uid] = "busy"]] /\ Uid \in PanelUids
      BY <1>4, <2>2 DEF Unsubscribe
    <3>2. [notices.unsub EXCEPT ![Uid] = "busy"] \in [PanelUids -> {None, "busy", "done"}]
      BY <1>2, <3>1 DEF Notices
    <3> QED
      BY <1>2, <3>1, <3>2 DEF Notices
  <2>3. CASE AttDownload \/ AskBlock \/ \E yes \in BOOLEAN : PanelAnswered(yes)
    BY <1>2, <2>3 DEF AttDownload, AskBlock, PanelAnswered
  <2> QED
    BY <2>1, <2>2, <2>3
<1>6. panelAsk' \in Asks \cup {None}
  BY <1>2, <1>4 DEF IgnoreReceipt, Unsubscribe, AttDownload, AskBlock, PanelAnswered, Asks
<1>7. UNCHANGED panelCalls \/ SentUnwatched
  <2>1. ASSUME NEW op \in {"unsubscribe", "download", "block"}, NEW m \in PanelMails,
               NEW arg \in {None, "checked", "unchecked"}, SendPanel(op, m, arg)
        PROVE  SentUnwatched
    <3>1. m \in SomeMail
      BY DEF SomeMail
    <3>2. op \in Unwatched /\ op # "label"
      BY DEF Unwatched, PanelOps, OfMail, LoadKinds
    <3> QED
      BY <2>1, <3>1, <3>2, SendingIt
  <2>2. panelAsk # None => panelAsk.mail \in PanelMails
    BY <1>2 DEF Asks
  <2>3. CASE IgnoreReceipt \/ AskBlock
    BY <2>3 DEF IgnoreReceipt, AskBlock
  <2>4. CASE Unsubscribe \/ AttDownload
    BY <1>4, <2>1, <2>4 DEF Unsubscribe, AttDownload
  <2>5. ASSUME NEW yes \in BOOLEAN, PanelAnswered(yes)
        PROVE  UNCHANGED panelCalls \/ SentUnwatched
    BY <2>1, <2>2, <2>5 DEF PanelAnswered
  <2> QED
    BY <2>3, <2>4, <2>5
<1> QED
  BY <1>1, <1>3, <1>5, <1>6, <1>7, SendsKeep, PanelTyped DEF WarmBounded

\* Labels, the mails waiting to be sent, and bodies asked for beforehand.
LEMMA LabelsKeep ==
  ASSUME PanelInv, UNCHANGED failures,
         \/ SetLabel \/ CreateLabel \/ DeleteLabel \/ SaveLabelEdit \/ FilterByLabel
         \/ \E on \in BOOLEAN : EditLabel(on)
  PROVE  PanelInv'
<1>1. /\ PanelTypeOK /\ PicturesAllowed /\ WarmBounded
  BY DEF PanelInv
<1>2. /\ pane \in Panes /\ tags \in [known: BOOLEAN, editing: BOOLEAN, filter: BOOLEAN, of: Labels]
      /\ None \in SomeMail /\ (Reading => pane.mail \in PanelMails /\ pane.mail \in SomeMail)
  BY <1>1 DEF PanelTypeOK, Reading, Panes, SomeMail
<1>3. UNCHANGED <<notices, panelAsk, later, where, loads, warm, panelServer, given>>
  BY DEF SetLabel, CreateLabel, DeleteLabel, SaveLabelEdit, LabelRequest, FilterByLabel, EditLabel
<1>4. CASE SetLabel
  <2>1. /\ pane.mail \in PanelMails /\ tags' = [tags EXCEPT !.of[pane.mail] = ~tags.of[pane.mail]]
        /\ pane' = [pane EXCEPT !.saved = FALSE] /\ SendPanel("label", pane.mail, ~tags.of[pane.mail])
    BY <1>2, <1>4 DEF SetLabel, Tagged
  <2>2. tags.of \in [PanelMails -> BOOLEAN]
    BY <1>2 DEF Labels
  <2>3. [tags.of EXCEPT ![pane.mail] = ~tags.of[pane.mail]] \in Labels
    BY <2>1, <2>2 DEF Labels
  <2>4. tags' \in [known: BOOLEAN, editing: BOOLEAN, filter: BOOLEAN, of: Labels]
    BY <1>2, <2>1, <2>3
  <2>5. pane' \in Panes /\ PicturesAllowed'
    BY <1>1, <1>2, <2>1 DEF Panes, PicturesAllowed
  <2>6. "label" \in Unwatched
    BY DEF Unwatched, PanelOps, OfMail, LoadKinds
  <2>7. pane.mail \in SomeMail /\ (~tags.of[pane.mail]) \in BOOLEAN
    BY <2>1, <2>2 DEF SomeMail
  <2>8. SentUnwatched
    BY <2>1, <2>6, <2>7 DEF SentUnwatched
  <2> QED
    BY <1>1, <1>3, <2>4, <2>5, <2>8, SendsKeep, PanelTyped DEF WarmBounded
<1>5. CASE CreateLabel \/ DeleteLabel \/ SaveLabelEdit
  <2>1. /\ UNCHANGED <<pane, tags>>
        /\ \E op \in {"createLabel", "deleteLabel", "editLabel"} : SendPanel(op, None, None)
    BY <1>5 DEF CreateLabel, DeleteLabel, SaveLabelEdit, LabelRequest
  <2>2. \A op \in {"createLabel", "deleteLabel", "editLabel"} : op \in Unwatched /\ op \notin OfMail /\ op # "label"
    BY DEF Unwatched, PanelOps, OfMail, LoadKinds
  <2>3. SentUnwatched
    BY <1>2, <2>1, <2>2 DEF SentUnwatched
  <2>4. PicturesAllowed'
    BY <1>1, <2>1 DEF PicturesAllowed
  <2> QED
    BY <1>1, <1>3, <2>1, <2>3, <2>4, SendsKeep, PanelTyped DEF WarmBounded
<1>6. CASE FilterByLabel \/ \E on \in BOOLEAN : EditLabel(on)
  <2>1. UNCHANGED <<pane, panelCalls>>
    BY <1>6 DEF FilterByLabel, EditLabel
  <2>2. tags' \in [known: BOOLEAN, editing: BOOLEAN, filter: BOOLEAN, of: Labels]
    BY <1>2, <1>6 DEF FilterByLabel, EditLabel
  <2>3. PicturesAllowed'
    BY <1>1, <2>1 DEF PicturesAllowed
  <2> QED
    BY <1>1, <1>3, <2>1, <2>2, <2>3, SendsKeep, PanelTyped DEF WarmBounded
<1> QED
  BY <1>4, <1>5, <1>6

LEMMA LaterKeeps ==
  ASSUME PanelInv, UNCHANGED failures,
         \/ OpenScheduled \/ CloseScheduled \/ \E s \in later.rows : CancelScheduled(s)
         \/ \E m \in PanelMails : PrefetchMsg(m)
  PROVE  PanelInv'
<1>1. /\ PanelTypeOK /\ PicturesAllowed /\ WarmBounded
  BY DEF PanelInv
<1>2. /\ later \in [open: BOOLEAN, rows: SUBSET {1}] /\ warm \in Seq(PanelMails) /\ Len(warm) <= Warm
      /\ None \in SomeMail
  BY <1>1 DEF PanelTypeOK, WarmBounded, SomeMail
<1>3. UNCHANGED <<pane, notices, tags, panelAsk, where, loads, panelServer, given>> /\ PicturesAllowed'
  BY <1>1 DEF OpenScheduled, CloseScheduled, CancelScheduled, PrefetchMsg, PicturesAllowed
<1>4. \A op \in {"scheduled", "cancel"} : op \in Unwatched /\ op \notin OfMail /\ op # "label"
  BY DEF Unwatched, PanelOps, OfMail, LoadKinds
<1>5. CASE OpenScheduled \/ CloseScheduled \/ \E s \in later.rows : CancelScheduled(s)
  <2>1. later' \in [open: BOOLEAN, rows: SUBSET {1}] /\ warm' = warm
    BY <1>2, <1>5 DEF OpenScheduled, CloseScheduled, CancelScheduled
  <2>2. UNCHANGED panelCalls \/ SendPanel("scheduled", None, None) \/ SendPanel("cancel", None, 1)
    BY <1>2, <1>5 DEF OpenScheduled, CloseScheduled, CancelScheduled
  <2>3. UNCHANGED panelCalls \/ SentUnwatched
    BY <1>2, <1>4, <2>2 DEF SentUnwatched
  <2> QED
    BY <1>2, <1>3, <2>1, <2>3, SendsKeep, PanelTyped
<1>6. ASSUME NEW m \in PanelMails, PrefetchMsg(m)
      PROVE  PanelInv'
  <2> DEFINE longer == Append(warm, m)
  <2>1. warm' = (IF Len(longer) > Warm THEN Tail(longer) ELSE longer) /\ SendPanel("prefetch", m, None) /\ later' = later
    BY <1>6 DEF PrefetchMsg
  <2>2. longer \in Seq(PanelMails) /\ Len(longer) = Len(warm) + 1 /\ Len(warm) \in Nat
    BY <1>2
  <2> HIDE DEF longer
  <2>3. Tail(longer) \in Seq(PanelMails) /\ Len(Tail(longer)) = Len(warm)
    BY <2>2
  <2>4. warm' \in Seq(PanelMails) /\ Len(warm') <= Warm
    BY <1>2, <2>1, <2>2, <2>3, PanelAssumption
  <2>5. "prefetch" \in Unwatched /\ m \in SomeMail
    BY DEF Unwatched, PanelOps, OfMail, LoadKinds, SomeMail
  <2>6. SentUnwatched
    BY <2>1, <2>5 DEF SentUnwatched
  <2> QED
    BY <1>2, <1>3, <2>1, <2>4, <2>6, SendsKeep, PanelTyped
<1> QED
  BY <1>5, <1>6

\* Asking for a receipt: none was sent for this mail, unless a request failed.
LEMMA ReceiptAsked ==
  ASSUME PanelInv, UNCHANGED failures, SendReadReceipt
  PROVE  PanelInv'
<1> DEFINE new == PanelCall("receipt", pane.mail, None)
<1>1. /\ pane.mail \in PanelMails /\ ~notices.busy /\ notices.mdn[UidOf[pane.mail]] # "sent"
      /\ notices' = [notices EXCEPT !.busy = TRUE] /\ panelCalls' = panelCalls \cup {new}
      /\ UNCHANGED <<pane, tags, panelAsk, later, where, loads, warm, panelServer, given>>
  <2>1. pane \in Panes
    BY PanelTyped
  <2> QED
    BY <2>1, PanelAssumption DEF SendReadReceipt, MdnBanner, Reading, Uid, SendPanel, Panes, SomeMail
<1>2. PanelCallOK(new) /\ new.op = "receipt" /\ new.stage = "sent" /\ new.mail = pane.mail
  BY <1>1 DEF PanelCall, PanelCallOK, OfMail, SomeMail, LoadKinds
<1> HIDE DEF new
<1>3. notices \in Notices
  BY PanelTyped
<1>4. notices' \in Notices /\ notices'.busy /\ notices'.mdn = notices.mdn
  BY <1>1, <1>3 DEF Notices
<1>5. PanelTypeOK'
  BY <1>1, <1>2, <1>4, PanelTyped DEF PanelTypeOK
<1>6. /\ NoVirusAsClean' /\ ScansHold' /\ OneLoad' /\ LoadsNoted' /\ ReceiptOnce'
  <2>1. CallsFit /\ new.op \notin LoadKinds /\ new.stage # "clean"
    BY <1>2 DEF PanelInv, LoadKinds
  <2>2. NoVirusAsClean' /\ ReceiptOnce'
    BY <1>1, <2>1 DEF CallsFit, NoVirusAsClean, ReceiptOnce
  <2>3. ScansHold'
    BY <1>1, <2>1 DEF CallsFit, ScansHold
  <2>4. OneLoad'
    BY <1>1, <2>1 DEF CallsFit, OneLoad
  <2>5. LoadsNoted'
    BY <1>1, <2>1 DEF CallsFit, LoadsNoted
  <2> QED
    BY <2>2, <2>3, <2>4, <2>5
<1>7. ASSUME failures = 0 PROVE ReceiptsKnown'
  <2>1. ReceiptsKnown
    BY <1>7 DEF PanelInv, CallsFit
  <2>2. \A c \in panelCalls : c.op # "receipt"
    BY <1>1, <2>1 DEF ReceiptsKnown
  <2>3. pane.mail \notin given.receipts
    BY <1>1, <2>1, <2>2 DEF ReceiptsKnown
  <2>4. \A m \in given.receipts : notices.mdn[UidOf[m]] = "sent"
    BY <2>1, <2>2 DEF ReceiptsKnown
  <2> QED
    BY <1>1, <1>2, <1>4, <2>2, <2>3, <2>4 DEF ReceiptsKnown
<1> QED
  BY <1>1, <1>5, <1>6, <1>7 DEF PanelInv, PicturesAllowed, WarmBounded, CallsFit

\* The effects that load in the background, whichever of them run.
LEMMA EffectsFit ==
  ASSUME PanelInv, failures' \in Nat, failures <= failures',
         NEW ks \in SUBSET LoadKinds, NEW spot \in Places, NEW at \in Loads, NEW kept \in SUBSET panelCalls,
         \A c \in kept : c.op \in LoadKinds => c.arg \in at[c.op].busy,
         \A c \in panelCalls : c.op \notin LoadKinds => c \in kept,
         EffectsRun(ks, spot, at, kept), UNCHANGED <<notices, panelServer, given>>
  PROVE  where' \in Places /\ loads' \in Loads /\ (\A c \in panelCalls' : PanelCallOK(c)) /\ CallsFit'
<1> DEFINE starting == {k \in ks : Starts(k, spot, at)}
           Left(c) == IF c.op \in ks THEN [c EXCEPT !.mine = FALSE] ELSE c
           New1(k) == PanelCall(k, None, spot.acc)
<1>1. /\ where' = spot
      /\ panelCalls' = {Left(c) : c \in kept} \cup {New1(k) : k \in starting}
      /\ loads' = [k \in LoadKinds |-> IF k \in starting THEN [at[k] EXCEPT !.busy = @ \cup {spot.acc}] ELSE at[k]]
  BY DEF EffectsRun
<1>2. spot.acc \in PanelAccounts /\ \A k \in LoadKinds : at[k] \in [done: SUBSET PanelAccounts, busy: SUBSET PanelAccounts]
  BY DEF Places, Loads
<1>3. \A k \in starting : k \in LoadKinds /\ spot.acc \notin at[k].busy
  BY DEF Starts
<1>4. ASSUME NEW c \in kept
      PROVE  /\ PanelCallOK(Left(c)) /\ Left(c).op = c.op /\ Left(c).arg = c.arg
             /\ Left(c).mail = c.mail /\ Left(c).stage = c.stage
             /\ (c.op \notin LoadKinds => Left(c) = c)
  <2>1. PanelCallOK(c)
    BY PanelTyped
  <2>2. CASE c.op \in ks
    BY <2>1, <2>2 DEF PanelCallOK
  <2>3. CASE c.op \notin ks
    BY <2>1, <2>3 DEF PanelCallOK
  <2> QED
    BY <2>2, <2>3
<1>5. ASSUME NEW k \in starting
      PROVE  /\ PanelCallOK(New1(k)) /\ New1(k).op = k /\ New1(k).arg = spot.acc /\ New1(k).stage = "sent"
  <2>1. k \in LoadKinds /\ k \notin OfMail /\ k # "label"
    BY <1>3 DEF LoadKinds, OfMail
  <2> QED
    BY <1>2, <2>1 DEF PanelCall, PanelCallOK, SomeMail
<1>6. /\ loads' \in Loads
      /\ \A k \in LoadKinds : /\ at[k].busy \subseteq loads'[k].busy
                              /\ k \in starting => spot.acc \in loads'[k].busy
  BY <1>1, <1>2, <1>3 DEF Loads
<1> HIDE DEF starting, Left, New1
<1>7. \A e \in panelCalls' : PanelCallOK(e)
  BY <1>1, <1>4, <1>5
<1>8. OneLoad'
  <2>1. OneLoad
    BY DEF PanelInv, CallsFit
  <2>2. ASSUME NEW d \in panelCalls', NEW e \in panelCalls', d.op \in LoadKinds, d.op = e.op, d.arg = e.arg
        PROVE  d = e
    <3>1. CASE (\E c \in kept : d = Left(c)) /\ (\E c \in kept : e = Left(c))
      BY <1>4, <2>1, <2>2, <3>1 DEF OneLoad
    <3>2. CASE (\E k \in starting : d = New1(k)) /\ (\E k \in starting : e = New1(k))
      BY <1>5, <2>2, <3>2
    <3>3. ASSUME NEW c \in kept, NEW k \in starting, c.op = k, c.arg = spot.acc PROVE FALSE
      BY <1>3, <3>3
    <3> QED
      BY <1>1, <1>4, <1>5, <2>2, <3>1, <3>2, <3>3
  <2> QED
    BY <2>2 DEF OneLoad
<1>9. LoadsNoted'
  BY <1>1, <1>3, <1>4, <1>5, <1>6 DEF LoadsNoted
<1>10. ScansHold'
  BY <1>1, <1>4, <1>5 DEF PanelInv, CallsFit, ScansHold
<1>11. NoVirusAsClean' /\ ReceiptOnce' /\ failures \in Nat
  BY DEF PanelInv, CallsFit, NoVirusAsClean, ReceiptOnce
<1>12. ASSUME failures' = 0 PROVE ReceiptsKnown'
  <2>1. ReceiptsKnown
    BY <1>11, <1>12 DEF PanelInv, CallsFit
  <2>2. "receipt" \notin LoadKinds
    BY DEF LoadKinds
  <2>3. \A e \in panelCalls' : e.op = "receipt" => e \in panelCalls
    BY <1>1, <1>3, <1>4, <1>5, <2>2
  <2>4. \A c \in panelCalls : c.op = "receipt" => c \in panelCalls'
    BY <1>1, <1>4, <2>2
  <2> QED
    BY <2>1, <2>3, <2>4 DEF ReceiptsKnown
<1> QED
  BY <1>1, <1>6, <1>7, <1>8, <1>9, <1>10, <1>11, <1>12 DEF CallsFit

LEMMA LoadsKeep ==
  ASSUME PanelInv, failures' \in Nat, failures <= failures',
         \/ ToggleConversations \/ \E a \in PanelAccounts : SelectAccount(a) \/ FoldersCome(a)
         \/ \E c \in panelCalls, ok \in BOOLEAN : LoadEnds(c, ok)
  PROVE  PanelInv'
<1>1. /\ UNCHANGED <<notices, tags, panelAsk, later, warm, panelServer, given>>
      /\ pane' \in {pane, [pane EXCEPT !.mail = None, !.saved = FALSE]}
  BY DEF ToggleConversations, SelectAccount, FoldersCome, LoadEnds
<1>2. pane' \in Panes /\ PicturesAllowed'
  <2>1. pane \in Panes
    BY PanelTyped
  <2> QED
    BY <1>1, <2>1 DEF Panes, SomeMail, PanelInv, PicturesAllowed
<1>3. where \in Places /\ loads \in Loads /\ LoadsNoted /\ \A c \in panelCalls : PanelCallOK(c)
  BY PanelTyped DEF PanelInv, CallsFit
<1>4. where' \in Places /\ loads' \in Loads /\ (\A c \in panelCalls' : PanelCallOK(c)) /\ CallsFit'
  <2>1. ASSUME NEW ks \in SUBSET LoadKinds, NEW spot \in Places, EffectsRun(ks, spot, loads, panelCalls)
        PROVE  <1>4!:
    BY <1>1, <1>3, <2>1, EffectsFit DEF LoadsNoted
  <2>2. CASE ToggleConversations
    <3>1. [where EXCEPT !.conversations = ~@] \in Places
      BY <1>3 DEF Places
    <3> QED
      BY <2>1, <2>2, <3>1 DEF ToggleConversations
  <2>3. ASSUME NEW a \in PanelAccounts, SelectAccount(a)
        PROVE  <1>4!:
    <3>1. [where EXCEPT !.acc = a] \in Places
      BY <1>3 DEF Places
    <3> QED
      BY <2>1, <2>3, <3>1 DEF SelectAccount
  <2>4. ASSUME NEW a \in PanelAccounts, FoldersCome(a)
        PROVE  <1>4!:
    <3>1. [where EXCEPT !.folders = @ \cup {a}] \in Places
      BY <1>3 DEF Places
    <3>2. {"sent"} \in SUBSET LoadKinds
      BY DEF LoadKinds
    <3> QED
      BY <2>1, <2>4, <3>1, <3>2 DEF FoldersCome
  <2>5. ASSUME NEW c \in panelCalls, NEW ok \in BOOLEAN, LoadEnds(c, ok)
        PROVE  <1>4!:
    <3> DEFINE freed == [loads EXCEPT ![c.op].busy = @ \ {c.arg}]
               ended == [freed EXCEPT ![c.op].done = @ \cup {c.arg}]
    <3>1. /\ c.op \in LoadKinds /\ c.arg \in PanelAccounts
          /\ \/ c.mine /\ EffectsRun({c.op}, where, ended, panelCalls \ {c})
             \/ where' = where /\ loads' = freed /\ panelCalls' = panelCalls \ {c}
      BY <1>3, <2>5 DEF LoadEnds, PanelCallOK
    <3>2. /\ freed \in Loads /\ ended \in Loads
          /\ \A k \in LoadKinds : /\ ended[k].busy = freed[k].busy
                                  /\ freed[k].busy = IF k = c.op THEN loads[k].busy \ {c.arg} ELSE loads[k].busy
      BY <1>3, <3>1 DEF Loads
    <3> HIDE DEF freed, ended
    <3>3. \A d \in panelCalls \ {c} : d.op \in LoadKinds => d.arg \in freed[d.op].busy /\ d.arg \in ended[d.op].busy
      <4>1. OneLoad
        BY DEF PanelInv, CallsFit
      <4> QED
        BY <1>3, <3>1, <3>2, <4>1 DEF OneLoad, LoadsNoted
    <3>4. CASE EffectsRun({c.op}, where, ended, panelCalls \ {c})
      <4> DEFINE rest == panelCalls \ {c}
      <4>1. rest \subseteq panelCalls /\ (\A d \in panelCalls : d.op \notin LoadKinds => d \in rest)
            /\ (\A d \in rest : d.op \in LoadKinds => d.arg \in ended[d.op].busy) /\ {c.op} \subseteq LoadKinds
            /\ EffectsRun({c.op}, where, ended, rest)
        BY <3>1, <3>3, <3>4
      <4> HIDE DEF rest
      <4> QED
        BY <1>1, <1>3, <3>2, <4>1, EffectsFit
    <3>5. CASE where' = where /\ loads' = freed /\ panelCalls' = panelCalls \ {c}
      <4>1. (\A d \in panelCalls' : PanelCallOK(d)) /\ loads' \in Loads /\ where' \in Places
        BY <1>3, <3>2, <3>5
      <4>2. CallsFit /\ failures \in Nat
        BY DEF PanelInv
      <4>3. NoVirusAsClean' /\ ScansHold' /\ OneLoad' /\ ReceiptOnce'
        BY <1>1, <3>5, <4>2 DEF CallsFit, NoVirusAsClean, ScansHold, OneLoad, ReceiptOnce
      <4>4. LoadsNoted'
        BY <3>3, <3>5 DEF LoadsNoted
      <4>5. c.op # "receipt"
        BY <3>1 DEF LoadKinds
      <4>6. failures' = 0 => ReceiptsKnown'
        BY <1>1, <3>5, <4>2, <4>5 DEF CallsFit, ReceiptsKnown
      <4> QED
        BY <4>1, <4>3, <4>4, <4>6 DEF CallsFit
    <3> QED
      BY <3>1, <3>4, <3>5
  <2> QED
    BY <2>2, <2>3, <2>4, <2>5
<1> QED
  BY <1>1, <1>2, <1>4, PanelTyped DEF PanelInv, PanelTypeOK, WarmBounded

\* What the server does with a request; a scan it can make is right.
LEMMA ServerDoesKeeps ==
  ASSUME PanelInv, UNCHANGED failures, ScannerChanges \/ \E c \in panelCalls : PanelServerDoes(c)
  PROVE  PanelInv'
<1>1. /\ UNCHANGED <<pane, notices, tags, panelAsk, later, where, loads, warm>>
      /\ panelServer \in PanelServers /\ given \in Gifts /\ failures \in Nat
  BY PanelTyped DEF ScannerChanges, PanelServerDoes, PanelInv
<1>2. SUFFICES /\ panelServer' \in PanelServers /\ given' \in Gifts /\ CallsFit'
               /\ \A c \in panelCalls' : PanelCallOK(c)
  BY <1>1 DEF PanelInv, PanelTypeOK, PicturesAllowed, WarmBounded
<1>3. CASE ScannerChanges
  <2>1. /\ UNCHANGED <<panelCalls, given>> /\ panelServer' = [panelServer EXCEPT !.scanner = ~panelServer.scanner]
    BY <1>3 DEF ScannerChanges
  <2>2. panelServer' \in PanelServers /\ panelServer'.infected = panelServer.infected
    BY <1>1, <2>1 DEF PanelServers
  <2>3. CallsFit'
    <3>1. NoVirusAsClean'
      BY <2>1, <2>2 DEF PanelInv, CallsFit, NoVirusAsClean
    <3> QED
      BY <1>1, <2>1, <2>2, <3>1, OthersKeep
  <2> QED
    BY <1>1, <2>1, <2>2, <2>3, PanelTyped
<1>4. ASSUME NEW c \in panelCalls, PanelServerDoes(c)
      PROVE  /\ panelServer' \in PanelServers /\ given' \in Gifts /\ CallsFit'
             /\ \A d \in panelCalls' : PanelCallOK(d)
  <2> DEFINE stage == IF c.op = "download" THEN Scanned(c) ELSE "done"
             new == [c EXCEPT !.stage = stage]
  <2>1. /\ c.stage = "sent" /\ c.op \in {"label", "createLabel", "deleteLabel", "receipt", "cancel", "download"}
        /\ panelCalls' = (panelCalls \ {c}) \cup {new} /\ PanelCallOK(c)
    BY <1>4, PanelTyped DEF PanelServerDoes
  <2>2. /\ stage \in PanelStages /\ (c.op # "download" => stage = "done")
        /\ stage = "clean" => c.mail \notin panelServer.infected
    BY DEF Scanned, PanelStages
  <2>3. panelServer' \in PanelServers /\ panelServer'.infected = panelServer.infected
    <3>1. CASE c.op = "label"
      <4>1. panelServer' = [panelServer EXCEPT !.of = [panelServer.of EXCEPT ![c.mail] = c.arg]]
        BY <1>4, <3>1 DEF PanelServerDoes
      <4>2. [panelServer.of EXCEPT ![c.mail] = c.arg] \in Labels
        BY <1>1, <2>1, <3>1 DEF PanelServers, Labels, PanelCallOK
      <4> QED
        BY <1>1, <4>1, <4>2 DEF PanelServers
    <3>2. CASE c.op \in {"createLabel", "deleteLabel", "cancel", "receipt"}
      BY <1>1, <1>4, <3>2 DEF PanelServerDoes, PanelServers
    <3>3. CASE c.op = "download"
      <4>1. \/ panelServer' = panelServer
            \/ panelServer' = [panelServer EXCEPT !.found = panelServer.found \cup {c.mail}]
        BY <1>4, <3>3 DEF PanelServerDoes
      <4>2. c.mail \in PanelMails
        BY <2>1, <3>3 DEF PanelCallOK, OfMail
      <4> QED
        BY <1>1, <4>1, <4>2 DEF PanelServers
    <3> QED
      BY <2>1, <3>1, <3>2, <3>3
  <2>4. /\ given' = IF c.op = "receipt"
                    THEN [given EXCEPT !.receipts = @ \cup {c.mail}, !.twice = @ \/ c.mail \in given.receipts]
                    ELSE given
    BY <1>4 DEF PanelServerDoes
  <2>5. PanelCallOK(new) /\ new.op = c.op /\ new.mail = c.mail /\ new.stage = stage /\ new.arg = c.arg
    BY <2>1, <2>2 DEF PanelCallOK, PanelStages
  <2> HIDE DEF new, stage
  <2>6. \A d \in panelCalls' : PanelCallOK(d)
    BY <2>1, <2>5, PanelTyped
  <2>7. c.op \notin LoadKinds
    BY <2>1 DEF LoadKinds
  <2>8. CASE c.op # "receipt"
    <3>1. given' = given
      BY <2>4, <2>8
    <3>2. NoVirusAsClean'
      BY <2>3, <3>1 DEF PanelInv, CallsFit, NoVirusAsClean
    <3>3. \A d \in panelCalls' : \/ d \in panelCalls
                                 \/ /\ d.op \notin LoadKinds \cup {"receipt"}
                                    /\ d.mail \in panelServer.infected => d.stage # "clean"
      BY <2>1, <2>2, <2>5, <2>7, <2>8
    <3>4. \A d \in panelCalls : d.op = "receipt" => d \in panelCalls'
      BY <2>1, <2>8
    <3>5. CallsFit'
      BY <1>1, <2>3, <3>1, <3>2, <3>3, <3>4, OthersKeep
    <3> QED
      BY <1>1, <2>3, <2>6, <3>1, <3>5
  <2>9. CASE c.op = "receipt"
    <3>1. /\ given' = [given EXCEPT !.receipts = @ \cup {c.mail}, !.twice = @ \/ c.mail \in given.receipts]
          /\ c.mail \in PanelMails /\ stage = "done"
      BY <2>1, <2>2, <2>4, <2>9 DEF PanelCallOK, OfMail
    <3>2. /\ given' \in Gifts /\ given'.files = given.files /\ given'.receipts = given.receipts \cup {c.mail}
          /\ given'.twice => given.twice \/ c.mail \in given.receipts
      BY <1>1, <3>1 DEF Gifts
    <3>3. CallsFit
      BY DEF PanelInv
    <3>4. NoVirusAsClean' /\ LoadsNoted'
      BY <1>1, <2>1, <2>3, <2>5, <2>7, <3>2, <3>3 DEF CallsFit, NoVirusAsClean, LoadsNoted
    <3>5. ScansHold' /\ OneLoad'
      BY <1>1, <2>1, <2>2, <2>3, <2>5, <2>7, <3>1, <3>3 DEF CallsFit, ScansHold, OneLoad
    <3>6. failures = 0 => ReceiptsKnown /\ ~given.twice /\ c.mail \notin given.receipts
      BY <2>1, <2>9, <3>3 DEF CallsFit, ReceiptsKnown, ReceiptOnce
    <3>7. ReceiptOnce'
      <4>1. failures = 0 => ~given'.twice
        BY <3>2, <3>6
      <4> QED
        BY <1>1, <4>1 DEF ReceiptOnce
    <3>8. ASSUME failures = 0 PROVE ReceiptsKnown'
      <4>1. \A d \in panelCalls : d.op = "receipt" => d = c
        BY <2>9, <3>6, <3>8 DEF ReceiptsKnown
      <4>2. notices.busy
        BY <2>9, <3>6, <3>8 DEF ReceiptsKnown
      <4>3. \A d \in panelCalls' : d.op = "receipt" => d = new
        BY <2>1, <4>1
      <4>4. ASSUME NEW m \in given'.receipts
            PROVE  \/ notices.mdn[UidOf[m]] = "sent"
                   \/ \E d \in panelCalls' : d.op = "receipt" /\ d.stage = "done" /\ d.mail = m
        <5>1. CASE m = c.mail
          BY <2>1, <2>5, <2>9, <3>1, <5>1
        <5>2. CASE m \in given.receipts
          <6>1. \A d \in panelCalls : d.op = "receipt" => d.stage # "done"
            BY <2>1, <4>1
          <6> QED
            BY <3>6, <3>8, <5>2, <6>1 DEF ReceiptsKnown
        <5> QED
          BY <3>2, <5>1, <5>2
      <4> QED
        BY <1>1, <2>5, <3>1, <4>2, <4>3, <4>4 DEF ReceiptsKnown
    <3> QED
      BY <1>1, <2>3, <2>6, <3>2, <3>4, <3>5, <3>7, <3>8 DEF CallsFit
  <2> QED
    BY <2>8, <2>9
<1> QED
  BY <1>3, <1>4

\* Answers take their request away.  Receipts apart, nothing that is watched changes.
LEMMA AnswersTyped ==
  ASSUME PanelInv, NEW c \in panelCalls, PanelAnswers(c) \/ PanelFails(c)
  PROVE  /\ pane' \in Panes /\ PicturesAllowed' /\ notices' \in Notices
         /\ tags' \in [known: BOOLEAN, editing: BOOLEAN, filter: BOOLEAN, of: Labels]
         /\ later' \in [open: BOOLEAN, rows: SUBSET {1}] /\ warm' \in Seq(PanelMails) /\ WarmBounded'
<1>1. /\ pane \in Panes /\ notices \in Notices /\ panelServer \in PanelServers /\ PanelCallOK(c)
      /\ tags \in [known: BOOLEAN, editing: BOOLEAN, filter: BOOLEAN, of: Labels]
      /\ later \in [open: BOOLEAN, rows: SUBSET {1}] /\ warm \in Seq(PanelMails)
      /\ PicturesAllowed /\ WarmBounded
  BY PanelTyped DEF PanelInv
<1>2. c.op \in OfMail => c.mail \in PanelMails /\ UidOf[c.mail] \in PanelUids
  BY <1>1 DEF PanelCallOK, PanelUids
<1>3. pane' \in Panes /\ PicturesAllowed'
  <2>1. \/ pane' = pane
        \/ c.op = "translate" /\ pane' = [pane EXCEPT !.translated = c.mail, !.translating = FALSE]
        \/ c.op = "raw" /\ pane' = [pane EXCEPT !.raw = c.mail]
        \/ \E saved \in BOOLEAN : pane' = [pane EXCEPT !.saved = saved]
        \/ pane' = [pane EXCEPT !.mail = None, !.saved = FALSE]
        \/ pane' = [pane EXCEPT !.translating = FALSE]
    BY DEF PanelAnswers, PanelFails
  <2>2. c.mail \in SomeMail /\ None \in SomeMail
    BY <1>1 DEF PanelCallOK, SomeMail
  <2> QED
    BY <1>1, <2>1, <2>2 DEF Panes, PicturesAllowed
<1>4. notices' \in Notices
  <2>1. CASE c.op = "receipt"
    <3>1. \/ notices' = [notices EXCEPT !.busy = FALSE]
          \/ notices' = [notices EXCEPT !.mdn = [notices.mdn EXCEPT ![UidOf[c.mail]] = "sent"], !.busy = FALSE]
      BY <2>1 DEF PanelAnswers, PanelFails
    <3>2. [notices.mdn EXCEPT ![UidOf[c.mail]] = "sent"] \in [PanelUids -> {None, "hidden", "sent"}]
      BY <1>1 DEF Notices
    <3> QED
      BY <1>1, <3>1, <3>2 DEF Notices
  <2>2. CASE c.op = "unsubscribe"
    <3>1. \E s \in {"done", None} :
             notices' = [notices EXCEPT !.unsub = [notices.unsub EXCEPT ![UidOf[c.mail]] = s]]
      BY <2>2 DEF PanelAnswers, PanelFails
    <3>2. \A s \in {"done", None} :
             [notices.unsub EXCEPT ![UidOf[c.mail]] = s] \in [PanelUids -> {None, "busy", "done"}]
      BY <1>1 DEF Notices
    <3> QED
      BY <1>1, <3>1, <3>2 DEF Notices
  <2>3. CASE c.op \notin {"receipt", "unsubscribe"}
    BY <1>1, <2>3 DEF PanelAnswers, PanelFails
  <2> QED
    BY <2>1, <2>2, <2>3
<1>5. tags' \in [known: BOOLEAN, editing: BOOLEAN, filter: BOOLEAN, of: Labels]
  <2>1. CASE PanelAnswers(c)
    BY <1>1, <2>1 DEF PanelAnswers
  <2>2. CASE PanelFails(c) /\ c.op = "label"
    <3>1. tags' = [tags EXCEPT !.of = [tags.of EXCEPT ![c.mail] = ~c.arg]]
      BY <2>2 DEF PanelFails, Tagged
    <3>2. c.arg \in BOOLEAN
      BY <1>1, <2>2 DEF PanelCallOK
    <3>3. [tags.of EXCEPT ![c.mail] = ~c.arg] \in Labels
      BY <1>1, <3>2 DEF Labels
    <3> QED
      BY <1>1, <3>1, <3>3
  <2>3. CASE PanelFails(c) /\ c.op # "label"
    BY <1>1, <2>3 DEF PanelFails
  <2> QED
    BY <2>1, <2>2, <2>3
<1>6. later' \in [open: BOOLEAN, rows: SUBSET {1}]
  BY <1>1 DEF PanelAnswers, PanelFails, PanelServers
<1>7. warm' \in Seq(PanelMails) /\ WarmBounded'
  <2>1. warm' = warm \/ warm' = Without(warm, c.mail)
    BY DEF PanelAnswers, PanelFails, ColdAgain
  <2>2. Without(warm, c.mail) \in Seq(PanelMails) /\ Len(Without(warm, c.mail)) <= Len(warm)
    BY <1>1, WithoutFits
  <2>3. Len(warm) \in Nat /\ Len(Without(warm, c.mail)) \in Nat /\ Len(warm) <= Warm /\ Warm \in Nat
    BY <1>1, <2>2, PanelAssumption DEF WarmBounded
  <2> HIDE DEF Without
  <2> QED
    BY <1>1, <2>1, <2>2, <2>3 DEF WarmBounded
<1> QED
  BY <1>3, <1>4, <1>5, <1>6, <1>7

LEMMA AnswersKeep ==
  ASSUME PanelInv, NEW c \in panelCalls,
         \/ UNCHANGED failures /\ PanelAnswers(c)
         \/ failures' = failures + 1 /\ PanelFails(c)
  PROVE  PanelInv'
<1>1. /\ panelCalls' = panelCalls \ {c} /\ UNCHANGED <<panelAsk, where, loads, panelServer, given>>
  BY DEF PanelAnswers, PanelFails
<1>2. notices \in Notices /\ failures \in Nat /\ failures' \in Nat /\ failures <= failures' /\ given \in Gifts
  BY PanelTyped DEF PanelInv
<1>3. NoVirusAsClean'
  BY <1>1 DEF PanelInv, CallsFit, NoVirusAsClean
<1>4. CallsFit'
  <2>1. CASE failures' = failures + 1
    BY <1>1, <1>2, <1>3, <2>1, OthersKeep
  <2>2. CASE failures' = failures /\ PanelAnswers(c) /\ c.op # "receipt"
    <3>1. notices'.busy = notices.busy /\ notices'.mdn = notices.mdn
      <4>1. \/ notices' = notices
            \/ \E f : notices' = [notices EXCEPT !.unsub = f]
        BY <2>2 DEF PanelAnswers
      <4> QED
        BY <1>2, <4>1 DEF Notices
    <3> QED
      BY <1>1, <1>2, <1>3, <2>2, <3>1, OthersKeep
  <2>3. CASE failures' = failures /\ PanelAnswers(c) /\ c.op = "receipt"
    <3>1. /\ notices' = [notices EXCEPT !.mdn = [notices.mdn EXCEPT ![UidOf[c.mail]] = "sent"], !.busy = FALSE]
      BY <2>3 DEF PanelAnswers
    <3>2. /\ notices.mdn \in [PanelUids -> {None, "hidden", "sent"}]
          /\ notices'.mdn = [notices.mdn EXCEPT ![UidOf[c.mail]] = "sent"]
      BY <1>2, <3>1 DEF Notices
    <3>3. \A m \in PanelMails : UidOf[m] \in PanelUids
      BY DEF PanelUids
    <3>4. \A m \in PanelMails : notices.mdn[UidOf[m]] = "sent" \/ m = c.mail => notices'.mdn[UidOf[m]] = "sent"
      BY <3>2, <3>3
    <3>5. CallsFit
      BY DEF PanelInv
    <3>6. ScansHold' /\ OneLoad' /\ LoadsNoted' /\ ReceiptOnce'
      BY <1>1, <2>3, <3>5 DEF CallsFit, ScansHold, OneLoad, LoadsNoted, ReceiptOnce
    <3>7. ASSUME failures = 0 PROVE ReceiptsKnown'
      <4>1. ReceiptsKnown
        BY <3>5, <3>7 DEF CallsFit
      <4>2. \A d \in panelCalls' : d.op # "receipt"
        BY <1>1, <2>3, <4>1 DEF ReceiptsKnown
      <4>3. \A m \in given.receipts : m \in PanelMails
        BY <1>2 DEF Gifts
      <4>4. \A m \in given.receipts : notices'.mdn[UidOf[m]] = "sent"
        BY <2>3, <3>4, <4>1, <4>3 DEF ReceiptsKnown
      <4> QED
        BY <1>1, <4>2, <4>4 DEF ReceiptsKnown
    <3> QED
      BY <1>3, <2>3, <3>6, <3>7 DEF CallsFit
  <2> QED
    BY <1>2, <2>1, <2>2, <2>3
<1> QED
  BY <1>1, <1>2, <1>4, AnswersTyped, PanelTyped DEF PanelInv, PanelTypeOK

LEMMA DownloadKeeps ==
  ASSUME PanelInv, UNCHANGED failures, NEW c \in panelCalls, DownloadAnswer(c)
  PROVE  PanelInv'
<1>1. /\ c.op = "download" /\ panelCalls' = panelCalls \ {c}
      /\ panelAsk' = IF c.stage = "unavailable" THEN [op |-> "download", mail |-> c.mail] ELSE panelAsk
      /\ UNCHANGED <<pane, notices, tags, later, where, loads, warm, panelServer>>
  BY DEF DownloadAnswer
<1>2. c.mail \in PanelMails /\ given \in Gifts /\ panelAsk \in Asks \cup {None} /\ failures \in Nat
  BY <1>1, PanelTyped DEF PanelCallOK, OfMail, PanelInv
<1>3. panelAsk' \in Asks \cup {None}
  BY <1>1, <1>2 DEF Asks
<1>4. /\ given' \in Gifts /\ given'.receipts = given.receipts /\ given'.twice = given.twice
      /\ given'.files \subseteq given.files \cup {<<c.mail, c.stage>>}
      /\ given' = given \/ c.stage \in {"clean", "unchecked"}
  <2>1. CASE c.stage \in {"clean", "unchecked"}
    <3>1. given' = [given EXCEPT !.files = given.files \cup {<<c.mail, c.stage>>}]
      BY <2>1 DEF DownloadAnswer
    <3> QED
      BY <1>2, <2>1, <3>1 DEF Gifts
  <2>2. CASE c.stage \notin {"clean", "unchecked"}
    BY <1>2, <2>2 DEF DownloadAnswer
  <2> QED
    BY <2>1, <2>2
<1>5. NoVirusAsClean'
  BY <1>1, <1>4 DEF PanelInv, CallsFit, NoVirusAsClean, ScansHold
<1>6. CallsFit'
  BY <1>1, <1>2, <1>4, <1>5, OthersKeep
<1> QED
  BY <1>1, <1>2, <1>3, <1>4, <1>6, PanelTyped DEF PanelInv, PanelTypeOK, PicturesAllowed, WarmBounded

LEMMA PanelStarts ==
  ASSUME PanelInit, failures = 0
  PROVE  PanelInv
<1>1. PICK m \in PanelMails :
         panelServer = [known |-> TRUE, of |-> [n \in PanelMails |-> FALSE], waiting |-> {1},
                        scanner |-> TRUE, infected |-> {m}, found |-> {}]
  BY PanelAssumption DEF PanelInit, Beginning
<1>2. panelServer \in PanelServers
  BY <1>1 DEF PanelServers, Labels
<1>3. pane \in Panes /\ pane.images = None
  BY DEF PanelInit, NoPane, Panes, Folded, SomeMail
<1>4. /\ panelAsk = None /\ warm = <<>> /\ panelCalls = {} /\ given = [receipts |-> {}, twice |-> FALSE, files |-> {}]
      /\ notices \in Notices /\ later \in [open: BOOLEAN, rows: SUBSET {1}]
      /\ tags \in [known: BOOLEAN, editing: BOOLEAN, filter: BOOLEAN, of: Labels]
  BY DEF PanelInit, Notices, PanelUids, Labels
<1>5. where \in Places /\ loads \in Loads
  BY PanelAssumption DEF PanelInit, Places, Loads
<1>6. warm \in Seq(PanelMails) /\ Len(warm) = 0 /\ given \in Gifts
  BY <1>4 DEF Gifts
<1>7. PanelTypeOK
  BY <1>2, <1>3, <1>4, <1>5, <1>6 DEF PanelTypeOK
<1>8. CallsFit
  BY <1>4 DEF CallsFit, NoVirusAsClean, ScansHold, OneLoad, LoadsNoted, ReceiptOnce, ReceiptsKnown
<1> QED
  BY <1>3, <1>6, <1>7, <1>8, PanelAssumption DEF PanelInv, PicturesAllowed, WarmBounded

LEMMA PanelStep ==
  ASSUME PanelInv, Counted, PanelNext \/ UNCHANGED panelVars
  PROVE  PanelInv'
<1>1. failures \in Nat /\ failures' \in Nat /\ failures <= failures' /\ (failures' = failures \/ failures' = failures + 1)
  BY DEF PanelInv, Counted
<1>2. CASE ByUser(PanelUser)
  <2>1. PanelUser /\ UNCHANGED failures
    BY <1>2 DEF ByUser
  <2> QED
    BY <1>1, <2>1, ReadingKeeps, NoticesKeep, LabelsKeep, LaterKeeps, LoadsKeep, ReceiptAsked DEF PanelUser
<1>3. CASE ByFault(\E c \in panelCalls : PanelFails(c) \/ LoadEnds(c, FALSE))
  <2>1. failures' = failures + 1 /\ \E c \in panelCalls : PanelFails(c) \/ LoadEnds(c, FALSE)
    BY <1>3 DEF ByFault
  <2> QED
    BY <1>1, <2>1, AnswersKeep, LoadsKeep
<1>4. ASSUME UNCHANGED failures, CloseRaw \/ ScannerChanges \/ (\E yes \in BOOLEAN : PanelAnswered(yes))
                \/ (\E a \in PanelAccounts : FoldersCome(a))
                \/ \E c \in panelCalls : PanelServerDoes(c) \/ PanelAnswers(c)
                                         \/ DownloadAnswer(c) \/ LoadEnds(c, TRUE)
      PROVE PanelInv'
  BY <1>1, <1>4, ReadingKeeps, ServerDoesKeeps, NoticesKeep, LoadsKeep, AnswersKeep, DownloadKeeps
<1>5. CASE UNCHANGED panelVars
  <2>1. UNCHANGED <<pane, notices, tags, panelAsk, later, where, loads, warm, panelCalls, panelServer, given>>
    BY <1>5 DEF panelVars
  <2>2. NoVirusAsClean'
    BY <2>1 DEF PanelInv, CallsFit, NoVirusAsClean
  <2>3. CallsFit'
    BY <1>1, <2>1, <2>2, OthersKeep
  <2>4. PanelTypeOK'
    BY <2>1 DEF PanelInv, PanelTypeOK
  <2> QED
    BY <1>1, <2>1, <2>3, <2>4 DEF PanelInv, PicturesAllowed, WarmBounded
<1> QED
  BY <1>2, <1>3, <1>4, <1>5 DEF PanelNext, ByItself, baseVars
-----------------------------------------------------------------------------
(* MailSidebar: before the accounts have come nothing is selected and nothing  *)
(* else is under way; afterwards the answer about a quota that still counts is *)
(* the one about the account selected.                                         *)

NothingYet ==
    boxes.list = {} =>
        /\ place.acc = None /\ popup = None /\ ~unified.on /\ unified.rows = {}
        /\ \A c \in sideCalls : c.op \in {"accounts", "order"}
        /\ \A a \in Accounts : DOMAIN boxes.folders[a] = {}
QuotaAsked == \A c \in sideCalls : c.op = "quota" /\ c.mine => c.acc = place.acc
SideInv == SideTypeOK /\ NothingYet /\ QuotaAsked /\ QuotaOfAccount

LEMMA NewSideCall ==
  ASSUME NEW op \in SideOps, NEW a \in Accounts, NEW new, new = SideCall(op, a)
  PROVE  SideCallOK(new) /\ new.op = op /\ new.acc = a
<1>1. new = [op |-> op, acc |-> a, arg |-> None, seq |-> 0, mine |-> TRUE, done |-> FALSE,
             got |-> {}, order |-> <<>>]
  BY DEF SideCall
<1>2. new.op = op /\ new.acc = a /\ new.seq = 0 /\ new.mine /\ ~new.done /\ new.order = <<>>
  BY <1>1
<1>3. new.order \in Seq(Accounts) /\ new.mine \in BOOLEAN /\ new.done \in BOOLEAN /\ new.seq \in Nat
  BY <1>1
<1> QED
  BY <1>1, <1>2, <1>3 DEF SideCallOK

LEMMA SideCallArg ==
  ASSUME NEW e, SideCallOK(e), NEW x, NEW new, new = [e EXCEPT !.arg = x]
  PROVE  SideCallOK(new) /\ new.op = e.op /\ new.acc = e.acc
<1>1. new = [op |-> e.op, acc |-> e.acc, arg |-> x, seq |-> e.seq, mine |-> e.mine,
             done |-> e.done, got |-> e.got, order |-> e.order]
  BY DEF SideCallOK
<1>2. /\ new.op = e.op /\ new.acc = e.acc /\ new.seq = e.seq /\ new.mine = e.mine
      /\ new.done = e.done /\ new.order = e.order /\ new.arg = x /\ new.got = e.got
  BY <1>1
<1> QED
  BY <1>1, <1>2 DEF SideCallOK

LEMMA SideCallSeq ==
  ASSUME NEW e, SideCallOK(e), NEW x \in Nat, NEW new, new = [e EXCEPT !.seq = x]
  PROVE  SideCallOK(new) /\ new.op = e.op /\ new.acc = e.acc
<1>1. new = [op |-> e.op, acc |-> e.acc, arg |-> e.arg, seq |-> x, mine |-> e.mine,
             done |-> e.done, got |-> e.got, order |-> e.order]
  BY DEF SideCallOK
<1>2. /\ new.op = e.op /\ new.acc = e.acc /\ new.seq = x /\ new.mine = e.mine
      /\ new.done = e.done /\ new.order = e.order /\ new.arg = e.arg /\ new.got = e.got
  BY <1>1
<1> QED
  BY <1>1, <1>2 DEF SideCallOK

LEMMA SideCallMine ==
  ASSUME NEW e, SideCallOK(e), NEW x \in BOOLEAN, NEW new, new = [e EXCEPT !.mine = x]
  PROVE  SideCallOK(new) /\ new.op = e.op /\ new.acc = e.acc /\ new.mine = x
<1>1. new = [op |-> e.op, acc |-> e.acc, arg |-> e.arg, seq |-> e.seq, mine |-> x,
             done |-> e.done, got |-> e.got, order |-> e.order]
  BY DEF SideCallOK
<1>2. /\ new.op = e.op /\ new.acc = e.acc /\ new.seq = e.seq /\ new.mine = x
      /\ new.done = e.done /\ new.order = e.order /\ new.arg = e.arg /\ new.got = e.got
  BY <1>1
<1> QED
  BY <1>1, <1>2 DEF SideCallOK

LEMMA SideCallOld ==
  ASSUME NEW e, SideCallOK(e), NEW new,
         new = IF e.op = "quota" THEN [e EXCEPT !.mine = FALSE] ELSE e
  PROVE  SideCallOK(new) /\ new.op = e.op /\ new.acc = e.acc /\ ~(new.op = "quota" /\ new.mine)
<1>1. CASE e.op # "quota"
  BY <1>1
<1>2. CASE e.op = "quota"
  <2>1. PICK no : no = FALSE
    OBVIOUS
  <2>2. no \in BOOLEAN /\ ~no
    BY <2>1
  <2>3. new = [e EXCEPT !.mine = no]
    BY <1>2, <2>1
  <2> QED
    BY <2>2, <2>3, SideCallMine
<1> QED
  BY <1>1, <1>2

\* Asking for counts adds or renews one request about them.
LEMMA CountCallsFit ==
  ASSUME NEW a \in Accounts, boxes.seq \in [Accounts -> Nat], NEW live \in BOOLEAN, NEW cs,
         \A c \in cs : SideCallOK(c), NEW c \in CountCalls(a, live, cs)
  PROVE  SideCallOK(c) /\ (c \in cs \/ c.op \in {"count", "recount"})
<1>1. PICK op, next : op = (IF live THEN "recount" ELSE "count") /\ next = boxes.seq[a] + 1
  OBVIOUS
<1>2. next \in Nat /\ op \in {"count", "recount"}
  BY <1>1
<1>3. op \in SideOps
  BY <1>2 DEF SideOps
<1>4. CASE c \in cs
  BY <1>4
<1>5. CASE c \notin cs /\ \E d \in cs : d.op = op /\ d.acc = a
  <2>1. PICK d \in cs : d = CHOOSE x \in cs : x.op = op /\ x.acc = a
    BY <1>5
  <2>2. d.op = op
    BY <2>1, <1>5
  <2>3. c = [d EXCEPT !.seq = next]
    BY <1>1, <1>5, <2>1 DEF CountCalls
  <2>4. SideCallOK(c) /\ c.op = op
    BY <2>2, <2>3, <1>2, SideCallSeq
  <2> QED
    BY <2>4, <1>2
<1>6. CASE c \notin cs /\ ~\E d \in cs : d.op = op /\ d.acc = a
  <2>1. PICK new : new = SideCall(op, a)
    OBVIOUS
  <2>2. SideCallOK(new) /\ new.op = op
    BY <2>1, <1>3, NewSideCall
  <2>3. c = [new EXCEPT !.seq = next]
    BY <1>1, <1>6, <2>1 DEF CountCalls
  <2>4. SideCallOK(c) /\ c.op = op
    BY <2>2, <2>3, <1>2, SideCallSeq
  <2> QED
    BY <2>4, <1>2
<1> QED
  BY <1>4, <1>5, <1>6

BoxesOK ==
    /\ boxes = [list |-> boxes.list, order |-> boxes.order, seq |-> boxes.seq,
                folders |-> [a \in Accounts |-> boxes.folders[a]]]
    /\ boxes.list \in {{}, Accounts} /\ boxes.order \in Seq(Accounts)
    /\ boxes.seq \in [Accounts -> Nat]

LEMMA CountingFits ==
  ASSUME BoxesOK, NEW a \in Accounts, Counting(a)
  PROVE  BoxesOK' /\ boxes'.list = boxes.list /\ boxes'.folders = boxes.folders
<1>1. boxes' = [list |-> boxes.list, order |-> boxes.order,
                seq |-> [boxes.seq EXCEPT ![a] = @ + 1], folders |-> boxes.folders]
  BY DEF Counting, BoxesOK
<1>2. /\ boxes'.list = boxes.list /\ boxes'.order = boxes.order /\ boxes'.folders = boxes.folders
      /\ boxes'.seq = [boxes.seq EXCEPT ![a] = @ + 1]
  BY <1>1
<1>3. boxes'.seq \in [Accounts -> Nat]
  BY <1>2 DEF BoxesOK
<1>4. boxes.folders = [x \in Accounts |-> boxes.folders[x]]
  BY DEF BoxesOK
<1>5. boxes' = [list |-> boxes'.list, order |-> boxes'.order, seq |-> boxes'.seq,
                folders |-> [x \in Accounts |-> boxes'.folders[x]]]
  BY <1>1, <1>2, <1>4
<1> QED
  BY <1>2, <1>3, <1>5 DEF BoxesOK

\* SideInv in parts: what each action has to keep.
PopupOK ==
    popup # None =>
        /\ popup = [kind |-> popup.kind, op |-> popup.op, acc |-> popup.acc, path |-> popup.path]
        /\ popup.acc \in Accounts /\ (popup.kind = "dialog" => popup.op \in FolderOps)
PlaceOK == place = [acc |-> place.acc, path |-> place.path] /\ place.acc \in boxes.list \cup {None}
UnifiedOK == unified \in [on : BOOLEAN, loading : BOOLEAN, rows : {{}, Accounts},
                    wanted : Accounts \cup {None}, opened : Accounts \cup {None}]
BoxServerOK ==
    /\ boxServer = [live |-> boxServer.live, counted |-> boxServer.counted,
                    order |-> boxServer.order]
    /\ boxServer.order \in Seq(Accounts)
SideCallsOK == \A c \in sideCalls : SideCallOK(c)

LEMMA SideParts ==
  /\ SideInv <=> /\ BoxesOK /\ PlaceOK /\ PopupOK /\ UnifiedOK /\ quota \in Accounts \cup {None}
                 /\ SideCallsOK /\ BoxServerOK /\ NothingYet /\ QuotaAsked /\ QuotaOfAccount
  /\ SideInv' <=> /\ BoxesOK' /\ PlaceOK' /\ PopupOK' /\ UnifiedOK' /\ quota' \in Accounts \cup {None}
                  /\ SideCallsOK' /\ BoxServerOK' /\ NothingYet' /\ QuotaAsked' /\ QuotaOfAccount'
BY DEF SideInv, SideTypeOK, BoxesOK, PlaceOK, PopupOK, UnifiedOK, BoxServerOK, SideCallsOK

\* What holds is kept by what it is not about.
LEMMA BoxesStay ==
  ASSUME SideInv, boxes' = boxes
  PROVE  BoxesOK'
  BY SideParts DEF BoxesOK
LEMMA PlaceStays ==
  ASSUME SideInv, place' = place, boxes'.list = boxes.list
  PROVE  PlaceOK'
  BY SideParts DEF PlaceOK
LEMMA PopupStays ==
  ASSUME SideInv, popup' = popup \/ popup' = None
  PROVE  PopupOK'
  BY SideParts DEF PopupOK
LEMMA UnifiedStays ==
  ASSUME SideInv, unified' = unified
  PROVE  UnifiedOK'
  BY SideParts DEF UnifiedOK
LEMMA BoxServerStays ==
  ASSUME SideInv, boxServer' = boxServer
  PROVE  BoxServerOK'
  BY SideParts DEF BoxServerOK
LEMMA SideCallsFewer ==
  ASSUME SideInv, sideCalls' \subseteq sideCalls
  PROVE  SideCallsOK'
  BY SideParts DEF SideCallsOK
LEMMA AskedFewer ==
  ASSUME SideInv, place'.acc = place.acc, \A c \in sideCalls' : c \in sideCalls \/ c.op # "quota"
  PROVE  QuotaAsked'
  BY SideParts DEF QuotaAsked
LEMMA QuotaStays ==
  ASSUME SideInv, place'.acc = place.acc, quota' = quota
  PROVE  QuotaOfAccount'
  BY SideParts DEF QuotaOfAccount
\* Once the accounts are there, they stay.
LEMMA NoLongerNothing ==
  ASSUME boxes'.list # {}
  PROVE  NothingYet'
  BY DEF NothingYet

\* A step of the screen alone: accounts, folders, requests and place stand still.
LEMMA ScreenOnly ==
  ASSUME SideInv, boxes' = boxes, place' = place, quota' = quota, sideCalls' = sideCalls,
         boxServer' = boxServer, PopupOK', UnifiedOK', NothingYet'
  PROVE  SideInv'
<1>1. BoxesOK' /\ PlaceOK' /\ BoxServerOK' /\ SideCallsOK' /\ QuotaAsked' /\ QuotaOfAccount'
  BY BoxesStay, PlaceStays, BoxServerStays, SideCallsFewer, AskedFewer, QuotaStays
<1> QED
  BY <1>1, SideParts

LEMMA SideStart == SideInit => SideInv
<1> SUFFICES ASSUME SideInit PROVE SideInv
  OBVIOUS
<1>1. /\ boxes = [list |-> {}, order |-> <<>>, seq |-> [a \in Accounts |-> 0],
                  folders |-> [a \in Accounts |-> [p \in {} |-> None]]]
      /\ place = [acc |-> None, path |-> <<>>] /\ popup = None /\ quota = None
      /\ unified = [on |-> FALSE, loading |-> FALSE, rows |-> {}, wanted |-> None, opened |-> None]
      /\ sideCalls = {SideCall("accounts", FirstAccount), SideCall("order", FirstAccount)}
  BY DEF SideInit, Nowhere
<1>2. /\ boxes.list = {} /\ boxes.order = <<>> /\ boxes.seq = [a \in Accounts |-> 0]
      /\ boxes.folders = [a \in Accounts |-> [p \in {} |-> None]]
      /\ place.acc = None /\ place.path = <<>> /\ ~unified.on /\ unified.rows = {}
  BY <1>1
<1>3. BoxesOK
  <2>1. boxes.seq \in [Accounts -> Nat] /\ boxes.order \in Seq(Accounts)
    BY <1>2
  <2>2. boxes.folders = [a \in Accounts |-> boxes.folders[a]]
    BY <1>2
  <2> QED
    BY <1>1, <1>2, <2>1, <2>2 DEF BoxesOK
<1>4. PlaceOK /\ PopupOK /\ quota \in Accounts \cup {None} /\ QuotaOfAccount
  BY <1>1, <1>2 DEF PlaceOK, PopupOK, QuotaOfAccount
<1>5. UnifiedOK
  BY <1>1 DEF UnifiedOK
<1>6. \A c \in sideCalls : SideCallOK(c) /\ c.op \in {"accounts", "order"}
  <2>1. PICK x, y : x = SideCall("accounts", FirstAccount) /\ y = SideCall("order", FirstAccount)
    OBVIOUS
  <2>2. {"accounts", "order"} \subseteq SideOps
    BY DEF SideOps
  <2>3. SideCallOK(x) /\ x.op = "accounts" /\ SideCallOK(y) /\ y.op = "order"
    BY <2>1, <2>2, NewSideCall, SidebarAssumption
  <2> QED
    BY <1>1, <2>1, <2>3
<1>7. BoxServerOK
  <2>1. PICK l, k : boxServer = [live |-> l, counted |-> k, order |-> <<>>]
    BY DEF SideInit
  <2> QED
    BY <2>1 DEF BoxServerOK
<1>8. NothingYet /\ QuotaAsked
  BY <1>1, <1>2, <1>6 DEF NothingYet, QuotaAsked
<1> QED
  BY <1>3, <1>4, <1>5, <1>6, <1>7, <1>8, SideParts DEF SideCallsOK

\* Selecting an account: what was asked about the quota of another no longer counts.
LEMMA SelectFits ==
  ASSUME SideInv, NEW a \in Accounts, NEW p, NEW s, s = [acc |-> a, path |-> p],
         boxes.list = Accounts, SelectBox(s, sideCalls)
  PROVE  /\ BoxesOK' /\ boxes'.list = Accounts /\ PlaceOK' /\ quota' \in Accounts \cup {None}
         /\ SideCallsOK' /\ QuotaAsked' /\ QuotaOfAccount'
<1>0. s.acc = a /\ s.path = p /\ BoxesOK /\ quota \in Accounts \cup {None}
  BY SideParts
<1>1. place' = s
  BY DEF SelectBox
<1>2. place'.acc = a /\ place' = [acc |-> place'.acc, path |-> place'.path]
  BY <1>0, <1>1
<1>3. CASE a = place.acc
  <2>1. quota' = quota /\ boxes' = boxes /\ sideCalls' = sideCalls
    BY <1>0, <1>3 DEF SelectBox
  <2>2. place'.acc = place.acc
    BY <1>2, <1>3
  <2>3. BoxesOK' /\ SideCallsOK' /\ QuotaAsked' /\ QuotaOfAccount'
    BY <2>1, <2>2, BoxesStay, SideCallsFewer, AskedFewer, QuotaStays
  <2> QED
    BY <1>0, <1>2, <2>1, <2>3 DEF PlaceOK
<1>4. CASE a # place.acc
  <2>1. quota' = None /\ Counting(a)
    BY <1>0, <1>4 DEF SelectBox
  <2>2. PICK rest : rest = {IF c.op = "quota" THEN [c EXCEPT !.mine = FALSE] ELSE c : c \in sideCalls}
    OBVIOUS
  <2>3. PICK new : new = SideCall("quota", a)
    OBVIOUS
  <2>4. sideCalls' = CountCalls(a, FALSE, rest) \cup {new}
    BY <1>0, <1>4, <2>2, <2>3 DEF SelectBox
  <2>5. BoxesOK' /\ boxes'.list = boxes.list
    BY <1>0, <2>1, CountingFits
  <2>6. \A c \in rest : SideCallOK(c) /\ ~(c.op = "quota" /\ c.mine)
    BY <2>2, SideCallOld, SideParts DEF SideCallsOK
  <2>7. "quota" \in SideOps
    BY DEF SideOps
  <2>8. SideCallOK(new) /\ new.acc = a
    BY <2>3, <2>7, NewSideCall
  <2>9. ASSUME NEW c \in CountCalls(a, FALSE, rest) PROVE SideCallOK(c) /\ ~(c.op = "quota" /\ c.mine)
    <3>1. boxes.seq \in [Accounts -> Nat] /\ \A d \in rest : SideCallOK(d)
      BY <1>0, <2>6 DEF BoxesOK
    <3>2. SideCallOK(c) /\ (c \in rest \/ c.op \in {"count", "recount"})
      BY <3>1, CountCallsFit
    <3> QED
      BY <2>6, <3>2
  <2>10. SideCallsOK' /\ QuotaAsked'
    BY <1>2, <2>4, <2>8, <2>9 DEF SideCallsOK, QuotaAsked
  <2>11. QuotaOfAccount' /\ quota' \in Accounts \cup {None}
    BY <2>1 DEF QuotaOfAccount
  <2> QED
    BY <1>0, <1>2, <2>5, <2>10, <2>11 DEF PlaceOK
<1> QED
  BY <1>3, <1>4

\* With accounts in it, a list holds them all.
LEMMA AllThere ==
  ASSUME SideInv, boxes.list # {}
  PROVE  boxes.list = Accounts
  BY SideParts DEF BoxesOK

LEMMA ClickBoxFits ==
  ASSUME SideInv, NEW a \in Accounts, NEW p \in DOMAIN boxes.folders[a], ClickBox(a, p)
  PROVE  SideInv'
<1>1. boxes.list = Accounts
  BY SideParts, AllThere DEF NothingYet
<1>2. PICK s : s = [acc |-> a, path |-> p]
  OBVIOUS
<1>3. SelectBox(s, sideCalls) /\ popup' = popup /\ unified' = unified /\ boxServer' = boxServer
  BY <1>2 DEF ClickBox
<1>4. Accounts # {}
  BY SidebarAssumption
<1> QED
  BY <1>1, <1>2, <1>3, <1>4, SelectFits, PopupStays, UnifiedStays, BoxServerStays, NoLongerNothing, SideParts

LEMMA OpenUnifiedRowFits ==
  ASSUME SideInv, NEW a \in Accounts, OpenUnifiedRow(a)
  PROVE  SideInv'
<1>1. boxes.list = Accounts
  BY SideParts, AllThere DEF NothingYet, OpenUnifiedRow
<1>2. PICK s : s = [acc |-> a, path |-> Inbox]
  OBVIOUS
<1>3. SelectBox(s, sideCalls) /\ popup' = popup /\ boxServer' = boxServer
  BY <1>2 DEF OpenUnifiedRow
<1>4. Accounts # {}
  BY SidebarAssumption
<1>5. UnifiedOK'
  BY SideParts DEF OpenUnifiedRow, UnifiedOK
<1> QED
  BY <1>1, <1>2, <1>3, <1>4, <1>5, SelectFits, PopupStays, BoxServerStays, NoLongerNothing, SideParts

\* One more request about something else than the quota.
LEMMA OneMoreCall ==
  ASSUME SideInv, NEW new, SideCallOK(new), new.op # "quota", place' = place,
         sideCalls' = sideCalls \cup {new}
  PROVE  SideCallsOK' /\ QuotaAsked'
  BY SideParts DEF SideCallsOK, QuotaAsked

LEMMA RefreshFits ==
  ASSUME SideInv, NEW a \in Accounts, RefreshAccount(a)
  PROVE  SideInv'
<1>1. PICK new : new = SideCall("apply", a)
  OBVIOUS
<1>2. /\ sideCalls' = sideCalls \cup {new} /\ boxes' = boxes /\ place' = place /\ popup' = popup
      /\ unified' = unified /\ quota' = quota /\ boxServer' = boxServer /\ a \in boxes.list
  BY <1>1 DEF RefreshAccount
<1>3. "apply" \in SideOps /\ "apply" # "quota"
  BY DEF SideOps
<1>4. SideCallOK(new) /\ new.op # "quota"
  BY <1>1, <1>3, NewSideCall
<1>5. boxes'.list # {} /\ place'.acc = place.acc
  BY <1>2
<1> QED
  BY <1>2, <1>4, <1>5, OneMoreCall, BoxesStay, PlaceStays, PopupStays, UnifiedStays, QuotaStays,
     BoxServerStays, NoLongerNothing, SideParts

LEMMA LoadUnifiedFits ==
  ASSUME SideInv, NEW u, UnifiedOK, LoadUnified(u), boxes.list # {},
         u \in [on : BOOLEAN, loading : BOOLEAN, rows : {{}, Accounts},
                wanted : Accounts \cup {None}, opened : Accounts \cup {None}]
  PROVE  SideInv'
<1>1. PICK new : new = SideCall("unified", FirstAccount)
  OBVIOUS
<1>2. /\ unified' = [u EXCEPT !.loading = TRUE] /\ sideCalls' = sideCalls \cup {new}
      /\ boxes' = boxes /\ place' = place /\ popup' = popup /\ quota' = quota /\ boxServer' = boxServer
  BY <1>1 DEF LoadUnified, Unify
<1>3. "unified" \in SideOps /\ "unified" # "quota"
  BY DEF SideOps
<1>4. SideCallOK(new) /\ new.op # "quota"
  BY <1>1, <1>3, NewSideCall, SidebarAssumption
<1>5. boxes'.list # {} /\ place'.acc = place.acc
  BY <1>2
<1>6. UnifiedOK'
  BY <1>2 DEF UnifiedOK
<1> QED
  BY <1>2, <1>4, <1>5, <1>6, OneMoreCall, BoxesStay, PlaceStays, PopupStays, QuotaStays,
     BoxServerStays, NoLongerNothing, SideParts

\* The inbox of all accounts changes, and no request is added.
LEMMA UnifyFits ==
  ASSUME SideInv, NEW u, NEW cs, Unify(u, cs), boxes.list # {}, cs \subseteq sideCalls,
         u \in [on : BOOLEAN, loading : BOOLEAN, rows : {{}, Accounts},
                wanted : Accounts \cup {None}, opened : Accounts \cup {None}]
  PROVE  SideInv'
<1>1. /\ unified' = u /\ sideCalls' = cs
      /\ boxes' = boxes /\ place' = place /\ popup' = popup /\ quota' = quota /\ boxServer' = boxServer
  BY DEF Unify
<1>2. boxes'.list # {} /\ place'.acc = place.acc
  BY <1>1
<1>3. UnifiedOK'
  BY <1>1 DEF UnifiedOK
<1>4. QuotaAsked' /\ SideCallsOK'
  BY <1>1, <1>2, AskedFewer, SideCallsFewer
<1> QED
  BY <1>1, <1>2, <1>3, <1>4, BoxesStay, PlaceStays, PopupStays, QuotaStays,
     BoxServerStays, NoLongerNothing, SideParts

LEMMA ToggleUnifiedFits ==
  ASSUME SideInv, ToggleUnified \/ ReloadUnified \/ OpenWanted
  PROVE  SideInv'
<1>0. UnifiedOK /\ PlaceOK /\ unified \in [on : BOOLEAN, loading : BOOLEAN, rows : {{}, Accounts},
                wanted : Accounts \cup {None}, opened : Accounts \cup {None}]
  BY SideParts DEF UnifiedOK
<1>1. CASE ToggleUnified
  <2>1. boxes.list # {}
    BY <1>1, FS_EmptySet DEF ToggleUnified
  <2>2. PICK u, v : u = [unified EXCEPT !.on = FALSE] /\ v = [unified EXCEPT !.on = TRUE]
    OBVIOUS
  <2>3. /\ u \in [on : BOOLEAN, loading : BOOLEAN, rows : {{}, Accounts},
                  wanted : Accounts \cup {None}, opened : Accounts \cup {None}]
        /\ v \in [on : BOOLEAN, loading : BOOLEAN, rows : {{}, Accounts},
                  wanted : Accounts \cup {None}, opened : Accounts \cup {None}]
    BY <1>0, <2>2
  <2>4. Unify(u, sideCalls) \/ LoadUnified(v)
    BY <1>1, <2>2 DEF ToggleUnified
  <2> QED
    BY <1>0, <2>1, <2>3, <2>4, UnifyFits, LoadUnifiedFits
<1>2. CASE ReloadUnified
  BY <1>0, <1>2, LoadUnifiedFits, SideParts DEF ReloadUnified, NothingYet
<1>3. CASE OpenWanted
  <2>1. PICK fires \in BOOLEAN :
          Unify([unified EXCEPT !.wanted = None, !.opened = IF fires THEN place.acc ELSE @], sideCalls)
    BY <1>3 DEF OpenWanted
  <2>2. PICK u : u = [unified EXCEPT !.wanted = None, !.opened = IF fires THEN place.acc ELSE @]
    OBVIOUS
  <2>3. place.acc \in boxes.list /\ place.acc \in Accounts
    BY <1>0, <1>3, AllThere DEF PlaceOK, OpenWanted
  <2>4. u \in [on : BOOLEAN, loading : BOOLEAN, rows : {{}, Accounts},
               wanted : Accounts \cup {None}, opened : Accounts \cup {None}]
    BY <1>0, <2>2, <2>3
  <2> QED
    BY <2>1, <2>2, <2>3, <2>4, UnifyFits
<1> QED
  BY <1>1, <1>2, <1>3

LEMMA MarkingFits ==
  ASSUME SideInv, NEW m, Marking(m)
  PROVE  SideInv'
<1>1. NothingYet'
  BY SideParts DEF Marking, NothingYet
<1> QED
  BY <1>1, ScreenOnly, PopupStays, UnifiedStays DEF Marking

LEMMA ReorderFits ==
  ASSUME SideInv, ReorderAccounts
  PROVE  SideInv'
<1>0. BoxesOK /\ BoxServerOK
  BY SideParts
<1>1. PICK o \in [1..Cardinality(boxes.list) -> boxes.list] :
        boxes' = [boxes EXCEPT !.order = o] /\ boxServer' = [boxServer EXCEPT !.order = o]
  BY DEF ReorderAccounts
<1>2. /\ place' = place /\ popup' = popup /\ unified' = unified /\ quota' = quota
      /\ sideCalls' = sideCalls /\ boxes.list # {}
  BY DEF ReorderAccounts
<1>3. boxes.list = Accounts
  BY <1>2, AllThere
<1>4. Cardinality(Accounts) \in Nat
  BY SidebarAssumption, FS_CardinalityType
<1>5. o \in Seq(Accounts)
  BY <1>3, <1>4
<1>6. boxes' = [list |-> boxes.list, order |-> o, seq |-> boxes.seq,
                folders |-> [a \in Accounts |-> boxes.folders[a]]]
  BY <1>0, <1>1 DEF BoxesOK
<1>7. boxes'.list = boxes.list /\ boxes'.order = o /\ boxes'.seq = boxes.seq
      /\ boxes'.folders = [a \in Accounts |-> boxes.folders[a]]
  BY <1>6
<1>8. boxes'.folders = [a \in Accounts |-> boxes'.folders[a]]
  BY <1>7
<1>9. BoxesOK'
  BY <1>0, <1>5, <1>6, <1>7, <1>8 DEF BoxesOK
<1>10. boxServer' = [live |-> boxServer.live, counted |-> boxServer.counted, order |-> o]
  BY <1>0, <1>1 DEF BoxServerOK
<1>11. boxServer'.live = boxServer.live /\ boxServer'.counted = boxServer.counted /\ boxServer'.order = o
  BY <1>10
<1>12. BoxServerOK'
  BY <1>5, <1>10, <1>11 DEF BoxServerOK
<1>13. boxes'.list # {} /\ place'.acc = place.acc
  BY <1>2, <1>7
<1> QED
  BY <1>2, <1>7, <1>9, <1>12, <1>13, PlaceStays, PopupStays, UnifiedStays, QuotaStays, AskedFewer,
     SideCallsFewer, NoLongerNothing, SideParts

LEMMA PopupFits ==
  ASSUME SideInv, NEW p, Popup(p), boxes.list # {},
         p # None => /\ p = [kind |-> p.kind, op |-> p.op, acc |-> p.acc, path |-> p.path]
                     /\ p.acc \in Accounts /\ (p.kind = "dialog" => p.op \in FolderOps)
  PROVE  SideInv'
<1>1. PopupOK' /\ boxes'.list # {}
  BY DEF Popup, PopupOK
<1> QED
  BY <1>1, ScreenOnly, UnifiedStays, NoLongerNothing DEF Popup

LEMMA OpenFolderMenuFits ==
  ASSUME SideInv, NEW a \in Accounts, NEW p \in DOMAIN boxes.folders[a], OpenFolderMenu(a, p)
  PROVE  SideInv'
<1>1. PICK q : q = [kind |-> "menu", op |-> None, acc |-> a, path |-> p]
  OBVIOUS
<1>2. /\ q = [kind |-> q.kind, op |-> q.op, acc |-> q.acc, path |-> q.path]
      /\ q.acc \in Accounts /\ (q.kind = "dialog" => q.op \in FolderOps)
  BY <1>1
<1>3. Popup(q)
  BY <1>1 DEF OpenFolderMenu
<1>4. boxes.list # {}
  BY SideParts DEF NothingYet
<1> QED
  BY <1>2, <1>3, <1>4, PopupFits

LEMMA NewFolderFits ==
  ASSUME SideInv, NEW a \in Accounts, NewFolder(a)
  PROVE  SideInv'
<1>1. PICK q : q = [kind |-> "dialog", op |-> "new", acc |-> a, path |-> <<>>]
  OBVIOUS
<1>0. "new" \in FolderOps
  BY DEF FolderOps
<1>2. /\ q = [kind |-> q.kind, op |-> q.op, acc |-> q.acc, path |-> q.path]
      /\ q.acc \in Accounts /\ (q.kind = "dialog" => q.op \in FolderOps)
  BY <1>0, <1>1
<1>3. Popup(q) /\ boxes.list # {}
  BY <1>1 DEF NewFolder
<1> QED
  BY <1>2, <1>3, PopupFits

LEMMA FolderDialogFits ==
  ASSUME SideInv, NEW op \in FolderOps, FolderDialog(op)
  PROVE  SideInv'
<1>0. /\ popup # None /\ boxes.list # {}
      /\ popup = [kind |-> popup.kind, op |-> popup.op, acc |-> popup.acc, path |-> popup.path]
      /\ popup.acc \in Accounts
  BY SideParts DEF FolderDialog, NothingYet, PopupOK
<1>1. PICK q : q = [popup EXCEPT !.kind = "dialog", !.op = op]
  OBVIOUS
<1>2. q = [kind |-> "dialog", op |-> op, acc |-> popup.acc, path |-> popup.path]
  BY <1>0, <1>1
<1>3. /\ q = [kind |-> q.kind, op |-> q.op, acc |-> q.acc, path |-> q.path]
      /\ q.acc \in Accounts /\ (q.kind = "dialog" => q.op \in FolderOps)
  BY <1>0, <1>2
<1>4. Popup(q)
  BY <1>1 DEF FolderDialog
<1> QED
  BY <1>0, <1>3, <1>4, PopupFits

LEMMA CloseFits ==
  ASSUME SideInv, CloseFolderMenu
  PROVE  SideInv'
<1>1. boxes.list # {}
  BY SideParts DEF CloseFolderMenu, NothingYet
<1> QED
  BY <1>1, PopupFits DEF CloseFolderMenu

\* The place after a folder was hidden or deleted is its account's inbox.
LEMMA PlaceInBox ==
  ASSUME SideInv, NEW a \in Accounts, NEW p, boxes'.list = boxes.list,
         place' = IF place = [acc |-> a, path |-> p] THEN [acc |-> a, path |-> Inbox] ELSE place
  PROVE  PlaceOK' /\ place'.acc = place.acc
<1>1. CASE place = [acc |-> a, path |-> p]
  <2>1. place.acc = a
    BY <1>1
  <2>2. place' = [acc |-> a, path |-> Inbox]
    BY <1>1
  <2>3. place'.acc = a /\ place'.path = Inbox
    BY <2>2
  <2> QED
    BY <2>1, <2>2, <2>3, SideParts DEF PlaceOK
<1>2. CASE place # [acc |-> a, path |-> p]
  BY <1>2, PlaceStays
<1> QED
  BY <1>1, <1>2

LEMMA HideFolderFits ==
  ASSUME SideInv, HideFolder
  PROVE  SideInv'
<1>0. popup # None /\ popup.acc \in Accounts /\ boxes.list # {}
  BY SideParts DEF HideFolder, NothingYet, PopupOK
<1>1. /\ popup' = None /\ boxes' = boxes /\ unified' = unified /\ quota' = quota
      /\ sideCalls' = sideCalls /\ boxServer' = boxServer
      /\ place' = IF place = [acc |-> popup.acc, path |-> popup.path]
                  THEN [acc |-> popup.acc, path |-> Inbox] ELSE place
  BY DEF HideFolder
<1>2. boxes'.list = boxes.list /\ boxes'.list # {}
  BY <1>0, <1>1
<1>3. PlaceOK' /\ place'.acc = place.acc
  BY <1>0, <1>1, <1>2, PlaceInBox
<1> QED
  BY <1>1, <1>2, <1>3, BoxesStay, PopupStays, UnifiedStays, QuotaStays, AskedFewer, SideCallsFewer,
     BoxServerStays, NoLongerNothing, SideParts

LEMMA ConfirmFits ==
  ASSUME SideInv, Confirm
  PROVE  SideInv'
<1>0. popup # None /\ popup.acc \in Accounts /\ boxes.list # {} /\ popup.op \in FolderOps
  BY SideParts DEF Confirm, NothingYet, PopupOK
<1>1. PICK target : sideCalls' = sideCalls \cup
             {[SideCall(popup.op, popup.acc) EXCEPT !.arg = <<popup.path, target>>]}
  BY DEF Confirm
<1>2. PICK e : e = SideCall(popup.op, popup.acc)
  OBVIOUS
<1>3. PICK new : new = [e EXCEPT !.arg = <<popup.path, target>>]
  OBVIOUS
<1>4. /\ popup' = None /\ boxes' = boxes /\ unified' = unified /\ quota' = quota
      /\ place' = place /\ boxServer' = boxServer /\ sideCalls' = sideCalls \cup {new}
  BY <1>1, <1>2, <1>3 DEF Confirm
<1>5. popup.op \in SideOps /\ popup.op # "quota"
  BY <1>0 DEF SideOps, FolderOps
<1>6. SideCallOK(e) /\ e.op # "quota"
  BY <1>0, <1>2, <1>5, NewSideCall
<1>7. SideCallOK(new) /\ new.op # "quota"
  BY <1>3, <1>6, SideCallArg
<1>8. boxes'.list # {} /\ place'.acc = place.acc
  BY <1>0, <1>4
<1> QED
  BY <1>4, <1>7, <1>8, OneMoreCall, BoxesStay, PlaceStays, PopupStays, UnifiedStays, QuotaStays,
     BoxServerStays, NoLongerNothing, SideParts

SideElse == popup' = popup /\ unified' = unified /\ boxServer' = boxServer

LEMMA BoxServerDoesFits ==
  ASSUME SideInv, NEW c \in sideCalls, BoxServerDoes(c)
  PROVE  SideInv'
<1>0. SideCallOK(c) /\ BoxServerOK
  BY SideParts DEF SideCallsOK
<1>1. /\ boxes' = boxes /\ place' = place /\ popup' = popup /\ unified' = unified /\ quota' = quota
  BY DEF BoxServerDoes
<1>2. PICK o : o = IF c.op = "order" THEN boxServer.order ELSE <<>>
  OBVIOUS
<1>3. o \in Seq(Accounts)
  BY <1>0, <1>2 DEF BoxServerOK
<1>5. PICK new : new = [c EXCEPT !.done = TRUE, !.order = IF c.op = "order" THEN boxServer.order ELSE <<>>,
                    !.got = IF c.op \in FolderOps \cup {"order"} THEN {} ELSE boxServer'.counted[c.acc]]
  OBVIOUS
<1>6. sideCalls' = (sideCalls \ {c}) \cup {new}
  BY <1>5 DEF BoxServerDoes
<1>7. SideCallOK(new) /\ new.op = c.op /\ new.acc = c.acc /\ new.mine = c.mine
  <2>1. new = [op |-> c.op, acc |-> c.acc, arg |-> c.arg, seq |-> c.seq, mine |-> c.mine, done |-> TRUE,
               got |-> IF c.op \in FolderOps \cup {"order"} THEN {} ELSE boxServer'.counted[c.acc],
               order |-> IF c.op = "order" THEN boxServer.order ELSE <<>>]
    BY <1>0, <1>5 DEF SideCallOK
  <2>2. /\ new.op = c.op /\ new.acc = c.acc /\ new.arg = c.arg /\ new.seq = c.seq /\ new.mine = c.mine
        /\ new.order = IF c.op = "order" THEN boxServer.order ELSE <<>>
    BY <2>1
  <2>3. new = [op |-> new.op, acc |-> new.acc, arg |-> new.arg, seq |-> new.seq, mine |-> new.mine,
               done |-> new.done, got |-> new.got, order |-> new.order]
    BY <2>1
  <2>4. new.order \in Seq(Accounts)
    BY <1>2, <1>3, <2>2
  <2>5. new.done \in BOOLEAN
    BY <2>1
  <2> QED
    BY <1>0, <2>2, <2>3, <2>4, <2>5 DEF SideCallOK
<1>8. SideCallsOK' /\ QuotaAsked' /\ NothingYet'
  <2>1. SideCallsOK /\ QuotaAsked /\ NothingYet
    BY SideParts
  <2>2. SideCallsOK'
    BY <2>1, <1>6, <1>7 DEF SideCallsOK
  <2>3. QuotaAsked'
    BY <2>1, <1>1, <1>6, <1>7 DEF QuotaAsked
  <2>4. NothingYet'
    BY <2>1, <1>1, <1>6, <1>7 DEF NothingYet
  <2> QED
    BY <2>2, <2>3, <2>4
<1>9. BoxServerOK'
  <2>1. CASE boxServer' = boxServer
    BY <2>1, BoxServerStays
  <2>2. CASE boxServer' = [boxServer EXCEPT !.live[c.acc] = Changed(c)]
    <3>1. PICK l : boxServer' = [live |-> l, counted |-> boxServer.counted, order |-> boxServer.order]
      BY <1>0, <2>2 DEF BoxServerOK
    <3>2. boxServer'.live = l /\ boxServer'.counted = boxServer.counted /\ boxServer'.order = boxServer.order
      BY <3>1
    <3> QED
      BY <1>0, <3>1, <3>2 DEF BoxServerOK
  <2>3. CASE boxServer' = [boxServer EXCEPT !.counted[c.acc] = {boxServer.live[c.acc]}]
    <3>1. PICK k : boxServer' = [live |-> boxServer.live, counted |-> k, order |-> boxServer.order]
      BY <1>0, <2>3 DEF BoxServerOK
    <3>2. boxServer'.live = boxServer.live /\ boxServer'.counted = k /\ boxServer'.order = boxServer.order
      BY <3>1
    <3> QED
      BY <1>0, <3>1, <3>2 DEF BoxServerOK
  <2> QED
    BY <2>1, <2>2, <2>3 DEF BoxServerDoes
<1> QED
  BY <1>1, <1>8, <1>9, BoxesStay, PlaceStays, PopupStays, UnifiedStays, QuotaStays, SideParts

\* A list of folders comes in while there are accounts.
LEMMA SetFoldersFits ==
  ASSUME BoxesOK, NEW a \in Accounts, NEW fs, SetFolders(a, fs)
  PROVE  BoxesOK' /\ boxes'.list = boxes.list
<1>1. boxes' = [boxes EXCEPT !.folders[a] = fs]
  BY DEF SetFolders
<1>2. boxes.folders = [x \in Accounts |-> boxes.folders[x]]
  <2>1. PICK l, o, s, f : boxes = [list |-> l, order |-> o, seq |-> s, folders |-> f]
                          /\ f = [x \in Accounts |-> boxes.folders[x]]
    BY DEF BoxesOK
  <2> QED
    BY <2>1
<1>3. PICK f : f = [boxes.folders EXCEPT ![a] = fs]
  OBVIOUS
<1>4. f = [x \in Accounts |-> f[x]]
  BY <1>2, <1>3
<1>5. boxes' = [list |-> boxes.list, order |-> boxes.order, seq |-> boxes.seq, folders |-> f]
  BY <1>1, <1>3 DEF BoxesOK
<1>6. boxes'.list = boxes.list /\ boxes'.order = boxes.order /\ boxes'.seq = boxes.seq /\ boxes'.folders = f
  BY <1>5
<1> QED
  BY <1>4, <1>5, <1>6 DEF BoxesOK

\* An answer other than those of the quota, with accounts there: one request less,
\* others about something else than the quota more.
LEMMA SideAnswerFits ==
  ASSUME SideInv, boxes.list # {}, BoxesOK', boxes'.list = boxes.list, PlaceOK', place'.acc = place.acc,
         quota' = quota, SideElse,
         \A d \in sideCalls' : SideCallOK(d), \A d \in sideCalls' : d \in sideCalls \/ d.op # "quota"
  PROVE  SideInv'
<1>1. QuotaAsked'
  BY AskedFewer
<1>2. SideCallsOK'
  BY DEF SideCallsOK
<1>3. QuotaOfAccount' /\ boxes'.list # {}
  BY QuotaStays
<1>4. PopupOK' /\ UnifiedOK' /\ BoxServerOK'
  BY PopupStays, UnifiedStays, BoxServerStays DEF SideElse
<1> QED
  BY <1>1, <1>2, <1>3, <1>4, NoLongerNothing, SideParts

\* What other requests than the first two tell: accounts are there.
LEMMA ThenAccounts ==
  ASSUME SideInv, NEW c \in sideCalls, c.op \notin {"accounts", "order"}
  PROVE  boxes.list # {}
  BY SideParts DEF NothingYet

LEMMA AccountsAnswerFits ==
  ASSUME SideInv, NEW c \in sideCalls, AccountsAnswer(c)
  PROVE  SideInv'
<1>0. BoxesOK /\ SideCallsOK /\ NothingYet /\ QuotaOfAccount /\ PlaceOK /\ boxes.list = {}
  BY SideParts DEF AccountsAnswer
<1>1. /\ place' = (IF place.acc = None THEN [acc |-> FirstAccount, path |-> Inbox] ELSE place)
      /\ boxes' = [boxes EXCEPT !.list = Accounts, !.seq[FirstAccount] = @ + 1]
      /\ popup' = popup /\ unified' = unified /\ quota' = quota /\ boxServer' = boxServer
  BY DEF AccountsAnswer
<1>2. place' = [acc |-> FirstAccount, path |-> Inbox] /\ place.acc = None
  BY <1>0, <1>1 DEF NothingYet
<1>3. place'.acc = FirstAccount /\ place'.path = Inbox
  BY <1>2
<1>4. /\ BoxesOK' /\ boxes'.list = Accounts
  <2>1. boxes' = [list |-> Accounts, order |-> boxes.order,
                  seq |-> [boxes.seq EXCEPT ![FirstAccount] = @ + 1], folders |-> boxes.folders]
    BY <1>0, <1>1 DEF BoxesOK
  <2>2. /\ boxes'.list = Accounts /\ boxes'.order = boxes.order /\ boxes'.folders = boxes.folders
        /\ boxes'.seq = [boxes.seq EXCEPT ![FirstAccount] = @ + 1]
    BY <2>1
  <2>3. boxes'.seq \in [Accounts -> Nat]
    BY <1>0, <2>2, SidebarAssumption DEF BoxesOK
  <2>4. boxes.folders = [x \in Accounts |-> boxes.folders[x]]
    <3>1. PICK l, o, s, f : boxes = [list |-> l, order |-> o, seq |-> s, folders |-> f]
                            /\ f = [x \in Accounts |-> boxes.folders[x]]
      BY <1>0 DEF BoxesOK
    <3> QED
      BY <3>1
  <2>5. boxes' = [list |-> boxes'.list, order |-> boxes'.order, seq |-> boxes'.seq,
                  folders |-> [x \in Accounts |-> boxes'.folders[x]]]
    BY <2>1, <2>2, <2>4
  <2>6. boxes.order \in Seq(Accounts)
    BY <1>0 DEF BoxesOK
  <2> QED
    BY <2>2, <2>3, <2>5, <2>6 DEF BoxesOK
<1>5. PICK rest, new : rest = sideCalls \ {c} /\ new = SideCall("quota", FirstAccount)
  OBVIOUS
<1>6. PICK asks : asks = {LoadFolders(a, a = FirstAccount) : a \in Accounts}
  OBVIOUS
<1>7. sideCalls' = CountCalls(FirstAccount, FALSE, rest) \cup {new} \cup asks
  BY <1>5, <1>6 DEF AccountsAnswer
<1>8. {"quota", "cached"} \subseteq SideOps
  BY DEF SideOps
<1>9. SideCallOK(new) /\ new.acc = FirstAccount
  BY <1>5, <1>8, NewSideCall, SidebarAssumption
<1>10. ASSUME NEW d \in asks PROVE SideCallOK(d) /\ d.op # "quota"
  <2>0. PICK a \in Accounts : d = [SideCall("cached", a) EXCEPT !.arg = (a = FirstAccount)]
    BY <1>6 DEF LoadFolders
  <2>1. PICK own : own = (a = FirstAccount) /\ d = [SideCall("cached", a) EXCEPT !.arg = own]
    BY <2>0
  <2>2. PICK e : e = SideCall("cached", a)
    OBVIOUS
  <2>3. SideCallOK(e) /\ e.op = "cached"
    BY <2>2, <1>8, NewSideCall
  <2>4. d = [e EXCEPT !.arg = own]
    BY <2>1, <2>2
  <2>5. SideCallOK(d) /\ d.op = "cached"
    BY <2>3, <2>4, SideCallArg
  <2> QED
    BY <2>5
<1>11. ASSUME NEW d \in CountCalls(FirstAccount, FALSE, rest) PROVE SideCallOK(d) /\ d.op # "quota"
  <2>1. boxes.seq \in [Accounts -> Nat] /\ \A e \in rest : SideCallOK(e) /\ e.op \in {"accounts", "order"}
    BY <1>0, <1>5 DEF BoxesOK, SideCallsOK, NothingYet
  <2>2. SideCallOK(d) /\ (d \in rest \/ d.op \in {"count", "recount"})
    BY <2>1, CountCallsFit, SidebarAssumption
  <2> QED
    BY <2>1, <2>2
<1>12. SideCallsOK' /\ QuotaAsked'
  BY <1>3, <1>7, <1>9, <1>10, <1>11 DEF SideCallsOK, QuotaAsked
<1>13. quota = None
  BY <1>0, <1>2 DEF QuotaOfAccount
<1>14. QuotaOfAccount' /\ quota' \in Accounts \cup {None}
  BY <1>1, <1>13 DEF QuotaOfAccount
<1>15. PlaceOK' /\ boxes'.list # {}
  BY <1>2, <1>3, <1>4, SidebarAssumption DEF PlaceOK
<1> QED
  BY <1>1, <1>4, <1>12, <1>14, <1>15, PopupStays, UnifiedStays, BoxServerStays, NoLongerNothing, SideParts

LEMMA OrderAnswerFits ==
  ASSUME SideInv, NEW c \in sideCalls, OrderAnswer(c)
  PROVE  SideInv'
<1>0. BoxesOK /\ SideCallOK(c)
  BY SideParts DEF SideCallsOK
<1>1. PICK o : o = IF c.order = <<>> THEN boxes.order ELSE c.order
  OBVIOUS
<1>2. /\ boxes' = [boxes EXCEPT !.order = o] /\ sideCalls' = sideCalls \ {c} /\ place' = place
      /\ popup' = popup /\ unified' = unified /\ quota' = quota /\ boxServer' = boxServer
  BY <1>1 DEF OrderAnswer
<1>3. o \in Seq(Accounts)
  BY <1>0, <1>1 DEF BoxesOK, SideCallOK
<1>4. PICK f : f = boxes.folders
  OBVIOUS
<1>5. f = [x \in Accounts |-> f[x]]
  <2>1. PICK l, p, s, g : boxes = [list |-> l, order |-> p, seq |-> s, folders |-> g]
                          /\ g = [x \in Accounts |-> boxes.folders[x]]
    BY <1>0 DEF BoxesOK
  <2> QED
    BY <2>1, <1>4
<1>6. boxes' = [list |-> boxes.list, order |-> o, seq |-> boxes.seq, folders |-> f]
  BY <1>0, <1>2, <1>4 DEF BoxesOK
<1>7. boxes'.list = boxes.list /\ boxes'.order = o /\ boxes'.seq = boxes.seq /\ boxes'.folders = f
  BY <1>6
<1>8. BoxesOK'
  BY <1>0, <1>3, <1>5, <1>6, <1>7 DEF BoxesOK
<1>9. NothingYet'
  <2>1. NothingYet
    BY SideParts
  <2>2. boxes'.folders = boxes.folders
    BY <1>4, <1>7
  <2> QED
    BY <2>1, <2>2, <1>2, <1>7 DEF NothingYet
<1>10. SideCallsOK' /\ QuotaAsked'
  BY <1>2, SideCallsFewer, AskedFewer
<1> QED
  BY <1>2, <1>7, <1>8, <1>9, <1>10, PlaceStays, PopupStays, UnifiedStays, QuotaStays, BoxServerStays, SideParts

LEMMA CachedAnswerFits ==
  ASSUME SideInv, NEW c \in sideCalls, CachedAnswer(c)
  PROVE  SideInv'
<1>0. BoxesOK /\ SideCallsOK /\ c.op = "cached" /\ boxes.list # {}
  BY SideParts, ThenAccounts DEF CachedAnswer
<1>1. c.acc \in Accounts
  BY <1>0 DEF SideCallsOK, SideCallOK
<1>2. PICK fs : SetFolders(c.acc, fs)
  BY DEF CachedAnswer
<1>3. BoxesOK' /\ boxes'.list = boxes.list
  BY <1>0, <1>1, <1>2, SetFoldersFits
<1>4. PICK new : new = SideCall("live", c.acc)
  OBVIOUS
<1>5. "live" \in SideOps /\ "live" # "quota"
  BY DEF SideOps
<1>6. SideCallOK(new) /\ new.op # "quota"
  BY <1>1, <1>4, <1>5, NewSideCall
<1>7. sideCalls' \subseteq (sideCalls \ {c}) \cup {new}
  BY <1>4 DEF CachedAnswer
<1>8. place' = place /\ quota' = quota /\ SideElse
  BY DEF CachedAnswer, SideElse
<1>9. /\ \A d \in sideCalls' : SideCallOK(d)
      /\ \A d \in sideCalls' : d \in sideCalls \/ d.op # "quota"
  BY <1>0, <1>6, <1>7 DEF SideCallsOK
<1>10. PlaceOK' /\ place'.acc = place.acc
  BY <1>3, <1>8, PlaceStays
<1> QED
  BY <1>0, <1>3, <1>8, <1>9, <1>10, SideAnswerFits

LEMMA CountsAnswerFits ==
  ASSUME SideInv, NEW c \in sideCalls, CountsAnswer(c)
  PROVE  SideInv'
<1>0. BoxesOK /\ SideCallsOK /\ boxes.list # {}
  BY SideParts, ThenAccounts DEF CountsAnswer
<1>1. c.acc \in Accounts
  BY <1>0 DEF SideCallsOK, SideCallOK
<1>2. BoxesOK' /\ boxes'.list = boxes.list
  <2>1. CASE boxes' = boxes
    BY <2>1, BoxesStay
  <2>2. CASE \E fs : SetFolders(c.acc, fs)
    BY <2>2, <1>0, <1>1, SetFoldersFits
  <2> QED
    BY <2>1, <2>2 DEF CountsAnswer
<1>3. place' = place /\ quota' = quota /\ SideElse /\ sideCalls' = sideCalls \ {c}
  BY DEF CountsAnswer, SideElse
<1>4. /\ \A d \in sideCalls' : SideCallOK(d)
      /\ \A d \in sideCalls' : d \in sideCalls \/ d.op # "quota"
  BY <1>0, <1>3 DEF SideCallsOK
<1>5. PlaceOK' /\ place'.acc = place.acc
  BY <1>2, <1>3, PlaceStays
<1> QED
  BY <1>0, <1>2, <1>3, <1>4, <1>5, SideAnswerFits

LEMMA QuotaAnswerFits ==
  ASSUME SideInv, NEW c \in sideCalls, QuotaAnswer(c)
  PROVE  SideInv'
<1>0. SideCallsOK /\ QuotaAsked /\ QuotaOfAccount /\ quota \in Accounts \cup {None} /\ boxes.list # {}
  BY SideParts, ThenAccounts DEF QuotaAnswer
<1>1. SideCallOK(c) /\ c.op = "quota" /\ quota' = (IF c.mine THEN c.acc ELSE quota)
  BY <1>0 DEF QuotaAnswer, SideCallsOK
<1>2. /\ boxes' = boxes /\ place' = place /\ sideCalls' = sideCalls \ {c} /\ SideElse
  BY DEF QuotaAnswer, SideElse
<1>3. QuotaOfAccount' /\ quota' \in Accounts \cup {None}
  BY <1>0, <1>1, <1>2 DEF QuotaAsked, QuotaOfAccount, SideCallOK
<1>4. SideCallsOK' /\ QuotaAsked' /\ boxes'.list # {}
  BY <1>0, <1>2, SideCallsFewer, AskedFewer
<1> QED
  BY <1>2, <1>3, <1>4, BoxesStay, PlaceStays, PopupStays, UnifiedStays, BoxServerStays,
     NoLongerNothing, SideParts DEF SideElse

LEMMA UnifiedAnswerFits ==
  ASSUME SideInv, NEW c \in sideCalls, UnifiedAnswer(c)
  PROVE  SideInv'
<1>0. boxes.list # {} /\ UnifiedOK
  BY SideParts, ThenAccounts DEF UnifiedAnswer
<1>1. PICK u : u = [unified EXCEPT !.loading = FALSE, !.rows = Accounts]
  OBVIOUS
<1>2. u \in [on : BOOLEAN, loading : BOOLEAN, rows : {{}, Accounts},
             wanted : Accounts \cup {None}, opened : Accounts \cup {None}]
  BY <1>0, <1>1 DEF UnifiedOK
<1>3. Unify(u, sideCalls \ {c})
  BY <1>1 DEF UnifiedAnswer
<1> QED
  BY <1>0, <1>2, <1>3, UnifyFits

\* The rules were applied, or could not be: the counts are asked for.
LEMMA RecountFits ==
  ASSUME SideInv, NEW c \in sideCalls, c.op = "apply", Counting(c.acc), place' = place, quota' = quota,
         SideElse, sideCalls' = CountCalls(c.acc, TRUE, sideCalls \ {c})
  PROVE  SideInv'
<1>0. BoxesOK /\ SideCallsOK /\ boxes.list # {}
  BY SideParts, ThenAccounts
<1>1. c.acc \in Accounts /\ boxes.seq \in [Accounts -> Nat]
  BY <1>0 DEF SideCallsOK, SideCallOK, BoxesOK
<1>2. BoxesOK' /\ boxes'.list = boxes.list
  BY <1>0, <1>1, CountingFits
<1>3. PICK rest : rest = sideCalls \ {c}
  OBVIOUS
<1>4. \A d \in rest : SideCallOK(d) /\ d \in sideCalls
  BY <1>0, <1>3 DEF SideCallsOK
<1>5. ASSUME NEW d \in sideCalls' PROVE SideCallOK(d) /\ (d \in sideCalls \/ d.op # "quota")
  <2>1. d \in CountCalls(c.acc, TRUE, rest)
    BY <1>3
  <2>2. SideCallOK(d) /\ (d \in rest \/ d.op \in {"count", "recount"})
    BY <2>1, <1>1, <1>4, CountCallsFit
  <2> QED
    BY <1>4, <2>2
<1>6. PlaceOK' /\ place'.acc = place.acc
  BY <1>2, PlaceStays
<1> QED
  BY <1>0, <1>2, <1>5, <1>6, SideAnswerFits

LEMMA FolderAnswerFits ==
  ASSUME SideInv, NEW c \in sideCalls, FolderAnswer(c)
  PROVE  SideInv'
<1>0. SideCallsOK /\ c.op \in FolderOps
  BY SideParts DEF FolderAnswer
<1>1. boxes.list # {}
  BY <1>0, ThenAccounts DEF FolderOps
<1>2. c.acc \in Accounts
  BY <1>0 DEF SideCallsOK, SideCallOK
<1>3. /\ boxes' = boxes /\ quota' = quota /\ SideElse
      /\ place' = IF c.op = "delete" /\ place = [acc |-> c.acc, path |-> c.arg[1]]
                  THEN [acc |-> c.acc, path |-> Inbox] ELSE place
  BY DEF FolderAnswer, SideElse
<1>4. PlaceOK' /\ place'.acc = place.acc
  <2>1. CASE c.op = "delete"
    BY <2>1, <1>2, <1>3, PlaceInBox
  <2>2. CASE c.op # "delete"
    BY <2>2, <1>3, PlaceStays
  <2> QED
    BY <2>1, <2>2
<1>5. PICK e, new : e = SideCall("cached", c.acc) /\ new = [e EXCEPT !.arg = TRUE]
  OBVIOUS
<1>6. sideCalls' = (sideCalls \ {c}) \cup {new}
  BY <1>5 DEF FolderAnswer, LoadFolders
<1>7. "cached" \in SideOps /\ "cached" # "quota"
  BY DEF SideOps
<1>8. SideCallOK(e) /\ e.op # "quota"
  BY <1>2, <1>5, <1>7, NewSideCall
<1>9. SideCallOK(new) /\ new.op # "quota"
  BY <1>5, <1>8, SideCallArg
<1>10. /\ \A d \in sideCalls' : SideCallOK(d)
       /\ \A d \in sideCalls' : d \in sideCalls \/ d.op # "quota"
  BY <1>0, <1>6, <1>9 DEF SideCallsOK
<1>11. BoxesOK' /\ boxes'.list = boxes.list
  BY <1>3, BoxesStay
<1> QED
  BY <1>1, <1>3, <1>4, <1>10, <1>11, SideAnswerFits

LEMMA SideFailsFits ==
  ASSUME SideInv, NEW c \in sideCalls, SideFails(c)
  PROVE  SideInv'
<1>1. CASE c.op = "apply"
  <2>1. /\ Counting(c.acc) /\ sideCalls' = CountCalls(c.acc, TRUE, sideCalls \ {c})
        /\ place' = place /\ quota' = quota /\ SideElse
    BY <1>1 DEF SideFails, SideElse
  <2> QED
    BY <1>1, <2>1, RecountFits
<1>2. CASE c.op # "apply"
  <2>1. /\ boxes' = boxes /\ sideCalls' = sideCalls \ {c} /\ place' = place /\ quota' = quota
        /\ popup' = popup /\ boxServer' = boxServer
        /\ unified' = IF c.op = "unified" THEN [unified EXCEPT !.loading = FALSE] ELSE unified
    BY <1>2 DEF SideFails
  <2>2. UnifiedOK' /\ (unified'.on = unified.on /\ unified'.rows = unified.rows)
    BY <2>1, SideParts DEF UnifiedOK
  <2>3. NothingYet'
    BY <2>1, <2>2, SideParts DEF NothingYet
  <2>4. SideCallsOK' /\ QuotaAsked'
    BY <2>1, SideCallsFewer, AskedFewer
  <2> QED
    BY <2>1, <2>2, <2>3, <2>4, BoxesStay, PlaceStays, PopupStays, QuotaStays, BoxServerStays, SideParts
<1> QED
  BY <1>1, <1>2

LEMMA SideStep ==
  ASSUME SideInv, SideNext \/ UNCHANGED sideVars
  PROVE  SideInv'
<1>1. CASE UNCHANGED sideVars
  <2>1. /\ boxes' = boxes /\ place' = place /\ popup' = popup /\ unified' = unified /\ quota' = quota
        /\ sideCalls' = sideCalls /\ boxServer' = boxServer
    BY <1>1 DEF sideVars
  <2>2. NothingYet'
    BY <2>1, SideParts DEF NothingYet
  <2> QED
    BY <2>1, <2>2, ScreenOnly, PopupStays, UnifiedStays
<1>2. CASE SideUser
  <2>1. ASSUME NEW a \in Accounts,
               ToggleAccount(a) \/ ToggleReveal(a) \/ RefreshAccount(a) \/ NewFolder(a) \/ OpenUnifiedRow(a)
        PROVE  SideInv'
    BY <2>1, MarkingFits, RefreshFits, NewFolderFits, OpenUnifiedRowFits DEF ToggleAccount, ToggleReveal
  <2>2. ASSUME NEW a \in Accounts, NEW p \in DOMAIN boxes.folders[a],
               ClickBox(a, p) \/ ToggleExpand(a, p) \/ UnhideFolder(a, p) \/ OpenFolderMenu(a, p)
        PROVE  SideInv'
    BY <2>2, MarkingFits, ClickBoxFits, OpenFolderMenuFits DEF ToggleExpand, UnhideFolder
  <2> QED
    BY <1>2, <2>1, <2>2, ReorderFits, ToggleUnifiedFits DEF SideUser
<1>3. CASE \E c \in sideCalls : SideFails(c)
  BY <1>3, SideFailsFits
<1>4. CASE SideInPopup
  <2>1. {"sub", "rename", "move", "delete"} \subseteq FolderOps
    BY DEF FolderOps
  <2> QED
    BY <1>4, <2>1, CloseFits, HideFolderFits, ConfirmFits, FolderDialogFits DEF SideInPopup
<1>5. CASE OpenWanted
  BY <1>5, ToggleUnifiedFits
<1>6. ASSUME NEW c \in sideCalls, AppliedAnswer(c) PROVE SideInv'
  BY <1>6, RecountFits DEF AppliedAnswer, SideElse
<1>7. ASSUME NEW c \in sideCalls,
             \/ BoxServerDoes(c) \/ AccountsAnswer(c) \/ OrderAnswer(c) \/ CachedAnswer(c)
             \/ CountsAnswer(c) \/ QuotaAnswer(c) \/ UnifiedAnswer(c) \/ FolderAnswer(c)
      PROVE  SideInv'
  BY <1>7, BoxServerDoesFits, AccountsAnswerFits, OrderAnswerFits, CachedAnswerFits, CountsAnswerFits,
     QuotaAnswerFits, UnifiedAnswerFits, FolderAnswerFits
<1> QED
  BY <1>1, <1>2, <1>3, <1>4, <1>5, <1>6, <1>7 DEF SideNext, ByUser, ByFault, ByItself

-----------------------------------------------------------------------------
(* MailBulk: rows carry the numbering they were made in, and with them ticks,  *)
(* questions and requests name their mails by it.                              *)

TrueRow(r) == r.gen[1] = Home[r.mail] /\ r.uid = Number[r.mail][r.gen[2]]
\* Ticks t name the mails meant in numbering g of folder f.
TrueTicks(t, f, g) ==
    (\A m \in t.meant : Home[m] = f) /\ t.uids = {Number[m][g] : m \in t.meant}

RowsFit ==
    /\ \A r \in rows : TrueRow(r) /\ r.gen[1] = folder
    /\ \A r, s \in rows : r.gen = s.gen
    /\ hits # None => \A r \in hits : TrueRow(r)
    /\ open # None => TrueRow(open)
TicksOfRows(t) ==
    t.listed /\ ~t.whole =>
        \/ t.uids = {} /\ t.meant = {}
        \/ hits = None /\ \E r \in rows : TrueTicks(t, folder, r.gen[2])
BulkQuestionFits(q) ==
    q.kind = "delete" /\ HowTicked(q.ticks) = "list" =>
        q.gen \in Numberings /\ q.gen[1] = q.folder /\ TrueTicks(q.ticks, q.folder, q.gen[2])
BulkCallFits(c) ==
    c.how \in {"list", "row"} =>
        /\ c.gen \in Numberings /\ c.op # "uids" /\ c.touched \subseteq c.meant
        /\ c.gen[1] = c.folder => TrueTicks(c, c.folder, c.gen[2])

BulkInv ==
    /\ BulkTypeOK /\ RowsFit /\ TicksOfRows(sel)
    /\ dialog # None => BulkQuestionFits(dialog)
    /\ \A c \in calls : BulkCallFits(c)

\* The invariant in parts: what each action has to keep.
ListOK ==
    /\ rows \subseteq MailRows /\ \A r \in rows : TrueRow(r) /\ r.gen[1] = folder
    /\ \A r, s \in rows : r.gen = s.gen
HitsOK == hits # None => hits \subseteq MailRows /\ \A r \in hits : TrueRow(r)
OpenOK == open # None => open \in MailRows /\ TrueRow(open)
SelOK == sel \in TickSets /\ TicksOfRows(sel)
DragOK == drag # None => drag \in TickSets
QuestionOK == dialog # None => dialog \in BulkQuestions /\ BulkQuestionFits(dialog)
BulkCallsOK == \A c \in calls : c \in BulkCalls /\ BulkCallFits(c)
PlacesOK == folder \in Folders /\ held \subseteq Mails /\ gen \in [Folders -> 0..MaxGen]

LEMMA BulkParts ==
  /\ BulkInv <=> /\ ListOK /\ HitsOK /\ OpenOK /\ SelOK /\ DragOK /\ QuestionOK /\ BulkCallsOK /\ PlacesOK
  /\ BulkInv' <=> /\ ListOK' /\ HitsOK' /\ OpenOK' /\ SelOK' /\ DragOK' /\ QuestionOK' /\ BulkCallsOK'
                  /\ PlacesOK'
<1>1. BulkInv <=> /\ ListOK /\ HitsOK /\ OpenOK /\ SelOK /\ DragOK /\ QuestionOK /\ BulkCallsOK /\ PlacesOK
  BY DEF BulkInv, BulkTypeOK, RowsFit, ListOK, HitsOK, OpenOK, SelOK, DragOK, QuestionOK, BulkCallsOK, PlacesOK
<1>2. BulkInv' <=> /\ ListOK' /\ HitsOK' /\ OpenOK' /\ SelOK' /\ DragOK' /\ QuestionOK' /\ BulkCallsOK'
                   /\ PlacesOK'
  BY DEF BulkInv, BulkTypeOK, RowsFit, ListOK, HitsOK, OpenOK, SelOK, DragOK, QuestionOK, BulkCallsOK, PlacesOK
<1> QED
  BY <1>1, <1>2

LEMMA RowFits ==
  ASSUME PlacesOK, NEW m \in Mails
  PROVE  /\ Row(m) \in MailRows /\ TrueRow(Row(m)) /\ Row(m).mail = m
         /\ Row(m).gen = <<Home[m], gen[Home[m]]>>
<1>1. Home[m] \in Folders /\ gen[Home[m]] \in 0..MaxGen /\ Number[m][gen[Home[m]]] \in Nat
  BY BulkAssumption DEF PlacesOK
<1>2. <<Home[m], gen[Home[m]]>> \in Numberings
  BY <1>1 DEF Numberings
<1> QED
  BY <1>1, <1>2 DEF Row, MailRows, TrueRow

LEMMA ListingFits ==
  ASSUME PlacesOK, NEW f \in Folders
  PROVE  /\ Listing(f) \subseteq MailRows
         /\ \A r \in Listing(f) : TrueRow(r) /\ r.gen = <<f, gen[f]>> /\ r.mail \in held
<1>1. ASSUME NEW r \in Listing(f)
      PROVE  r \in MailRows /\ TrueRow(r) /\ r.gen = <<f, gen[f]>> /\ r.mail \in held
  <2>1. PICK m \in held : Home[m] = f /\ r = Row(m)
    BY <1>1 DEF Listing
  <2>2. m \in Mails
    BY DEF PlacesOK
  <2> QED
    BY <2>1, <2>2, RowFits
<1> QED
  BY <1>1

LEMMA GenerationOf ==
  ASSUME NEW rs
  PROVE  /\ rs = {} => FolderGeneration(rs) = None
         /\ rs # {} => \E r \in rs : FolderGeneration(rs) = r.gen
         /\ rs \subseteq MailRows => FolderGeneration(rs) \in Generations
<1>1. rs # {} => \E r \in rs : FolderGeneration(rs) = r.gen
  BY DEF FolderGeneration
<1>2. \A r \in MailRows : r.gen \in Numberings
  BY DEF MailRows
<1> QED
  BY <1>1, <1>2 DEF FolderGeneration, Generations

LEMMA NumberingsApart == \A g \in Numberings : g # None
  BY BulkAssumption DEF Numberings

LEMMA NoTicksFit ==
  /\ NoTicks \in TickSets /\ NoTicks.uids = {} /\ NoTicks.meant = {}
  BY DEF NoTicks, TickSets

LEMMA SelNothing ==
  ASSUME sel' = NoTicks
  PROVE  SelOK'
  BY NoTicksFit DEF SelOK, TicksOfRows

\* Ticks survive other rows of the numbering they were made in.
LEMMA RowsBecomeFits ==
  ASSUME BulkInv, NEW rs, rs \subseteq MailRows, \A r \in rs : TrueRow(r) /\ r.gen[1] = folder,
         \A r, s \in rs : r.gen = s.gen, RowsBecome(rs), folder' = folder, hits' = hits
  PROVE  ListOK' /\ SelOK'
<1>1. rows' = rs /\ sel' = IF FolderGeneration(rs) = FolderGeneration(rows) THEN sel ELSE NoTicks
  BY DEF RowsBecome
<1>2. ListOK'
  BY <1>1 DEF ListOK, TrueRow
<1>3. CASE FolderGeneration(rs) # FolderGeneration(rows)
  BY <1>1, <1>2, <1>3, SelNothing
<1>4. CASE FolderGeneration(rs) = FolderGeneration(rows)
  <2>1. sel' = sel /\ sel \in TickSets /\ TicksOfRows(sel) /\ rows \subseteq MailRows
        /\ \A r, s \in rows : r.gen = s.gen
    BY <1>1, <1>4, BulkParts DEF SelOK, ListOK
  <2>2. CASE ~(sel.listed /\ ~sel.whole) \/ (sel.uids = {} /\ sel.meant = {})
    <3>1. TicksOfRows(sel)'
      BY <2>1, <2>2 DEF TicksOfRows
    <3> QED
      BY <1>2, <2>1, <3>1 DEF SelOK
  <2>3. CASE sel.listed /\ ~sel.whole /\ ~(sel.uids = {} /\ sel.meant = {})
    <3>1. hits = None /\ \E r \in rows : TrueTicks(sel, folder, r.gen[2])
      BY <2>1, <2>3 DEF TicksOfRows
    <3>2. PICK r \in rows : TrueTicks(sel, folder, r.gen[2])
      BY <3>1
    <3>3. FolderGeneration(rows) = r.gen /\ r.gen \in Numberings
      BY <2>1, GenerationOf DEF MailRows
    <3>4. FolderGeneration(rs) # None
      BY <1>4, <3>3, NumberingsApart
    <3>5. PICK s \in rs : FolderGeneration(rs) = s.gen
      BY <3>4, GenerationOf
    <3>6. s.gen = r.gen
      BY <1>4, <3>3, <3>5
    <3>7. TrueTicks(sel, folder, s.gen[2])
      BY <3>2, <3>6
    <3>8. s \in rows' /\ sel' = sel /\ folder' = folder /\ hits' = None
      BY <1>1, <2>1, <3>1
    <3>9. TicksOfRows(sel)'
      <4>1. TrueTicks(sel, folder, s.gen[2])'
        BY <3>7, <3>8 DEF TrueTicks
      <4> QED
        BY <3>8, <4>1 DEF TicksOfRows, TrueTicks
    <3> QED
      BY <1>2, <2>1, <3>9 DEF SelOK
  <2> QED
    BY <2>2, <2>3
<1> QED
  BY <1>2, <1>3, <1>4

\* What an action leaves alone stays right.
LEMMA BulkFrame ==
  ASSUME BulkInv
  PROVE  /\ folder' = folder /\ rows' = rows => ListOK'
         /\ hits' = hits => HitsOK'
         /\ open' = open \/ open' = None => OpenOK'
         /\ UNCHANGED <<folder, rows, hits, sel>> => SelOK'
         /\ drag' = drag \/ drag' = None => DragOK'
         /\ dialog' = dialog \/ dialog' = None => QuestionOK'
         /\ calls' \subseteq calls => BulkCallsOK'
         /\ UNCHANGED <<folder, held, gen>> => PlacesOK'
<1>1. /\ ListOK /\ HitsOK /\ OpenOK /\ SelOK /\ DragOK /\ QuestionOK /\ BulkCallsOK /\ PlacesOK
  BY BulkParts
<1>2. /\ folder' = folder /\ rows' = rows => ListOK'
      /\ hits' = hits => HitsOK'
      /\ open' = open \/ open' = None => OpenOK'
  BY <1>1 DEF ListOK, HitsOK, OpenOK
<1>3. UNCHANGED <<folder, rows, hits, sel>> => SelOK'
  BY <1>1 DEF SelOK, TicksOfRows
<1>4. /\ drag' = drag \/ drag' = None => DragOK'
      /\ dialog' = dialog \/ dialog' = None => QuestionOK'
      /\ calls' \subseteq calls => BulkCallsOK'
      /\ UNCHANGED <<folder, held, gen>> => PlacesOK'
  BY <1>1 DEF DragOK, QuestionOK, BulkCallsOK, PlacesOK
<1> QED
  BY <1>2, <1>3, <1>4

LEMMA VisibleFits ==
  ASSUME BulkInv
  PROVE  /\ \A r \in Visible : r \in MailRows /\ TrueRow(r)
         /\ hits = None => Visible = rows
         /\ Visible \subseteq MailRows
<1>1. ListOK /\ HitsOK
  BY BulkParts
<1> QED
  BY <1>1 DEF Visible, ListOK, HitsOK

\* A row names its mail in its own numbering, and no other mail of its folder.
LEMMA RowNames ==
  ASSUME NEW r \in MailRows, TrueRow(r)
  PROVE  /\ r.mail \in Mails /\ r.uid \in Nat /\ r.gen \in Numberings
         /\ r.gen[1] \in Folders /\ r.gen[2] \in 0..MaxGen /\ r.gen[1] = Home[r.mail]
         /\ r.uid = Number[r.mail][r.gen[2]] /\ r.gen = <<r.gen[1], r.gen[2]>>
         /\ TrueTicks(RowTicks(r), r.gen[1], r.gen[2]) /\ RowTicks(r) \in TickSets
         /\ \A m \in Mails : Home[m] = r.gen[1] /\ Number[m][r.gen[2]] = r.uid => m = r.mail
<1>1. /\ r.mail \in Mails /\ r.uid \in Nat /\ r.gen \in Numberings
      /\ r.gen[1] = Home[r.mail] /\ r.uid = Number[r.mail][r.gen[2]]
  BY DEF MailRows, TrueRow
<1>2. r.gen[1] \in Folders /\ r.gen[2] \in 0..MaxGen /\ r.gen = <<r.gen[1], r.gen[2]>>
  BY <1>1 DEF Numberings
<1>3. /\ RowTicks(r).uids = {r.uid} /\ RowTicks(r).meant = {r.mail}
      /\ RowTicks(r).whole = FALSE /\ RowTicks(r).listed = TRUE
  BY DEF RowTicks
<1>4. TrueTicks(RowTicks(r), r.gen[1], r.gen[2])
  BY <1>1, <1>3 DEF TrueTicks
<1>5. RowTicks(r) \in TickSets
  BY <1>1 DEF RowTicks, TickSets
<1>6. \A m \in Mails : Home[m] = r.gen[1] /\ Number[m][r.gen[2]] = r.uid => m = r.mail
  BY <1>1, <1>2, BulkAssumption
<1> QED
  BY <1>1, <1>2, <1>4, <1>5, <1>6

LEMMA GenerationsFit ==
  ASSUME BulkInv
  PROVE  /\ FolderGeneration(rows) \in Generations
         /\ \A r \in rows : FolderGeneration(rows) = r.gen /\ r \in MailRows /\ TrueRow(r) /\ r.gen[1] = folder
         /\ \A u : IdentityFor(u) \in Generations
<1>1. ListOK /\ OpenOK /\ rows \subseteq MailRows
  BY BulkParts DEF ListOK
<1>2. \A r \in rows : FolderGeneration(rows) = r.gen
  BY <1>1, GenerationOf DEF ListOK
<1>3. ASSUME NEW u PROVE IdentityFor(u) \in Generations
  <2>1. PICK known : known = {r \in (IF open = None THEN {} ELSE {open}) : r.uid = u /\ r.gen[1] = folder}
    OBVIOUS
  <2>2. PICK among : among = {r \in Visible \cup rows : r.uid = u /\ r.gen[1] = folder}
    OBVIOUS
  <2>3. IdentityFor(u) = FolderGeneration(IF known # {} THEN known ELSE among)
    BY <2>1, <2>2 DEF IdentityFor
  <2>4. known \subseteq MailRows
    BY <1>1, <2>1 DEF OpenOK
  <2>5. among \subseteq MailRows
    BY <1>1, <2>2, VisibleFits
  <2> QED
    BY <2>3, <2>4, <2>5, GenerationOf
<1> QED
  BY <1>1, <1>2, <1>3, GenerationOf DEF ListOK

\* A new request: what it names from the list or a row is what is meant.
LEMMA BulkRequestFits ==
  ASSUME BulkInv, NEW op \in BulkOps, NEW f \in Folders, NEW t \in TickSets, NEW g \in Generations,
         NEW how \in {"list", "row", "other"},
         how # "other" => g \in Numberings /\ op # "uids" /\ (g[1] = f => TrueTicks(t, f, g[2])),
         calls' = calls \cup {Request(op, f, t, g, how)}
  PROVE  BulkCallsOK'
<1>1. PICK c : c = Request(op, f, t, g, how)
  OBVIOUS
<1>2. /\ c.op = op /\ c.folder = f /\ c.uids = t.uids /\ c.gen = g /\ c.meant = t.meant
      /\ c.whole = t.whole /\ c.how = how /\ c.state = "sent" /\ c.touched = {}
  BY <1>1 DEF Request
<1>3. t.uids \in SUBSET Nat /\ t.whole \in BOOLEAN /\ t.meant \in SUBSET Mails
  BY DEF TickSets
<1>4. c \in BulkCalls
  BY <1>1, <1>3 DEF Request, BulkCalls
<1>5. BulkCallFits(c)
  BY <1>2 DEF BulkCallFits, TrueTicks
<1>6. BulkCallsOK
  BY BulkParts
<1> QED
  BY <1>1, <1>4, <1>5, <1>6 DEF BulkCallsOK

\* The rows of a list that loses some.
LEMMA FewerRows ==
  ASSUME BulkInv, NEW rs, rs \subseteq rows
  PROVE  /\ rs \subseteq MailRows /\ (\A r \in rs : TrueRow(r) /\ r.gen[1] = folder)
         /\ (\A r, s \in rs : r.gen = s.gen)
         /\ rows' = rs /\ folder' = folder => ListOK'
<1>1. ListOK
  BY BulkParts
<1> QED
  BY <1>1 DEF ListOK

\* Ticks acted on as those of the list.
LEMMA ActedOnFit ==
  ASSUME BulkInv, sel.uids # {}, HowTicked(sel) = "list"
  PROVE  /\ FolderGeneration(rows) \in Numberings /\ FolderGeneration(rows)[1] = folder
         /\ TrueTicks(sel, folder, FolderGeneration(rows)[2]) /\ rows # {} /\ hits = None
<1>1. sel.listed /\ ~sel.whole
  BY DEF HowTicked
<1>2. SelOK
  BY BulkParts
<1>3. PICK r \in rows : TrueTicks(sel, folder, r.gen[2]) /\ hits = None
  BY <1>1, <1>2 DEF SelOK, TicksOfRows
<1>4. FolderGeneration(rows) = r.gen /\ r \in MailRows /\ r.gen[1] = folder
  BY GenerationsFit
<1>5. r.gen \in Numberings
  BY <1>4 DEF MailRows
<1> QED
  BY <1>3, <1>4, <1>5

LEMMA HowTickedFits ==
  ASSUME NEW t
  PROVE  HowTicked(t) \in {"list", "row", "other"} /\ HowTicked(t) # "row"
  BY DEF HowTicked

-----------------------------------------------------------------------------
(* MailBulk: the user's actions keep the invariant.                            *)

LEMMA SelectFolderKeeps ==
  ASSUME BulkInv, NEW f \in Folders, SelectFolder(f)
  PROVE  BulkInv'
<1>1. /\ folder' = f /\ rows' = Listing(f) /\ sel' = NoTicks /\ open' = None
      /\ UNCHANGED <<hits, drag, dialog, calls, held, gen>>
  BY DEF SelectFolder, serverVars
<1>2. PlacesOK
  BY BulkParts
<1>3. /\ Listing(f) \subseteq MailRows
      /\ \A r \in Listing(f) : TrueRow(r) /\ r.gen = <<f, gen[f]>> /\ r.mail \in held
  BY <1>2, ListingFits
<1>4. ListOK'
  BY <1>1, <1>3 DEF ListOK
<1>5. SelOK' /\ PlacesOK'
  BY <1>1, <1>2, SelNothing DEF PlacesOK
<1> QED
  BY <1>1, <1>4, <1>5, BulkFrame, BulkParts

LEMMA RunFullTextKeeps ==
  ASSUME BulkInv, RunFullText
  PROVE  BulkInv'
<1>1. /\ hits' = UNION {Listing(f) : f \in Folders} /\ sel' = NoTicks /\ open' = None
      /\ UNCHANGED <<folder, rows, drag, dialog, calls, held, gen>>
  BY DEF RunFullText, serverVars
<1>2. PlacesOK
  BY BulkParts
<1>3. ASSUME NEW r \in hits' PROVE r \in MailRows /\ TrueRow(r)
  <2>1. PICK f \in Folders : r \in Listing(f)
    BY <1>1, <1>3
  <2> QED
    BY <1>2, <2>1, ListingFits
<1>4. HitsOK' /\ SelOK'
  BY <1>1, <1>3, SelNothing DEF HitsOK
<1> QED
  BY <1>1, <1>4, BulkFrame, BulkParts

LEMMA ClearFullTextKeeps ==
  ASSUME BulkInv, ClearFullText
  PROVE  BulkInv'
<1>1. hits # None /\ hits' = None /\ UNCHANGED <<folder, rows, open, sel, drag, dialog, calls, held, gen>>
  BY DEF ClearFullText, serverVars
<1>2. SelOK
  BY BulkParts
<1>3. HitsOK' /\ SelOK'
  BY <1>1, <1>2 DEF HitsOK, SelOK, TicksOfRows
<1> QED
  BY <1>1, <1>3, BulkFrame, BulkParts

LEMMA OpenRowKeeps ==
  ASSUME BulkInv, NEW r \in Visible, OpenRow(r)
  PROVE  BulkInv'
<1>1. open' = r /\ UNCHANGED <<folder, rows, hits, sel, drag, dialog, calls, held, gen>>
  BY DEF OpenRow, serverVars
<1>2. OpenOK'
  BY <1>1, VisibleFits DEF OpenOK
<1> QED
  BY <1>1, <1>2, BulkFrame, BulkParts

LEMMA ToggleSelectKeeps ==
  ASSUME BulkInv, NEW r \in Visible, ToggleSelect(r)
  PROVE  BulkInv'
<1>1. UNCHANGED <<folder, rows, hits, open, drag, dialog, calls, held, gen>>
  BY DEF ToggleSelect, serverVars
<1>2. sel \in TickSets /\ TicksOfRows(sel) /\ ListOK
  BY BulkParts DEF SelOK
<1>3. r \in MailRows /\ TrueRow(r) /\ (hits = None => Visible = rows)
  BY VisibleFits
<1>4. PICK gone : gone = {m \in Mails : \E v \in Visible : v.mail = m /\ v.uid = r.uid}
  OBVIOUS
<1>5. CASE r.uid \in sel.uids
  <2>1. sel' = [sel EXCEPT !.uids = @ \ {r.uid}, !.meant = @ \ gone]
    BY <1>4, <1>5 DEF ToggleSelect
  <2>2. sel' = [uids |-> sel.uids \ {r.uid}, whole |-> sel.whole, meant |-> sel.meant \ gone,
                listed |-> sel.listed]
    BY <1>2, <2>1 DEF TickSets
  <2>3. sel' \in TickSets
    BY <1>2, <2>2 DEF TickSets
  <2>4. ASSUME sel.listed, ~sel.whole
        PROVE  hits = None /\ \E s \in rows : TrueTicks(sel', folder, s.gen[2])
    <3>1. PICK s \in rows : hits = None /\ TrueTicks(sel, folder, s.gen[2])
      BY <1>2, <1>5, <2>4 DEF TicksOfRows
    <3>2. Visible = rows /\ s.gen = r.gen /\ r.gen[1] = folder
      BY <1>2, <1>3, <3>1 DEF ListOK
    <3>3. \A m \in Mails : Home[m] = folder /\ Number[m][r.gen[2]] = r.uid => m = r.mail
      BY <1>3, <3>2, RowNames
    <3>4. r.mail \in Mails /\ r.mail \in gone /\ r.uid = Number[r.mail][r.gen[2]]
      BY <1>3, <1>4, RowNames
    <3>5. \A m \in gone : m = r.mail
      <4> TAKE m \in gone
      <4>1. PICK v \in Visible : v.mail = m /\ v.uid = r.uid
        BY <1>4
      <4>2. v \in MailRows /\ TrueRow(v) /\ v.gen = r.gen
        BY <1>2, <3>2, <4>1 DEF ListOK
      <4>3. m \in Mails /\ Home[m] = folder /\ Number[m][r.gen[2]] = r.uid
        BY <3>2, <4>1, <4>2, RowNames
      <4> QED
        BY <3>3, <4>3
    <3>6. sel'.meant = sel.meant \ {r.mail} /\ sel'.uids = sel.uids \ {r.uid}
      BY <2>2, <3>4, <3>5
    <3>7. sel.meant \subseteq Mails /\ \A m \in sel.meant : Home[m] = folder
      BY <1>2, <3>1 DEF TickSets, TrueTicks
    <3>8. sel.uids = {Number[m][r.gen[2]] : m \in sel.meant}
      BY <3>1, <3>2 DEF TrueTicks
    <3>9. sel.uids \ {r.uid} = {Number[m][r.gen[2]] : m \in sel.meant \ {r.mail}}
      BY <3>3, <3>4, <3>7, <3>8
    <3>10. TrueTicks(sel', folder, s.gen[2])
      BY <3>2, <3>6, <3>7, <3>9 DEF TrueTicks
    <3> QED
      BY <3>1, <3>10
  <2>5. sel'.listed = sel.listed /\ sel'.whole = sel.whole
    BY <2>2
  <2>6. SelOK'
    BY <1>1, <2>3, <2>4, <2>5 DEF SelOK, TicksOfRows, TrueTicks
  <2> QED
    BY <1>1, <2>6, BulkFrame, BulkParts
<1>6. CASE r.uid \notin sel.uids
  <2>1. sel' = [sel EXCEPT !.uids = @ \cup {r.uid}, !.meant = @ \cup {r.mail}, !.listed = @ /\ hits = None]
    BY <1>6 DEF ToggleSelect
  <2>2. sel' = [uids |-> sel.uids \cup {r.uid}, whole |-> sel.whole, meant |-> sel.meant \cup {r.mail},
                listed |-> sel.listed /\ hits = None]
    BY <1>2, <2>1 DEF TickSets
  <2>3. sel' \in TickSets
    BY <1>2, <1>3, <2>2, RowNames DEF TickSets
  <2>4. ASSUME sel.listed /\ hits = None, ~sel.whole
        PROVE  \E s \in rows : TrueTicks(sel', folder, s.gen[2])
    <3>1. r \in rows /\ r.gen[1] = folder /\ \A s \in rows : s.gen = r.gen
      BY <1>2, <1>3, <2>4 DEF ListOK
    <3>2. Home[r.mail] = folder /\ r.uid = Number[r.mail][r.gen[2]]
      BY <1>3, <3>1, RowNames
    <3>3. (\A m \in sel.meant : Home[m] = folder) /\ sel.uids = {Number[m][r.gen[2]] : m \in sel.meant}
      <4>1. CASE sel.uids = {} /\ sel.meant = {}
        BY <4>1
      <4>2. CASE \E s \in rows : TrueTicks(sel, folder, s.gen[2])
        BY <3>1, <4>2 DEF TrueTicks
      <4> QED
        BY <1>2, <2>4, <4>1, <4>2 DEF TicksOfRows
    <3>4. sel'.uids = sel.uids \cup {r.uid} /\ sel'.meant = sel.meant \cup {r.mail}
      BY <2>2
    <3>5. TrueTicks(sel', folder, r.gen[2])
      BY <3>2, <3>3, <3>4 DEF TrueTicks
    <3> QED
      BY <3>1, <3>5
  <2>5. (sel'.listed <=> sel.listed /\ hits = None) /\ sel'.whole = sel.whole
    BY <2>2
  <2>6. SelOK'
    BY <1>1, <2>3, <2>4, <2>5 DEF SelOK, TicksOfRows, TrueTicks
  <2> QED
    BY <1>1, <2>6, BulkFrame, BulkParts
<1> QED
  BY <1>5, <1>6

LEMMA ToggleAllKeeps ==
  ASSUME BulkInv, ToggleAll
  PROVE  BulkInv'
<1>1. UNCHANGED <<folder, rows, hits, open, drag, dialog, calls, held, gen>>
  BY DEF ToggleAll, serverVars
<1>2. ListOK
  BY BulkParts
<1>3. CASE sel' = NoTicks
  BY <1>1, <1>3, SelNothing, BulkFrame, BulkParts
<1>4. CASE sel' = Ticks(Visible)
  <2>1. sel' = [uids |-> Uids(Visible), whole |-> FALSE, meant |-> MailsOf(Visible), listed |-> hits = None]
    BY <1>4 DEF Ticks
  <2>2. Uids(Visible) \subseteq Nat /\ MailsOf(Visible) \subseteq Mails
    BY VisibleFits, RowNames DEF Uids, MailsOf
  <2>3. sel' \in TickSets
    BY <2>1, <2>2 DEF TickSets
  <2>4. ASSUME hits = None, rows # {}
        PROVE  \E s \in rows : TrueTicks(sel', folder, s.gen[2])
    <3>1. PICK s \in rows : TRUE
      BY <2>4
    <3>2. Visible = rows /\ \A v \in rows : v.gen = s.gen /\ v \in MailRows /\ TrueRow(v) /\ v.gen[1] = folder
      BY <1>2, <2>4, VisibleFits DEF ListOK
    <3>3. \A v \in rows : v.uid = Number[v.mail][s.gen[2]] /\ Home[v.mail] = folder
      BY <3>2, RowNames
    <3>4. sel'.meant = {v.mail : v \in rows} /\ sel'.uids = {v.uid : v \in rows}
      BY <2>1, <3>2 DEF Uids, MailsOf
    <3>5. sel'.uids = {Number[m][s.gen[2]] : m \in sel'.meant}
      BY <3>3, <3>4
    <3>6. TrueTicks(sel', folder, s.gen[2])
      BY <3>3, <3>4, <3>5 DEF TrueTicks
    <3> QED
      BY <3>6
  <2>5. hits = None /\ rows = {} => sel'.uids = {} /\ sel'.meant = {}
    BY <2>1, VisibleFits DEF Uids, MailsOf
  <2>6. sel'.listed <=> hits = None
    BY <2>1
  <2>7. SelOK'
    BY <1>1, <2>3, <2>4, <2>5, <2>6 DEF SelOK, TicksOfRows, TrueTicks
  <2> QED
    BY <1>1, <2>7, BulkFrame, BulkParts
<1> QED
  BY <1>3, <1>4 DEF ToggleAll

LEMMA SelectWholeFolderKeeps ==
  ASSUME BulkInv, SelectWholeFolder
  PROVE  BulkInv'
<1>1. /\ calls' = calls \cup {Request("uids", folder, NoTicks, FolderGeneration(rows), "other")}
      /\ UNCHANGED <<folder, rows, hits, open, sel, drag, dialog, held, gen>>
  BY DEF SelectWholeFolder, serverVars
<1>2. folder \in Folders /\ NoTicks \in TickSets /\ "uids" \in BulkOps /\ "other" \in {"list", "row", "other"}
  BY BulkParts, NoTicksFit DEF PlacesOK, BulkOps
<1>3. FolderGeneration(rows) \in Generations
  BY GenerationsFit
<1>4. BulkCallsOK'
  BY <1>1, <1>2, <1>3, BulkRequestFits
<1> QED
  BY <1>1, <1>4, BulkFrame, BulkParts

LEMMA AskDeleteKeeps ==
  ASSUME BulkInv, AskDelete
  PROVE  BulkInv'
<1>1. /\ dialog' = [kind |-> "delete", ticks |-> sel, folder |-> folder, gen |-> FolderGeneration(rows)]
      /\ sel.uids # {} /\ UNCHANGED <<folder, rows, hits, open, sel, drag, calls, held, gen>>
  BY DEF AskDelete, BulkBar, serverVars
<1>2. sel \in TickSets /\ folder \in Folders /\ FolderGeneration(rows) \in Generations
  BY BulkParts, GenerationsFit DEF SelOK, PlacesOK
<1>3. dialog' \in BulkQuestions
  BY <1>1, <1>2 DEF BulkQuestions
<1>4. dialog'.ticks = sel /\ dialog'.folder = folder /\ dialog'.gen = FolderGeneration(rows)
  BY <1>1
<1>5. HowTicked(sel) = "list" =>
        /\ FolderGeneration(rows) \in Numberings /\ FolderGeneration(rows)[1] = folder
        /\ TrueTicks(sel, folder, FolderGeneration(rows)[2])
  BY <1>1, ActedOnFit
<1>6. QuestionOK'
  BY <1>3, <1>4, <1>5 DEF QuestionOK, BulkQuestionFits, HowTicked, TrueTicks
<1> QED
  BY <1>1, <1>6, BulkFrame, BulkParts

LEMMA DelSelectedKeeps ==
  ASSUME BulkInv, DelSelected
  PROVE  BulkInv'
<1>1. PICK t : t = dialog.ticks
  OBVIOUS
<1>2. PICK rs : rs = {r \in rows : r.uid \notin t.uids}
  OBVIOUS
<1>3. /\ dialog # None /\ dialog.kind = "delete"
      /\ calls' = calls \cup {Request("delete", dialog.folder, t, dialog.gen, HowTicked(t))}
      /\ rows' = rs /\ sel' = NoTicks /\ (open' = open \/ open' = None) /\ dialog' = None
      /\ UNCHANGED <<folder, hits, drag, held, gen>>
  BY <1>1, <1>2 DEF DelSelected, Modal, serverVars
<1>4. dialog \in BulkQuestions /\ BulkQuestionFits(dialog)
  BY <1>3, BulkParts DEF QuestionOK
<1>5. t \in TickSets /\ dialog.folder \in Folders /\ dialog.gen \in Generations /\ "delete" \in BulkOps
  BY <1>1, <1>4 DEF BulkQuestions, BulkOps
<1>6. HowTicked(t) = "list" =>
        dialog.gen \in Numberings /\ dialog.gen[1] = dialog.folder
        /\ TrueTicks(t, dialog.folder, dialog.gen[2])
  BY <1>1, <1>3, <1>4 DEF BulkQuestionFits
<1>7. HowTicked(t) \in {"list", "row", "other"} /\ HowTicked(t) # "row"
  BY HowTickedFits
<1>8. BulkCallsOK'
  BY <1>3, <1>5, <1>6, <1>7, BulkRequestFits
<1>9. ListOK' /\ SelOK'
  BY <1>2, <1>3, FewerRows, SelNothing
<1> QED
  BY <1>3, <1>8, <1>9, BulkFrame, BulkParts

LEMMA DismissKeeps ==
  ASSUME BulkInv, Dismiss
  PROVE  BulkInv'
<1>1. dialog' = None /\ UNCHANGED <<folder, rows, hits, open, sel, drag, calls, held, gen>>
  BY DEF Dismiss, serverVars
<1> QED
  BY <1>1, BulkFrame, BulkParts

\* The ticks go out with the folder selected and the generation of its rows.
LEMMA TicksGoOut ==
  ASSUME BulkInv, sel.uids # {}, NEW op \in BulkOps, op # "uids",
         calls' = calls \cup {Request(op, folder, sel, FolderGeneration(rows), HowTicked(sel))}
  PROVE  BulkCallsOK'
<1>1. sel \in TickSets /\ folder \in Folders /\ FolderGeneration(rows) \in Generations
  BY BulkParts, GenerationsFit DEF SelOK, PlacesOK
<1>2. HowTicked(sel) \in {"list", "row", "other"} /\ HowTicked(sel) # "row"
  BY HowTickedFits
<1>3. HowTicked(sel) = "list" =>
        /\ FolderGeneration(rows) \in Numberings /\ FolderGeneration(rows)[1] = folder
        /\ TrueTicks(sel, folder, FolderGeneration(rows)[2])
  BY ActedOnFit
<1> QED
  BY <1>1, <1>2, <1>3, BulkRequestFits

LEMMA MarkSelectedSeenKeeps ==
  ASSUME BulkInv, MarkSelectedSeen
  PROVE  BulkInv'
<1>1. /\ sel.uids # {} /\ sel' = NoTicks
      /\ calls' = calls \cup {Request("seen", folder, sel, FolderGeneration(rows), HowTicked(sel))}
      /\ UNCHANGED <<folder, rows, hits, open, drag, dialog, held, gen>>
  BY DEF MarkSelectedSeen, BulkBar, serverVars
<1>2. "seen" \in BulkOps
  BY DEF BulkOps
<1>3. BulkCallsOK' /\ SelOK'
  BY <1>1, <1>2, TicksGoOut, SelNothing
<1> QED
  BY <1>1, <1>3, BulkFrame, BulkParts

LEMMA MoveSelectedKeeps ==
  ASSUME BulkInv, NEW dest, MoveSelected(dest)
  PROVE  BulkInv'
<1>1. PICK rs : rs = {r \in rows : r.uid \notin sel.uids}
  OBVIOUS
<1>2. /\ sel.uids # {} /\ sel' = NoTicks /\ rows' = rs /\ (open' = open \/ open' = None)
      /\ calls' = calls \cup {Request("move", folder, sel, FolderGeneration(rows), HowTicked(sel))}
      /\ UNCHANGED <<folder, hits, drag, dialog, held, gen>>
  BY <1>1 DEF MoveSelected, BulkBar, serverVars
<1>3. "move" \in BulkOps
  BY DEF BulkOps
<1>4. BulkCallsOK' /\ SelOK' /\ ListOK'
  BY <1>1, <1>2, <1>3, TicksGoOut, SelNothing, FewerRows
<1> QED
  BY <1>2, <1>4, BulkFrame, BulkParts

LEMMA StartDragKeeps ==
  ASSUME BulkInv, NEW r \in Visible, StartDrag(r)
  PROVE  BulkInv'
<1>1. /\ drag' = sel \/ drag' = RowTicks(r)
      /\ UNCHANGED <<folder, rows, hits, open, sel, dialog, calls, held, gen>>
  BY DEF StartDrag, serverVars
<1>2. sel \in TickSets /\ RowTicks(r) \in TickSets
  BY BulkParts, VisibleFits, RowNames DEF SelOK
<1>3. DragOK'
  BY <1>1, <1>2 DEF DragOK
<1> QED
  BY <1>1, <1>3, BulkFrame, BulkParts

LEMMA DropKeeps ==
  ASSUME BulkInv, NEW dest, Drop(dest)
  PROVE  BulkInv'
<1>1. drag # None /\ drag' = None /\ UNCHANGED <<folder, hits, dialog, held, gen>>
  BY DEF Drop, serverVars
<1>2. CASE dest = folder
  <2>1. UNCHANGED <<rows, sel, open, calls>>
    BY <1>2 DEF Drop
  <2> QED
    BY <1>1, <2>1, BulkFrame, BulkParts
<1>3. CASE dest # folder
  <2>1. PICK rs : rs = {r \in rows : r.uid \notin drag.uids}
    OBVIOUS
  <2>2. /\ calls' = calls \cup {Request("move", folder, drag, FolderGeneration(rows), "other")}
        /\ rows' = rs /\ sel' = NoTicks /\ (open' = open \/ open' = None)
    BY <1>3, <2>1 DEF Drop
  <2>3. /\ drag \in TickSets /\ folder \in Folders /\ FolderGeneration(rows) \in Generations
        /\ "move" \in BulkOps /\ "other" \in {"list", "row", "other"}
    BY <1>1, BulkParts, GenerationsFit DEF DragOK, PlacesOK, BulkOps
  <2>4. BulkCallsOK'
    BY <2>2, <2>3, BulkRequestFits
  <2>5. ListOK' /\ SelOK'
    BY <1>1, <2>1, <2>2, FewerRows, SelNothing
  <2> QED
    BY <1>1, <2>2, <2>4, <2>5, BulkFrame, BulkParts
<1> QED
  BY <1>2, <1>3

LEMMA OpenTransferKeeps ==
  ASSUME BulkInv, OpenTransfer
  PROVE  BulkInv'
<1>1. UNCHANGED <<folder, rows, hits, open, sel, drag, calls, held, gen>>
  BY DEF OpenTransfer, serverVars
<1>2. PICK t \in {sel} \cup (IF open = None THEN {} ELSE {RowTicks(open)}) : \E u \in t.uids :
         dialog' = [kind |-> "transfer", ticks |-> t, folder |-> folder, gen |-> IdentityFor(u)]
  BY DEF OpenTransfer
<1>3. PICK u : dialog' = [kind |-> "transfer", ticks |-> t, folder |-> folder, gen |-> IdentityFor(u)]
  BY <1>2
<1>4. t \in TickSets
  BY BulkParts, RowNames DEF SelOK, OpenOK
<1>5. folder \in Folders /\ IdentityFor(u) \in Generations
  BY BulkParts, GenerationsFit DEF PlacesOK
<1>6. dialog' \in BulkQuestions
  BY <1>3, <1>4, <1>5 DEF BulkQuestions
<1>7. dialog'.kind = "transfer"
  BY <1>3
<1>8. QuestionOK'
  BY <1>6, <1>7 DEF QuestionOK, BulkQuestionFits
<1> QED
  BY <1>1, <1>8, BulkFrame, BulkParts

LEMMA SubmitTransferKeeps ==
  ASSUME BulkInv, NEW op \in {"transfer", "copy"}, SubmitTransfer(op)
  PROVE  BulkInv'
<1>1. /\ dialog # None
      /\ calls' = calls \cup {Request(op, dialog.folder, dialog.ticks, dialog.gen, "other")}
      /\ UNCHANGED <<folder, rows, hits, open, sel, drag, dialog, held, gen>>
  BY DEF SubmitTransfer, Modal, serverVars
<1>2. dialog \in BulkQuestions
  BY <1>1, BulkParts DEF QuestionOK
<1>3. /\ dialog.ticks \in TickSets /\ dialog.folder \in Folders /\ dialog.gen \in Generations
      /\ op \in BulkOps /\ "other" \in {"list", "row", "other"}
  BY <1>2 DEF BulkQuestions, BulkOps
<1>4. BulkCallsOK'
  BY <1>1, <1>3, BulkRequestFits
<1> QED
  BY <1>1, <1>4, BulkFrame, BulkParts

LEMMA ToggleFlagKeeps ==
  ASSUME BulkInv, NEW r \in Visible, ToggleFlag(r)
  PROVE  BulkInv'
<1>1. /\ calls' = calls \cup {Request("flag", folder, RowTicks(r), r.gen, "row")}
      /\ UNCHANGED <<folder, rows, hits, open, sel, drag, dialog, held, gen>>
  BY DEF ToggleFlag, serverVars
<1>2. /\ RowTicks(r) \in TickSets /\ r.gen \in Numberings /\ r.gen[1] \in Folders
      /\ TrueTicks(RowTicks(r), r.gen[1], r.gen[2])
  BY VisibleFits, RowNames
<1>3. /\ folder \in Folders /\ r.gen \in Generations /\ "flag" \in BulkOps /\ "flag" # "uids"
      /\ "row" \in {"list", "row", "other"}
  BY <1>2, BulkParts DEF PlacesOK, BulkOps, Generations
<1>4. BulkCallsOK'
  BY <1>1, <1>2, <1>3, BulkRequestFits
<1> QED
  BY <1>1, <1>4, BulkFrame, BulkParts

LEMMA MoveMsgKeeps ==
  ASSUME BulkInv, NEW dest, MoveMsg(dest)
  PROVE  BulkInv'
<1>1. /\ open # None
      /\ calls' = calls \cup {Request("moveOne", open.gen[1], RowTicks(open), open.gen, "row")}
      /\ UNCHANGED <<folder, rows, hits, open, sel, drag, dialog, held, gen>>
  BY DEF MoveMsg, serverVars
<1>2. open \in MailRows /\ TrueRow(open)
  BY <1>1, BulkParts DEF OpenOK
<1>3. /\ RowTicks(open) \in TickSets /\ open.gen \in Numberings /\ open.gen[1] \in Folders
      /\ TrueTicks(RowTicks(open), open.gen[1], open.gen[2])
  BY <1>2, RowNames
<1>4. open.gen \in Generations /\ "moveOne" \in BulkOps /\ "moveOne" # "uids" /\ "row" \in {"list", "row", "other"}
  BY <1>3 DEF BulkOps, Generations
<1>5. BulkCallsOK'
  BY <1>1, <1>3, <1>4, BulkRequestFits
<1> QED
  BY <1>1, <1>5, BulkFrame, BulkParts

-----------------------------------------------------------------------------
(* MailBulk: the server, its answers and faults keep the invariant.            *)

\* A request that gives way to another state of it.
LEMMA RequestBecomes ==
  ASSUME BulkInv, NEW c \in calls, NEW d, d \in BulkCalls, BulkCallFits(d), calls' = (calls \ {c}) \cup {d}
  PROVE  BulkCallsOK'
<1>1. BulkCallsOK
  BY BulkParts
<1> QED
  BY <1>1 DEF BulkCallsOK

\* A request the server accepts from the list or a row finds its mails and no others.
LEMMA ResolvesToMeant ==
  ASSUME BulkInv, NEW c \in calls, c.how \in {"list", "row"}, Accepted(c)
  PROVE  Resolve(c) \subseteq c.meant
<1>1. c \in BulkCalls /\ BulkCallFits(c) /\ PlacesOK
  BY BulkParts DEF BulkCallsOK
<1>2. c.gen \in Numberings /\ (c.gen[1] = c.folder => TrueTicks(c, c.folder, c.gen[2]))
  BY <1>1 DEF BulkCallFits
<1>3. c.gen = <<c.folder, gen[c.folder]>>
  BY <1>2, NumberingsApart DEF Accepted
<1>4. TrueTicks(c, c.folder, gen[c.folder])
  BY <1>2, <1>3
<1>5. c.folder \in Folders /\ gen[c.folder] \in 0..MaxGen /\ held \subseteq Mails /\ c.meant \subseteq Mails
  BY <1>1 DEF BulkCalls, PlacesOK
<1>6. ASSUME NEW m \in Resolve(c) PROVE m \in c.meant
  <2>1. m \in Mails /\ Home[m] = c.folder /\ Number[m][gen[c.folder]] \in c.uids
    BY <1>5, <1>6 DEF Resolve
  <2>2. PICK n \in c.meant : Number[n][gen[c.folder]] = Number[m][gen[c.folder]]
    BY <1>4, <2>1 DEF TrueTicks
  <2>3. n \in Mails /\ Home[n] = c.folder
    BY <1>4, <1>5, <2>2 DEF TrueTicks
  <2>4. m = n
    BY <1>5, <2>1, <2>2, <2>3, BulkAssumption
  <2> QED
    BY <2>2, <2>4
<1> QED
  BY <1>6

LEMMA BulkServerKeeps ==
  ASSUME BulkInv, NEW c \in calls, ServerDoes(c)
  PROVE  BulkInv'
<1>1. /\ UNCHANGED <<folder, rows, hits, open, sel, drag, dialog, gen>> /\ held' \subseteq held
  BY DEF ServerDoes
<1>2. c \in BulkCalls /\ BulkCallFits(c) /\ PlacesOK
  BY BulkParts DEF BulkCallsOK
<1>3. Resolve(c) \subseteq Mails /\ c.folder \in Folders
  BY <1>2 DEF Resolve, PlacesOK, BulkCalls
<1>4. PICK fresh : fresh = Listing(c.folder)
  OBVIOUS
<1>5. Uids(fresh) \subseteq Nat /\ MailsOf(fresh) \subseteq Mails
  BY <1>2, <1>3, <1>4, ListingFits DEF Uids, MailsOf, MailRows
<1>6. CASE ~Accepted(c)
  <2>1. PICK d : d = [c EXCEPT !.state = "refused"]
    OBVIOUS
  <2>2. calls' = (calls \ {c}) \cup {d}
    BY <1>6, <2>1 DEF ServerDoes
  <2>3. d \in BulkCalls /\ d.how = c.how /\ d.gen = c.gen /\ d.op = c.op /\ d.touched = c.touched
        /\ d.meant = c.meant /\ d.folder = c.folder /\ d.uids = c.uids
    BY <1>2, <2>1 DEF BulkCalls
  <2>4. BulkCallFits(d)
    BY <1>2, <2>3 DEF BulkCallFits, TrueTicks
  <2>5. BulkCallsOK'
    BY <2>2, <2>3, <2>4, RequestBecomes
  <2> QED
    BY <1>1, <1>2, <2>5, BulkFrame, BulkParts DEF PlacesOK
<1>7. CASE Accepted(c) /\ c.op = "uids"
  <2>1. PICK d : d = [c EXCEPT !.state = "done", !.uids = Uids(fresh), !.meant = MailsOf(fresh)]
    OBVIOUS
  <2>2. calls' = (calls \ {c}) \cup {d}
    BY <1>4, <1>7, <2>1 DEF ServerDoes
  <2>3. d = [op |-> c.op, folder |-> c.folder, uids |-> Uids(fresh), gen |-> c.gen, meant |-> MailsOf(fresh),
             whole |-> c.whole, how |-> c.how, state |-> "done", touched |-> c.touched]
    BY <1>2, <2>1 DEF BulkCalls
  <2>4. d \in BulkCalls
    BY <1>2, <1>5, <2>3 DEF BulkCalls
  <2>5. d.how = c.how /\ c.how \notin {"list", "row"}
    BY <1>2, <1>7, <2>3 DEF BulkCallFits
  <2>6. BulkCallFits(d)
    BY <2>5 DEF BulkCallFits
  <2>7. BulkCallsOK'
    BY <2>2, <2>4, <2>6, RequestBecomes
  <2> QED
    BY <1>1, <1>2, <2>7, BulkFrame, BulkParts DEF PlacesOK
<1>8. CASE Accepted(c) /\ c.op # "uids"
  <2>1. PICK d : d = [c EXCEPT !.state = "done", !.touched = Resolve(c)]
    OBVIOUS
  <2>2. calls' = (calls \ {c}) \cup {d}
    BY <1>8, <2>1 DEF ServerDoes
  <2>3. d \in BulkCalls /\ d.how = c.how /\ d.gen = c.gen /\ d.op = c.op /\ d.touched = Resolve(c)
        /\ d.meant = c.meant /\ d.folder = c.folder /\ d.uids = c.uids
    BY <1>2, <1>3, <2>1 DEF BulkCalls
  <2>4. BulkCallFits(d)
    BY <1>2, <1>8, <2>3, ResolvesToMeant DEF BulkCallFits, TrueTicks
  <2>5. BulkCallsOK'
    BY <2>2, <2>3, <2>4, RequestBecomes
  <2> QED
    BY <1>1, <1>2, <2>5, BulkFrame, BulkParts DEF PlacesOK
<1> QED
  BY <1>6, <1>7, <1>8

LEMMA RenumberKeeps ==
  ASSUME BulkInv, NEW f \in Folders, Renumber(f)
  PROVE  BulkInv'
<1>1. gen[f] < MaxGen /\ gen' = [gen EXCEPT ![f] = @ + 1]
      /\ UNCHANGED <<folder, rows, hits, open, sel, drag, dialog, calls, held>>
  BY DEF Renumber
<1>2. PlacesOK /\ MaxGen \in Nat
  BY BulkParts, BulkAssumption
<1>3. gen[f] + 1 \in 0..MaxGen
  BY <1>1, <1>2 DEF PlacesOK
<1>4. PlacesOK'
  BY <1>1, <1>2, <1>3 DEF PlacesOK
<1> QED
  BY <1>1, <1>4, BulkFrame, BulkParts

LEMMA SyncedKeeps ==
  ASSUME BulkInv, Synced
  PROVE  BulkInv'
<1>1. /\ RowsBecome(Listing(folder)) /\ UNCHANGED <<folder, hits, open, drag, dialog, calls, held, gen>>
  BY DEF Synced, serverVars
<1>2. PlacesOK /\ folder \in Folders
  BY BulkParts DEF PlacesOK
<1>3. /\ Listing(folder) \subseteq MailRows
      /\ \A r \in Listing(folder) : TrueRow(r) /\ r.gen = <<folder, gen[folder]>>
  BY <1>2, ListingFits
<1>4. ListOK' /\ SelOK'
  <2>1. (\A r \in Listing(folder) : TrueRow(r) /\ r.gen[1] = folder)
        /\ \A r, s \in Listing(folder) : r.gen = s.gen
    BY <1>3
  <2> QED
    BY <1>1, <1>3, <2>1, RowsBecomeFits
<1> QED
  BY <1>1, <1>4, BulkFrame, BulkParts

LEMMA ReloadedFits ==
  ASSUME BulkInv, Reloaded, UNCHANGED folder
  PROVE  ListOK' /\ SelOK'
<1>1. PlacesOK /\ folder \in Folders
  BY BulkParts DEF PlacesOK
<1>2. /\ Listing(folder) \subseteq MailRows
      /\ \A r \in Listing(folder) : TrueRow(r) /\ r.gen = <<folder, gen[folder]>>
  BY <1>1, ListingFits
<1>3. rows' = Listing(folder) /\ sel' = NoTicks
  BY DEF Reloaded
<1> QED
  BY <1>2, <1>3, SelNothing DEF ListOK

LEMMA VanishFits ==
  ASSUME BulkInv, NEW t, Vanish(t), UNCHANGED <<folder, hits>>
  PROVE  ListOK' /\ SelOK' /\ (open' = open \/ open' = None)
<1>1. PICK rs : rs = {r \in rows : r.uid \notin t.uids}
  OBVIOUS
<1>2. RowsBecome(rs) /\ (open' = open \/ open' = None)
  BY <1>1 DEF Vanish
<1>3. /\ rs \subseteq MailRows /\ (\A r \in rs : TrueRow(r) /\ r.gen[1] = folder)
      /\ (\A r, s \in rs : r.gen = s.gen)
  BY <1>1, FewerRows
<1> QED
  BY <1>2, <1>3, RowsBecomeFits

LEMMA BulkAnswersKeeps ==
  ASSUME BulkInv, NEW c \in calls, BulkAnswers(c)
  PROVE  BulkInv'
<1>1. /\ calls' = calls \ {c} /\ (dialog' = dialog \/ dialog' = None)
      /\ UNCHANGED <<folder, hits, drag, held, gen>>
  BY DEF BulkAnswers, serverVars
<1>2. CASE UNCHANGED <<rows, sel>> /\ (open' = open \/ open' = None)
  BY <1>1, <1>2, BulkFrame, BulkParts
<1>3. CASE Reloaded /\ (open' = open \/ open' = None)
  BY <1>1, <1>3, ReloadedFits, BulkFrame, BulkParts
<1>4. CASE Vanish(c)
  BY <1>1, <1>4, VanishFits, BulkFrame, BulkParts
<1>5. CASE /\ c.op = "uids" /\ UNCHANGED <<rows, open>>
           /\ sel' = [uids |-> c.uids, whole |-> TRUE, meant |-> c.meant, listed |-> FALSE]
  <2>1. c \in BulkCalls
    BY BulkParts DEF BulkCallsOK
  <2>2. sel' \in TickSets
    BY <1>5, <2>1 DEF TickSets, BulkCalls
  <2>3. ~sel'.listed
    BY <1>5
  <2>4. SelOK'
    BY <2>2, <2>3 DEF SelOK, TicksOfRows
  <2> QED
    BY <1>1, <1>5, <2>4, BulkFrame, BulkParts
<1>6. c.op = "uids" =>
        /\ UNCHANGED <<rows, open>>
        /\ \/ sel' = sel
           \/ sel' = [uids |-> c.uids, whole |-> TRUE, meant |-> c.meant, listed |-> FALSE]
  BY DEF BulkAnswers
<1>7. c.op \in {"delete", "move", "seen"} => open' = open /\ (Reloaded \/ UNCHANGED <<rows, sel>>)
  BY DEF BulkAnswers
<1>8. c.op = "transfer" => (Reloaded /\ open' = None) \/ UNCHANGED <<rows, sel, open>>
  BY DEF BulkAnswers
<1>9. c.op = "moveOne" => Vanish(c) \/ UNCHANGED <<rows, sel, open>>
  BY DEF BulkAnswers
<1>10. c.op \notin {"uids", "delete", "move", "seen", "transfer", "moveOne"} => UNCHANGED <<rows, sel, open>>
  BY DEF BulkAnswers
<1> QED
  BY <1>2, <1>3, <1>4, <1>5, <1>6, <1>7, <1>8, <1>9, <1>10

LEMMA LostKeeps ==
  ASSUME BulkInv, NEW c \in calls, Lost(c)
  PROVE  BulkInv'
<1>1. PICK d : d = [c EXCEPT !.state = "failed"]
  OBVIOUS
<1>2. calls' = (calls \ {c}) \cup {d} /\ UNCHANGED <<folder, rows, hits, open, sel, drag, dialog, held, gen>>
  BY <1>1 DEF Lost, serverVars
<1>3. c \in BulkCalls /\ BulkCallFits(c)
  BY BulkParts DEF BulkCallsOK
<1>4. d \in BulkCalls /\ d.how = c.how /\ d.gen = c.gen /\ d.op = c.op /\ d.touched = c.touched
      /\ d.meant = c.meant /\ d.folder = c.folder /\ d.uids = c.uids
  BY <1>1, <1>3 DEF BulkCalls
<1>5. BulkCallFits(d)
  BY <1>3, <1>4 DEF BulkCallFits, TrueTicks
<1>6. BulkCallsOK'
  BY <1>2, <1>4, <1>5, RequestBecomes
<1> QED
  BY <1>2, <1>6, BulkFrame, BulkParts

LEMMA BulkStart ==
  ASSUME BulkInit
  PROVE  BulkInv
<1>1. folder \in Folders /\ held = Mails /\ gen \in [Folders -> 0..MaxGen]
  BY BulkAssumption DEF BulkInit
<1>2. PlacesOK
  BY <1>1 DEF PlacesOK
<1>3. folder = Start /\ rows = Listing(Start) /\ hits = None /\ open = None /\ sel = NoTicks /\ drag = None
      /\ dialog = None /\ calls = {}
  BY DEF BulkInit
<1>4. ListOK
  <2>1. /\ Listing(folder) \subseteq MailRows
        /\ \A r \in Listing(folder) : TrueRow(r) /\ r.gen = <<folder, gen[folder]>>
    BY <1>1, <1>2, ListingFits
  <2> QED
    BY <1>3, <2>1 DEF ListOK
<1>5. SelOK
  BY <1>3, NoTicksFit DEF SelOK, TicksOfRows
<1>6. HitsOK /\ OpenOK /\ DragOK /\ QuestionOK /\ BulkCallsOK
  BY <1>3 DEF HitsOK, OpenOK, DragOK, QuestionOK, BulkCallsOK
<1> QED
  BY <1>2, <1>4, <1>5, <1>6, BulkParts

LEMMA BulkStep ==
  ASSUME BulkInv, BulkNext \/ UNCHANGED bulkVars
  PROVE  BulkInv'
<1>1. CASE UNCHANGED bulkVars
  BY <1>1, BulkFrame, BulkParts DEF bulkVars
<1>2. CASE BulkUser
  <2>1. ASSUME NEW f \in Folders, SelectFolder(f) \/ MoveSelected(f) \/ Drop(f) \/ MoveMsg(f)
        PROVE  BulkInv'
    BY <2>1, SelectFolderKeeps, MoveSelectedKeeps, DropKeeps, MoveMsgKeeps
  <2>2. CASE RunFullText \/ ClearFullText \/ ToggleAll \/ SelectWholeFolder
    BY <2>2, RunFullTextKeeps, ClearFullTextKeeps, ToggleAllKeeps, SelectWholeFolderKeeps
  <2>3. ASSUME NEW r \in Visible, OpenRow(r) \/ ToggleSelect(r) \/ StartDrag(r) \/ ToggleFlag(r)
        PROVE  BulkInv'
    BY <2>3, OpenRowKeeps, ToggleSelectKeeps, StartDragKeeps, ToggleFlagKeeps
  <2>4. CASE AskDelete \/ DelSelected \/ Dismiss \/ MarkSelectedSeen
    BY <2>4, AskDeleteKeeps, DelSelectedKeeps, DismissKeeps, MarkSelectedSeenKeeps
  <2>5. CASE OpenTransfer \/ \E op \in {"transfer", "copy"} : SubmitTransfer(op)
    BY <2>5, OpenTransferKeeps, SubmitTransferKeeps
  <2> QED
    BY <1>2, <2>1, <2>2, <2>3, <2>4, <2>5 DEF BulkUser
<1>3. ASSUME NEW c \in calls, Lost(c) \/ ServerDoes(c) \/ BulkAnswers(c) PROVE BulkInv'
  BY <1>3, LostKeeps, BulkServerKeeps, BulkAnswersKeeps
<1>4. CASE Synced \/ \E f \in Folders : Renumber(f)
  BY <1>4, SyncedKeeps, RenumberKeeps
<1> QED
  BY <1>1, <1>2, <1>3, <1>4 DEF BulkNext, ByUser, ByFault, ByItself

\* What the invariant says of the ticks shown and of what was touched.
LEMMA BulkGives ==
  ASSUME BulkInv
  PROVE  TicksAreTouched /\ TicksOfShown /\ BulkTypeOK
<1>1. TicksAreTouched
  BY DEF BulkInv, BulkCallFits, TicksAreTouched
<1>2. ASSUME sel.listed, ~sel.whole, sel.uids # {}
      PROVE  /\ rows # {} /\ FolderGeneration(rows)[1] = folder
             /\ sel.uids = {Number[m][FolderGeneration(rows)[2]] : m \in sel.meant}
  <2>1. HowTicked(sel) = "list"
    BY <1>2 DEF HowTicked
  <2> QED
    BY <1>2, <2>1, ActedOnFit DEF TrueTicks
<1> QED
  BY <1>1, <1>2 DEF BulkInv, TicksOfShown
-----------------------------------------------------------------------------
(* Compose: what a text and a body consist of, so that a draft saved and opened *)
(* again doubles nothing, and which clicks requests come from.                  *)

NoTwice(b) == \A i, j \in DOMAIN b : b[i] = b[j] => i = j
\* What is in the editor: nothing that is put around it.
TextFits(f) ==
    /\ NoTwice(f.text)
    /\ \A i \in DOMAIN f.text : f.text[i] \notin {"signature", "intro", "quoted"}
    /\ f.quote = "forward" => \A i \in DOMAIN f.text : f.text[i] \notin {"head", "original"}
\* A quotation stands at the end, behind its introduction.
BodyFits(b) ==
    /\ NoTwice(b)
    /\ \A i \in DOMAIN b : b[i] = "quoted" => i = Len(b)
    /\ \A i \in DOMAIN b : b[i] = "intro" => i = Len(b) - 1 /\ b[Len(b)] = "quoted"
GoesOut(p) == p.op \in {"send", "schedule"}

FormOK == form # None => form \in Windows /\ TextFits(form)
SendingOK ==
    sending # None =>
        /\ sending \in [left : 1..Undo, click : Nat, form : Windows] /\ form # None
        /\ TextFits(sending.form) /\ Allowed(sending.form) /\ sending.form.quote = form.quote
        /\ sending.click \notin undone
PostsOK == \A p \in posts : p \in Posts /\ BodyFits(p.body) /\ (p.mine => form # None)
BoxOK ==
    /\ mailbox \in [sent : SUBSET Posts, draft : Posts \cup {None},
                    templates : SUBSET {"body", "subject"}]
    /\ \A p \in mailbox.sent : BodyFits(p.body)
    /\ mailbox.draft # None => BodyFits(mailbox.draft.body)
\* What goes out was allowed, and its click is not taken back any more.
OutOK ==
    \A p \in posts \cup mailbox.sent : GoesOut(p) =>
        p.to /\ p.files < 2 /\ p.click \notin undone /\ (sending # None => p.click # sending.click)
\* Every click is one of the moves made so far.
ClicksOK == moves \in Nat /\ undone \subseteq Nat /\ \A k \in Clicks : k \in Nat /\ k <= moves

ComposeInv == FormOK /\ SendingOK /\ PostsOK /\ BoxOK /\ OutOK /\ ClicksOK

LEMMA PrefixFits ==
  ASSUME NEW b \in Seq(Parts), NoTwice(b), NEW k \in 0..Len(b)
  PROVE  /\ SubSeq(b, 1, k) \in Seq(Parts) /\ NoTwice(SubSeq(b, 1, k))
         /\ DOMAIN SubSeq(b, 1, k) = 1..k
         /\ \A i \in 1..k : SubSeq(b, 1, k)[i] = b[i] /\ i \in DOMAIN b
<1>1. SubSeq(b, 1, k) \in Seq(Parts) /\ Len(SubSeq(b, 1, k)) = k
  OBVIOUS
<1>2. \A i \in 1..k : SubSeq(b, 1, k)[i] = b[i] /\ i \in DOMAIN b
  OBVIOUS
<1>3. DOMAIN SubSeq(b, 1, k) = 1..k
  BY <1>1
<1> QED
  BY <1>1, <1>2, <1>3 DEF NoTwice

\* Of a body that fits, the editor gets its own text.
LEMMA ParseFits ==
  ASSUME NEW b \in Seq(Parts), BodyFits(b)
  PROVE  LET parsed == ParseDraftBody(b) IN
         /\ parsed.text \in Seq(Parts) /\ parsed.quote \in {"none", "reply"}
         /\ NoTwice(parsed.text)
         /\ \A i \in DOMAIN parsed.text : parsed.text[i] \notin {"signature", "intro", "quoted"}
<1>1. PICK quoted : quoted = {i \in DOMAIN b : b[i] = "quoted"}
  OBVIOUS
<1>0. PICK low : low = Min(quoted)
  OBVIOUS
<1>2. PICK own : own = IF quoted = {} THEN b ELSE SubSeq(b, 1, low - 2)
  OBVIOUS
<1>3. PICK signed : signed = {i \in DOMAIN own : own[i] = "signature"}
  OBVIOUS
<1>4. PICK text : text = IF signed = {} THEN own ELSE SubSeq(own, 1, Max(signed) - 1)
  OBVIOUS
<1>5. ParseDraftBody(b) = [text |-> text, quote |-> IF quoted = {} THEN "none" ELSE "reply"]
  BY <1>0, <1>1, <1>2, <1>3, <1>4 DEF ParseDraftBody
<1>6. /\ own \in Seq(Parts) /\ NoTwice(own)
      /\ \A i \in DOMAIN own : own[i] \notin {"intro", "quoted"}
  <2>1. CASE quoted = {}
    BY <1>1, <1>2, <2>1 DEF BodyFits
  <2>2. CASE quoted # {}
    <3>0. PICK n : n = Len(b)
      OBVIOUS
    <3>1. quoted = {n} /\ n \in Nat /\ n \in 1..n /\ DOMAIN b = 1..n
      BY <1>1, <2>2, <3>0 DEF BodyFits
    <3>2. low = n
      BY <1>0, <3>1 DEF Min
    <3>3. CASE n >= 2
      <4>1. own = SubSeq(b, 1, n - 2) /\ n - 2 \in 0..n
        BY <1>2, <2>2, <3>1, <3>2, <3>3
      <4> QED
        <5>1. /\ own \in Seq(Parts) /\ NoTwice(own) /\ DOMAIN own = 1..(n - 2)
              /\ \A i \in 1..(n - 2) : own[i] = b[i] /\ i \in DOMAIN b
          BY <3>0, <4>1, PrefixFits DEF BodyFits
        <5>2. \A i \in 1..(n - 2) : b[i] \notin {"intro", "quoted"}
          BY <3>0, <3>1, <3>3 DEF BodyFits
        <5> QED
          BY <5>1, <5>2
    <3>4. CASE n < 2
      <4>1. own = SubSeq(b, 1, n - 2) /\ n = 1
        BY <1>2, <2>2, <3>1, <3>2, <3>4
      <4>2. own \in Seq(Parts) /\ Len(own) = 0
        BY <4>1
      <4>3. DOMAIN own = {}
        BY <4>2
      <4> QED
        BY <4>2, <4>3 DEF NoTwice
    <3> QED
      BY <3>1, <3>3, <3>4
  <2> QED
    BY <2>1, <2>2
<1>7. /\ text \in Seq(Parts) /\ NoTwice(text)
      /\ \A i \in DOMAIN text : text[i] \notin {"signature", "intro", "quoted"}
  <2>1. CASE signed = {}
    BY <1>3, <1>4, <1>6, <2>1
  <2>2. CASE signed # {}
    <3>1. PICK at \in DOMAIN own : signed = {at} /\ own[at] = "signature"
      BY <1>3, <1>6, <2>2 DEF NoTwice
    <3>2. at \in 1..Len(own) /\ Len(own) \in Nat
      BY <1>6
    <3>3. Max(signed) = at
      BY <3>1, <3>2 DEF Max
    <3>4. text = SubSeq(own, 1, at - 1) /\ at - 1 \in 0..Len(own)
      BY <1>4, <2>2, <3>2, <3>3
    <3>5. \A i \in 1..(at - 1) : i \in DOMAIN own /\ own[i] # "signature"
      BY <1>3, <1>6, <3>1, <3>2
    <3> QED
      BY <1>6, <3>4, <3>5, PrefixFits
  <2> QED
    BY <2>1, <2>2
<1>8. ParseDraftBody(b).text = text /\ ParseDraftBody(b).quote \in {"none", "reply"}
  BY <1>5
<1> QED
  BY <1>7, <1>8

LEMMA JoinFits ==
  ASSUME NEW s \in Seq(Parts), NEW t \in Seq(Parts), NoTwice(s), NoTwice(t),
         \A i \in DOMAIN s, j \in DOMAIN t : s[i] # t[j]
  PROVE  /\ s \o t \in Seq(Parts) /\ NoTwice(s \o t) /\ Len(s \o t) = Len(s) + Len(t)
         /\ \A i \in DOMAIN (s \o t) : IF i <= Len(s) THEN i \in DOMAIN s /\ (s \o t)[i] = s[i]
                                       ELSE i - Len(s) \in DOMAIN t /\ (s \o t)[i] = t[i - Len(s)]
<1>1. s \o t \in Seq(Parts) /\ Len(s \o t) = Len(s) + Len(t)
  OBVIOUS
<1>2. \A i \in DOMAIN (s \o t) : IF i <= Len(s) THEN i \in DOMAIN s /\ (s \o t)[i] = s[i]
                                 ELSE i - Len(s) \in DOMAIN t /\ (s \o t)[i] = t[i - Len(s)]
  OBVIOUS
<1>3. ASSUME NEW i \in DOMAIN (s \o t), NEW j \in DOMAIN (s \o t), (s \o t)[i] = (s \o t)[j]
      PROVE  i = j
  <2>1. i \in Nat /\ j \in Nat /\ Len(s) \in Nat
    BY <1>1
  <2>2. CASE i <= Len(s) /\ j <= Len(s)
    BY <1>2, <1>3, <2>2 DEF NoTwice
  <2>3. CASE i <= Len(s) /\ ~(j <= Len(s))
    BY <1>2, <1>3, <2>3
  <2>4. CASE ~(i <= Len(s)) /\ j <= Len(s)
    BY <1>2, <1>3, <2>4
  <2>5. CASE ~(i <= Len(s)) /\ ~(j <= Len(s))
    <3>1. i - Len(s) = j - Len(s)
      BY <1>2, <1>3, <2>5 DEF NoTwice
    <3> QED
      BY <2>1, <3>1
  <2> QED
    BY <2>2, <2>3, <2>4, <2>5
<1> QED
  BY <1>1, <1>2, <1>3 DEF NoTwice

LEMMA CompParts ==
  /\ ComposeInv <=> FormOK /\ SendingOK /\ PostsOK /\ BoxOK /\ OutOK /\ ClicksOK
  /\ ComposeInv' <=> FormOK' /\ SendingOK' /\ PostsOK' /\ BoxOK' /\ OutOK' /\ ClicksOK'
  BY DEF ComposeInv

LEMMA PairFits ==
  ASSUME NEW x \in Parts, NEW y \in Parts, x # y
  PROVE  /\ <<x, y>> \in Seq(Parts) /\ NoTwice(<<x, y>>)
         /\ Len(<<x, y>>) = 2 /\ <<x, y>>[1] = x /\ <<x, y>>[2] = y
         /\ \A i \in DOMAIN <<x, y>> : <<x, y>>[i] \in {x, y}
<1>1. PICK s : s = <<x, y>>
  OBVIOUS
<1>2. s \in Seq(Parts) /\ Len(s) = 2 /\ s[1] = x /\ s[2] = y
  BY <1>1
<1>3. \A i \in DOMAIN s : i = 1 \/ i = 2
  BY <1>2
<1>4. NoTwice(s) /\ \A i \in DOMAIN s : s[i] \in {x, y}
  BY <1>2, <1>3 DEF NoTwice
<1> QED
  BY <1>1, <1>2, <1>4

LEMMA QuoteFits ==
  ASSUME NEW q \in {"none", "reply", "forward"}
  PROVE  /\ QuoteParts(q) \in Seq(Parts) /\ NoTwice(QuoteParts(q))
         /\ \A i \in DOMAIN QuoteParts(q) :
              /\ q # "none" /\ Len(QuoteParts(q)) = 2
              /\ q = "reply" => QuoteParts(q)[1] = "intro" /\ QuoteParts(q)[2] = "quoted"
              /\ q = "forward" => QuoteParts(q)[i] \in {"head", "original"}
<1>0. {"intro", "quoted", "head", "original"} \subseteq Parts
  BY DEF Parts
<1>1. CASE q = "none"
  <2>1. QuoteParts(q) = <<>>
    BY <1>1 DEF QuoteParts
  <2> QED
    BY <2>1 DEF NoTwice
<1>2. CASE q = "reply"
  <2>1. PICK s : s = <<"intro", "quoted">>
    OBVIOUS
  <2>2. /\ s \in Seq(Parts) /\ NoTwice(s) /\ Len(s) = 2 /\ s[1] = "intro" /\ s[2] = "quoted"
        /\ \A i \in DOMAIN s : s[i] \in {"intro", "quoted"}
    BY <1>0, <2>1, PairFits
  <2>3. QuoteParts(q) = s
    BY <1>2, <2>1 DEF QuoteParts
  <2> QED
    BY <1>2, <2>2, <2>3
<1>3. CASE q = "forward"
  <2>1. PICK s : s = <<"head", "original">>
    OBVIOUS
  <2>2. /\ s \in Seq(Parts) /\ NoTwice(s) /\ Len(s) = 2 /\ s[1] = "head" /\ s[2] = "original"
        /\ \A i \in DOMAIN s : s[i] \in {"head", "original"}
    BY <1>0, <2>1, PairFits
  <2>3. QuoteParts(q) = s
    BY <1>3, <2>1 DEF QuoteParts
  <2> QED
    BY <1>3, <2>2, <2>3
<1> QED
  BY <1>1, <1>2, <1>3

\* What a window sends has each part once and its quotation at the end.
LEMMA BodyOfWindow ==
  ASSUME NEW f \in Windows, TextFits(f)
  PROVE  Body(f) \in Seq(Parts) /\ BodyFits(Body(f))
<1>1. PICK sig : sig = IF HasSignature(f) THEN <<"signature">> ELSE <<>>
  OBVIOUS
<1>2. PICK q : q = QuoteParts(f.quote)
  OBVIOUS
<1>3. PICK t : t = f.text
  OBVIOUS
<1>4. /\ t \in Seq(Parts) /\ f.quote \in {"none", "reply", "forward"} /\ NoTwice(t)
      /\ \A i \in DOMAIN t : t[i] \notin {"signature", "intro", "quoted"}
      /\ f.quote = "forward" => \A i \in DOMAIN t : t[i] \notin {"head", "original"}
  BY <1>3 DEF Windows, TextFits
<1>5. /\ sig \in Seq(Parts) /\ NoTwice(sig) /\ \A i \in DOMAIN sig : sig[i] = "signature"
  <2>1. CASE sig = <<>>
    BY <2>1 DEF NoTwice
  <2>2. CASE sig = <<"signature">>
    <3>1. "signature" \in Parts
      BY DEF Parts
    <3>2. Len(sig) = 1 /\ sig[1] = "signature" /\ sig \in Seq(Parts)
      BY <2>2, <3>1
    <3>3. \A i \in DOMAIN sig : i = 1
      BY <3>2
    <3> QED
      BY <3>2, <3>3 DEF NoTwice
  <2> QED
    BY <1>1, <2>1, <2>2
<1>6. PICK own : own = t \o sig
  OBVIOUS
<1>7. /\ own \in Seq(Parts) /\ NoTwice(own)
      /\ \A i \in DOMAIN own : own[i] \notin {"intro", "quoted"}
      /\ f.quote = "forward" => \A i \in DOMAIN own : own[i] \notin {"head", "original"}
  <2>1. \A i \in DOMAIN t, j \in DOMAIN sig : t[i] # sig[j]
    BY <1>4, <1>5
  <2>2. \A i \in DOMAIN own : \/ i \in DOMAIN t /\ own[i] = t[i]
                              \/ i - Len(t) \in DOMAIN sig /\ own[i] = sig[i - Len(t)]
    BY <1>4, <1>5, <1>6, <2>1, JoinFits
  <2>3. own \in Seq(Parts) /\ NoTwice(own)
    BY <1>4, <1>5, <1>6, <2>1, JoinFits
  <2> QED
    BY <1>4, <1>5, <2>2, <2>3
<1>8. /\ q \in Seq(Parts) /\ NoTwice(q)
      /\ \A i \in DOMAIN q :
           /\ f.quote # "none" /\ Len(q) = 2
           /\ f.quote = "reply" => q[1] = "intro" /\ q[2] = "quoted"
           /\ f.quote = "forward" => q[i] \in {"head", "original"}
  BY <1>2, <1>4, QuoteFits
<1>9. \A i \in DOMAIN own, j \in DOMAIN q : own[i] # q[j]
  <2> TAKE i \in DOMAIN own, j \in DOMAIN q
  <2>1. j \in {1, 2}
    BY <1>8
  <2> QED
    BY <1>4, <1>7, <1>8, <2>1
<1>10. PICK b : b = own \o q
  OBVIOUS
<1>11. /\ b \in Seq(Parts) /\ NoTwice(b) /\ Len(b) = Len(own) + Len(q)
       /\ \A i \in DOMAIN b : \/ i \in DOMAIN own /\ i <= Len(own) /\ b[i] = own[i]
                              \/ i > Len(own) /\ i - Len(own) \in DOMAIN q /\ b[i] = q[i - Len(own)]
  BY <1>7, <1>8, <1>9, <1>10, JoinFits
<1>12. Body(f) = b
  BY <1>1, <1>2, <1>3, <1>6, <1>10 DEF Body
<1>13. ASSUME NEW i \in DOMAIN b, b[i] \in {"intro", "quoted"}
       PROVE  /\ b[i] = "quoted" => i = Len(b)
              /\ b[i] = "intro" => i = Len(b) - 1 /\ b[Len(b)] = "quoted"
  <2>1. i > Len(own) /\ i - Len(own) \in DOMAIN q /\ b[i] = q[i - Len(own)]
    BY <1>7, <1>11, <1>13
  <2>2. f.quote = "reply" /\ Len(q) = 2 /\ q[1] = "intro" /\ q[2] = "quoted"
    BY <1>4, <1>8, <1>13, <2>1
  <2>3. PICK n \in Nat : n = Len(own) /\ Len(b) = n + 2 /\ DOMAIN b = 1..(n + 2) /\ i \in Nat
    BY <1>7, <1>11, <2>2
  <2>4. i = n + 1 \/ i = n + 2
    BY <2>1, <2>3
  <2>5. b[n + 2] = "quoted"
    <3>1. n + 2 \in DOMAIN b /\ ~(n + 2 <= n) /\ (n + 2) - n = 2
      BY <2>3
    <3> QED
      BY <1>11, <2>2, <2>3, <3>1
  <2>6. b[n + 1] = "intro"
    <3>1. n + 1 \in DOMAIN b /\ ~(n + 1 <= n) /\ (n + 1) - n = 1
      BY <2>3
    <3> QED
      BY <1>11, <2>2, <2>3, <3>1
  <2> QED
    BY <2>3, <2>4, <2>5, <2>6
<1> QED
  BY <1>11, <1>12, <1>13 DEF BodyFits

\* What a window asks of the server, with the click it comes from.
LEMMA PostOfWindow ==
  ASSUME NEW op \in {"send", "schedule", "draft", "template", "untemplate"}, NEW f \in Windows, TextFits(f),
         NEW k \in Nat, NEW p, p = Post(op, f, k)
  PROVE  /\ p \in Posts /\ BodyFits(p.body)
         /\ p.op = op /\ p.click = k /\ p.to = f.to /\ p.files = f.files
<1>1. PICK b : b = Body(f)
  OBVIOUS
<1>2. b \in Seq(Parts) /\ BodyFits(b)
  BY <1>1, BodyOfWindow
<1>3. p = [op |-> op, body |-> b, to |-> f.to, subject |-> f.subject, files |-> f.files,
           click |-> k, mine |-> TRUE, done |-> FALSE]
  BY <1>1 DEF Post
<1>4. f.to \in BOOLEAN /\ f.subject \in BOOLEAN /\ f.files \in 0..2
  BY DEF Windows
<1>5. p \in Posts
  BY <1>2, <1>3, <1>4 DEF Posts
<1> QED
  BY <1>2, <1>3, <1>5

LEMMA LeastNatural ==
  ASSUME NEW T \in SUBSET Nat, T # {}
  PROVE  \E n \in T : \A m \in T : n <= m
<1> DEFINE R == OpToRel(<, Nat)
<1>1. IsWellFoundedOn(R, Nat)
  BY NatLessThanWellFounded
<1>2. PICK n \in T : \A m \in T : ~(<<m, n>> \in R)
  <2> HIDE DEF R
  <2> QED
    BY <1>1, WFMin
<1>3. \A m \in T : ~(m < n)
  BY <1>2 DEF OpToRel
<1> QED
  BY <1>3

\* A set of numbers with a bound has a greatest one.
LEMMA GreatestNatural ==
  ASSUME NEW T \in SUBSET Nat, T # {}, NEW n \in Nat, \A k \in T : k <= n
  PROVE  Max(T) \in T /\ \A k \in T : k <= Max(T)
<1>1. PICK D : D = {n - k : k \in T}
  OBVIOUS
<1>2. D \in SUBSET Nat /\ D # {}
  <2>1. \A k \in T : n - k \in Nat
    OBVIOUS
  <2> QED
    BY <1>1, <2>1
<1>3. PICK d \in D : \A e \in D : d <= e
  BY <1>2, LeastNatural
<1>4. PICK k \in T : d = n - k
  BY <1>1, <1>3
<1>5. \A j \in T : j <= k
  <2> TAKE j \in T
  <2>1. n - j \in D /\ d <= n - j
    BY <1>1, <1>3
  <2> QED
    BY <1>4, <2>1
<1>6. \E x \in T : \A y \in T : x >= y
  BY <1>5
<1>7. Max(T) \in T /\ \A y \in T : Max(T) >= y
  BY <1>6 DEF Max
<1> QED
  BY <1>7

\* A new click is later than all others.
LEMMA NextClickIsNew ==
  ASSUME ClicksOK
  PROVE  NextClick \in Nat /\ NextClick <= moves + 1 /\ \A k \in Clicks : k < NextClick
<1>1. moves \in Nat /\ Clicks \subseteq Nat /\ \A k \in Clicks : k <= moves
  BY DEF ClicksOK
<1>2. CASE Clicks = {}
  BY <1>1, <1>2 DEF NextClick
<1>3. CASE Clicks # {}
  <2>1. PICK top : top = Max(Clicks)
    OBVIOUS
  <2>2. top \in Clicks /\ \A k \in Clicks : k <= top
    BY <1>1, <1>3, <2>1, GreatestNatural
  <2>3. NextClick = top + 1
    BY <1>3, <2>1 DEF NextClick
  <2> QED
    BY <1>1, <2>2, <2>3
<1> QED
  BY <1>2, <1>3

ClicksSoFar ==
    /\ moves \in Nat
    /\ \A p \in posts : p.click \in Nat /\ p.click <= moves
    /\ \A p \in mailbox.sent : p.click \in Nat /\ p.click <= moves
    /\ \A k \in undone : k \in Nat /\ k <= moves
    /\ sending # None => sending.click \in Nat /\ sending.click <= moves

LEMMA ClicksBySource == (ClicksOK <=> ClicksSoFar) /\ (ClicksOK' <=> ClicksSoFar')
<1>1. Clicks = {p.click : p \in posts \cup mailbox.sent} \cup undone
               \cup (IF sending = None THEN {} ELSE {sending.click})
  BY DEF Clicks
<1>2. Clicks' = {p.click : p \in posts' \cup mailbox.sent'} \cup undone'
                \cup (IF sending' = None THEN {} ELSE {sending'.click})
  BY DEF Clicks
<1> QED
  BY <1>1, <1>2 DEF ClicksOK, ClicksSoFar

LEMMA TextSame ==
  ASSUME NEW f, NEW g, TextFits(g), f.text = g.text, f.quote = g.quote
  PROVE  TextFits(f)
  BY DEF TextFits

LEMMA CountedMoves ==
  ASSUME ComposeInv, Counted
  PROVE  moves \in Nat /\ moves' \in Nat /\ moves <= moves'
  BY CompParts DEF Counted, ClicksOK

\* Only the window changes, with a text that fits: nothing else is disturbed.
LEMMA EditKeeps ==
  ASSUME ComposeInv, Counted, form # None, NEW f \in Windows, Edit(f), TextFits(f), f.quote = form.quote
  PROVE  ComposeInv'
<1>1. /\ form' = f /\ f # None /\ sending' = sending /\ posts' = posts /\ mailbox' = mailbox /\ undone' = undone
  BY WindowAssumption DEF Edit
<1>2. FormOK' /\ SendingOK' /\ PostsOK' /\ BoxOK' /\ OutOK'
  BY <1>1, CompParts DEF FormOK, SendingOK, PostsOK, BoxOK, OutOK, TextFits, Allowed
<1>3. ClicksOK'
  BY <1>1, CountedMoves, CompParts, ClicksBySource DEF ClicksSoFar
<1> QED
  BY <1>2, <1>3, CompParts

\* A window that is not rewritten.
LEMMA EditElse ==
  ASSUME ComposeInv, Counted, form # None, NEW f \in Windows, Edit(f), f.text = form.text, f.quote = form.quote
  PROVE  ComposeInv'
<1>1. TextFits(f)
  BY CompParts, TextSame DEF FormOK
<1> QED
  BY <1>1, EditKeeps

LEMMA WindowFields ==
  ASSUME NEW f \in Windows
  PROVE  /\ f.to \in BOOLEAN /\ f.subject \in BOOLEAN /\ f.text \in Seq(Parts)
         /\ f.quote \in {"none", "reply", "forward"} /\ f.files \in 0..2 /\ f.from \in Aliases \cup {None}
         /\ f.loaded \in SUBSET {"accounts", "identities", "templates"} /\ f.busy \in BOOLEAN
         /\ f.menu \in {"none", "formats", "more", "templates", "template", "schedule"} /\ f.over \in 0..2
  BY DEF Windows

\* Each field of a window for itself.
LEMMA WindowWith ==
  ASSUME NEW f \in Windows
  PROVE  /\ \A x \in BOOLEAN : [f EXCEPT !.to = x] \in Windows /\ [f EXCEPT !.to = x].text = f.text
                               /\ [f EXCEPT !.to = x].quote = f.quote
         /\ \A x \in BOOLEAN : [f EXCEPT !.subject = x] \in Windows /\ [f EXCEPT !.subject = x].text = f.text
                               /\ [f EXCEPT !.subject = x].quote = f.quote
         /\ \A x \in BOOLEAN : [f EXCEPT !.busy = x] \in Windows /\ [f EXCEPT !.busy = x].text = f.text
                               /\ [f EXCEPT !.busy = x].quote = f.quote /\ [f EXCEPT !.busy = x].to = f.to
                               /\ [f EXCEPT !.busy = x].files = f.files
         /\ \A x \in 0..2 : [f EXCEPT !.files = x] \in Windows /\ [f EXCEPT !.files = x].text = f.text
                            /\ [f EXCEPT !.files = x].quote = f.quote
         /\ \A x \in 0..2 : [f EXCEPT !.over = x] \in Windows /\ [f EXCEPT !.over = x].text = f.text
                            /\ [f EXCEPT !.over = x].quote = f.quote
         /\ \A x \in Aliases \cup {None} :
              [f EXCEPT !.from = x] \in Windows /\ [f EXCEPT !.from = x].text = f.text
              /\ [f EXCEPT !.from = x].quote = f.quote
         /\ \A x \in SUBSET {"accounts", "identities", "templates"} :
              [f EXCEPT !.loaded = x] \in Windows /\ [f EXCEPT !.loaded = x].text = f.text
              /\ [f EXCEPT !.loaded = x].quote = f.quote /\ [f EXCEPT !.loaded = x].from = f.from
         /\ \A x \in {"none", "formats", "more", "templates", "template", "schedule"} :
              [f EXCEPT !.menu = x] \in Windows /\ [f EXCEPT !.menu = x].text = f.text
              /\ [f EXCEPT !.menu = x].quote = f.quote
         /\ \A x \in Seq(Parts) :
              [f EXCEPT !.text = x] \in Windows /\ [f EXCEPT !.text = x].text = x
              /\ [f EXCEPT !.text = x].quote = f.quote /\ [f EXCEPT !.text = x].to = f.to
              /\ [f EXCEPT !.text = x].files = f.files
<1>1. \A x \in BOOLEAN : [f EXCEPT !.to = x] \in Windows /\ [f EXCEPT !.to = x].text = f.text
                         /\ [f EXCEPT !.to = x].quote = f.quote
  BY DEF Windows
<1>2. \A x \in BOOLEAN : [f EXCEPT !.subject = x] \in Windows /\ [f EXCEPT !.subject = x].text = f.text
                         /\ [f EXCEPT !.subject = x].quote = f.quote
  BY DEF Windows
<1>3. \A x \in BOOLEAN : [f EXCEPT !.busy = x] \in Windows /\ [f EXCEPT !.busy = x].text = f.text
                         /\ [f EXCEPT !.busy = x].quote = f.quote /\ [f EXCEPT !.busy = x].to = f.to
                         /\ [f EXCEPT !.busy = x].files = f.files
  BY DEF Windows
<1>4. \A x \in 0..2 : [f EXCEPT !.files = x] \in Windows /\ [f EXCEPT !.files = x].text = f.text
                      /\ [f EXCEPT !.files = x].quote = f.quote
  BY DEF Windows
<1>5. \A x \in 0..2 : [f EXCEPT !.over = x] \in Windows /\ [f EXCEPT !.over = x].text = f.text
                      /\ [f EXCEPT !.over = x].quote = f.quote
  BY DEF Windows
<1>6. \A x \in Aliases \cup {None} :
        [f EXCEPT !.from = x] \in Windows /\ [f EXCEPT !.from = x].text = f.text
        /\ [f EXCEPT !.from = x].quote = f.quote
  BY DEF Windows
<1>7. \A x \in SUBSET {"accounts", "identities", "templates"} :
        [f EXCEPT !.loaded = x] \in Windows /\ [f EXCEPT !.loaded = x].text = f.text
        /\ [f EXCEPT !.loaded = x].quote = f.quote /\ [f EXCEPT !.loaded = x].from = f.from
  BY DEF Windows
<1>8. \A x \in {"none", "formats", "more", "templates", "template", "schedule"} :
        [f EXCEPT !.menu = x] \in Windows /\ [f EXCEPT !.menu = x].text = f.text
        /\ [f EXCEPT !.menu = x].quote = f.quote
  BY DEF Windows
<1>9. \A x \in Seq(Parts) :
        [f EXCEPT !.text = x] \in Windows /\ [f EXCEPT !.text = x].text = x
        /\ [f EXCEPT !.text = x].quote = f.quote /\ [f EXCEPT !.text = x].to = f.to
        /\ [f EXCEPT !.text = x].files = f.files
  BY DEF Windows
<1> QED
  BY <1>1, <1>2, <1>3, <1>4, <1>5, <1>6, <1>7, <1>8, <1>9

-----------------------------------------------------------------------------
(* Compose: writing keeps the invariant.                                       *)

LEMMA ListsArriveKeeps ==
  ASSUME ComposeInv, Counted, NEW list \in {"accounts", "identities", "templates"}, ListsArrive(list)
  PROVE  ComposeInv'
<1>1. form \in Windows /\ form # None
  BY CompParts DEF FormOK, ListsArrive
<1>2. PICK got : got = form.loaded \cup {list}
  OBVIOUS
<1>3. got \in SUBSET {"accounts", "identities", "templates"}
  BY <1>1, <1>2, WindowFields
<1>4. PICK g : g = [form EXCEPT !.loaded = got]
  OBVIOUS
<1>5. g \in Windows /\ g.text = form.text /\ g.quote = form.quote /\ g.from = form.from
  BY <1>1, <1>3, <1>4, WindowWith
<1>6. PICK from : from = IF list = "identities" /\ Default # None THEN Default ELSE form.from
  OBVIOUS
<1>7. from \in Aliases \cup {None}
  BY <1>1, <1>6, ComposeAssumption, WindowFields
<1>8. PICK f : f = [g EXCEPT !.from = from]
  OBVIOUS
<1>9. f \in Windows /\ f.text = form.text /\ f.quote = form.quote
  BY <1>5, <1>7, <1>8, WindowWith
<1>10. f = [form EXCEPT !.loaded = got, !.from = from]
  BY <1>1, <1>4, <1>8 DEF Windows
<1>11. Edit(f)
  <2>1. [form EXCEPT !.loaded = @ \cup {list},
              !.from = IF list = "identities" /\ Default # None THEN Default ELSE @] = f
    BY <1>2, <1>6, <1>10
  <2> QED
    BY <2>1 DEF ListsArrive
<1> QED
  BY <1>1, <1>9, <1>11, EditElse

LEMMA ChooseFromKeeps ==
  ASSUME ComposeInv, Counted, NEW k \in Aliases \cup {None}, ChooseFrom(k)
  PROVE  ComposeInv'
<1>1. form \in Windows /\ form # None
  BY CompParts DEF FormOK, ChooseFrom, Editing
<1>2. PICK f : f = [form EXCEPT !.from = k]
  OBVIOUS
<1>3. Edit(f)
  BY <1>2 DEF ChooseFrom
<1>4. f \in Windows /\ f.text = form.text /\ f.quote = form.quote
  BY <1>1, <1>2, WindowWith
<1> QED
  BY <1>1, <1>3, <1>4, EditElse

LEMMA HeaderKeeps ==
  ASSUME ComposeInv, Counted, (\E some \in BOOLEAN : SetRecipients(some)) \/ SetSubject
  PROVE  ComposeInv'
<1>1. form \in Windows /\ form # None
  BY CompParts DEF FormOK, SetRecipients, SetSubject, Editing
<1>2. ASSUME NEW some \in BOOLEAN, SetRecipients(some) PROVE ComposeInv'
  <2>1. PICK f : f = [form EXCEPT !.to = some]
    OBVIOUS
  <2>2. Edit(f)
    BY <1>2, <2>1 DEF SetRecipients
  <2>3. f \in Windows /\ f.text = form.text /\ f.quote = form.quote
    BY <1>1, <2>1, WindowWith
  <2> QED
    BY <1>1, <2>2, <2>3, EditElse
<1>3. CASE SetSubject
  <2>1. PICK yes \in BOOLEAN : yes = TRUE
    OBVIOUS
  <2>2. PICK f : f = [form EXCEPT !.subject = yes]
    OBVIOUS
  <2>3. Edit(f)
    BY <1>3, <2>1, <2>2 DEF SetSubject
  <2>4. f \in Windows /\ f.text = form.text /\ f.quote = form.quote
    BY <1>1, <2>2, WindowWith
  <2> QED
    BY <1>1, <2>3, <2>4, EditElse
<1> QED
  BY <1>2, <1>3

\* Another part at the end of a text that lacks it.
LEMMA AppendFits ==
  ASSUME NEW f \in Windows, TextFits(f), NEW part \in {"typed", "pasted", "template"}, ~Contains(f, part),
         NEW g, g.text = Append(f.text, part), g.quote = f.quote
  PROVE  TextFits(g) /\ Append(f.text, part) \in Seq(Parts)
<1>1. PICK t : t = f.text
  OBVIOUS
<1>2. /\ t \in Seq(Parts) /\ part \in Parts /\ NoTwice(t) /\ \A i \in DOMAIN t : t[i] # part
      /\ \A i \in DOMAIN t : t[i] \notin {"signature", "intro", "quoted"}
      /\ f.quote = "forward" => \A i \in DOMAIN t : t[i] \notin {"head", "original"}
  BY <1>1 DEF Contains, TextFits, Windows, Parts
<1>3. PICK s : s = Append(t, part)
  OBVIOUS
<1>4. s \in Seq(Parts) /\ \A i \in DOMAIN s : \/ i \in DOMAIN t /\ s[i] = t[i]
                                              \/ i = Len(t) + 1 /\ s[i] = part
  BY <1>2, <1>3
<1>5. NoTwice(s)
  <2> SUFFICES ASSUME NEW i \in DOMAIN s, NEW j \in DOMAIN s, s[i] = s[j] PROVE i = j
    BY DEF NoTwice
  <2>1. CASE i \in DOMAIN t /\ s[i] = t[i] /\ j \in DOMAIN t /\ s[j] = t[j]
    BY <1>2, <2>1 DEF NoTwice
  <2>2. CASE i = Len(t) + 1 /\ s[i] = part
    BY <1>2, <1>4, <2>2
  <2>3. CASE j = Len(t) + 1 /\ s[j] = part
    BY <1>2, <1>4, <2>3
  <2> QED
    BY <1>4, <2>1, <2>2, <2>3
<1>6. \A i \in DOMAIN s : s[i] \notin {"signature", "intro", "quoted", "head", "original"} \/ s[i] # part
  BY <1>4
<1>7. \A i \in DOMAIN s : s[i] \notin {"signature", "intro", "quoted"}
  BY <1>2, <1>4
<1>8. f.quote = "forward" => \A i \in DOMAIN s : s[i] \notin {"head", "original"}
  BY <1>2, <1>4
<1> QED
  BY <1>1, <1>3, <1>4, <1>5, <1>7, <1>8 DEF TextFits

LEMMA WriteKeeps ==
  ASSUME ComposeInv, Counted, NEW part \in {"typed", "pasted"}, Write(part)
  PROVE  ComposeInv'
<1>1. form \in Windows /\ form # None /\ TextFits(form) /\ ~Contains(form, part)
  BY CompParts DEF FormOK, Write, Editing
<1>2. PICK t : t = Append(form.text, part)
  OBVIOUS
<1>3. t \in Seq(Parts)
  BY <1>1, <1>2, WindowFields DEF Parts
<1>4. PICK f : f = [form EXCEPT !.text = t]
  OBVIOUS
<1>5. f \in Windows /\ f.text = t /\ f.quote = form.quote
  BY <1>1, <1>3, <1>4, WindowWith
<1>6. TextFits(f)
  BY <1>1, <1>2, <1>5, AppendFits
<1>7. Edit(f)
  BY <1>2, <1>4 DEF Write
<1> QED
  BY <1>1, <1>5, <1>6, <1>7, EditKeeps

LEMMA EmptyTextFits ==
  ASSUME NEW f, f.text = <<>>
  PROVE  TextFits(f)
  BY DEF TextFits, NoTwice

LEMMA EraseKeeps ==
  ASSUME ComposeInv, Counted, Erase
  PROVE  ComposeInv'
<1>1. form \in Windows /\ form # None
  BY CompParts DEF FormOK, Erase, Editing
<1>0. <<>> \in Seq(Parts)
  OBVIOUS
<1>2. PICK t \in Seq(Parts) : t = <<>>
  BY <1>0
<1>3. PICK f : f = [form EXCEPT !.text = t]
  OBVIOUS
<1>4. f \in Windows /\ f.text = t /\ f.quote = form.quote
  BY <1>1, <1>3, WindowWith
<1>5. TextFits(f) /\ Edit(f)
  BY <1>2, <1>3, <1>4, EmptyTextFits DEF Erase
<1> QED
  BY <1>1, <1>4, <1>5, EditKeeps

LEMMA FilesKeep ==
  ASSUME ComposeInv, Counted, AddFile \/ RemoveFile \/ DragEnter \/ DragLeave \/ DropFile
  PROVE  ComposeInv'
<1>1. form \in Windows /\ form # None
  BY CompParts DEF FormOK, AddFile, RemoveFile, DragEnter, DragLeave, DropFile, Editing
<1>2. form.files \in 0..2 /\ form.over \in 0..2
  BY <1>1, WindowFields
<1>3. ASSUME NEW n \in 0..2, Edit([form EXCEPT !.files = n]) PROVE ComposeInv'
  BY <1>1, <1>3, WindowWith, EditElse
<1>4. ASSUME NEW n \in 0..2, Edit([form EXCEPT !.over = n]) PROVE ComposeInv'
  BY <1>1, <1>4, WindowWith, EditElse
<1>5. CASE AddFile
  <2>1. form.files + 1 \in 0..2 /\ Edit([form EXCEPT !.files = form.files + 1])
    BY <1>2, <1>5 DEF AddFile
  <2> QED
    BY <1>3, <2>1
<1>6. CASE RemoveFile
  <2>1. form.files - 1 \in 0..2 /\ Edit([form EXCEPT !.files = form.files - 1])
    BY <1>2, <1>6 DEF RemoveFile
  <2> QED
    BY <1>3, <2>1
<1>7. CASE DragEnter
  <2>1. form.over + 1 \in 0..2 /\ Edit([form EXCEPT !.over = form.over + 1])
    BY <1>2, <1>7 DEF DragEnter
  <2> QED
    BY <1>4, <2>1
<1>8. CASE DragLeave
  <2>1. form.over - 1 \in 0..2 /\ Edit([form EXCEPT !.over = form.over - 1])
    BY <1>2, <1>8 DEF DragLeave
  <2> QED
    BY <1>4, <2>1
<1>9. CASE DropFile
  <2>1. PICK o \in 0..2 : o = 0
    OBVIOUS
  <2>2. PICK n \in 0..2 : n = form.files + 1
    BY <1>2, <1>9 DEF DropFile
  <2>3. PICK g : g = [form EXCEPT !.over = o]
    OBVIOUS
  <2>4. g \in Windows /\ g.text = form.text /\ g.quote = form.quote
    BY <1>1, <2>3, WindowWith
  <2>5. PICK f : f = [g EXCEPT !.files = n]
    OBVIOUS
  <2>6. f \in Windows /\ f.text = form.text /\ f.quote = form.quote
    BY <2>4, <2>5, WindowWith
  <2>7. f = [form EXCEPT !.over = o, !.files = n]
    BY <1>1, <2>3, <2>5 DEF Windows
  <2>8. [form EXCEPT !.over = 0, !.files = @ + 1] = [form EXCEPT !.over = o, !.files = n]
    BY <2>1, <2>2
  <2>9. Edit(f)
    BY <1>9, <2>7, <2>8 DEF DropFile
  <2> QED
    BY <1>1, <2>6, <2>9, EditElse
<1> QED
  BY <1>5, <1>6, <1>7, <1>8, <1>9

LEMMA OpenMenuKeeps ==
  ASSUME ComposeInv, Counted, NEW m \in {"none", "formats", "more", "templates", "template", "schedule"},
         OpenMenu(m)
  PROVE  ComposeInv'
<1>1. form \in Windows /\ form # None
  BY CompParts DEF FormOK, OpenMenu
<1>2. PICK f : f = [form EXCEPT !.menu = m]
  OBVIOUS
<1>3. Edit(f)
  BY <1>2 DEF OpenMenu
<1>4. f \in Windows /\ f.text = form.text /\ f.quote = form.quote
  BY <1>1, <1>2, WindowWith
<1> QED
  BY <1>1, <1>3, <1>4, EditElse

LEMMA InsertTemplateKeeps ==
  ASSUME ComposeInv, Counted, InsertTemplate
  PROVE  ComposeInv'
<1>1. form \in Windows /\ form # None /\ TextFits(form) /\ ~Contains(form, "template")
  BY CompParts DEF FormOK, InsertTemplate
<1>2. PICK t : t = Append(form.text, "template")
  OBVIOUS
<1>3. t \in Seq(Parts)
  BY <1>1, <1>2, WindowFields DEF Parts
<1>4. PICK sub : sub = (form.subject \/ "subject" \in mailbox.templates)
  OBVIOUS
<1>5. sub \in BOOLEAN
  BY <1>4
<1>6. PICK m \in {"none", "formats", "more", "templates", "template", "schedule"} : m = "none"
  OBVIOUS
<1>7. PICK f1 : f1 = [form EXCEPT !.menu = m]
  OBVIOUS
<1>8. f1 \in Windows /\ f1.text = form.text /\ f1.quote = form.quote
  BY <1>1, <1>7, WindowWith
<1>9. PICK f2 : f2 = [f1 EXCEPT !.text = t]
  OBVIOUS
<1>10. f2 \in Windows /\ f2.text = t /\ f2.quote = form.quote
  BY <1>3, <1>8, <1>9, WindowWith
<1>11. PICK f : f = [f2 EXCEPT !.subject = sub]
  OBVIOUS
<1>12. f \in Windows /\ f.text = t /\ f.quote = form.quote
  BY <1>5, <1>10, <1>11, WindowWith
<1>13. f = [form EXCEPT !.menu = m, !.text = t, !.subject = sub]
  BY <1>1, <1>7, <1>9, <1>11 DEF Windows
<1>14. Edit(f)
  <2>1. [form EXCEPT !.menu = "none", !.text = Append(@, "template"),
                     !.subject = @ \/ "subject" \in mailbox.templates]
        = [form EXCEPT !.menu = m, !.text = t, !.subject = sub]
    BY <1>2, <1>4, <1>6
  <2> QED
    BY <1>13, <2>1 DEF InsertTemplate
<1>15. TextFits(f)
  BY <1>1, <1>2, <1>12, AppendFits
<1> QED
  BY <1>1, <1>12, <1>14, <1>15, EditKeeps

LEMMA OpenWindowKeeps ==
  ASSUME ComposeInv, Counted, OpenWindow
  PROVE  ComposeInv'
<1>1. form = None /\ UNCHANGED <<sending, posts, mailbox, undone>>
  BY DEF OpenWindow
<1>2. sending = None
  BY <1>1, CompParts DEF SendingOK
<1>3. ASSUME NEW to \in BOOLEAN, NEW subject \in BOOLEAN, NEW text \in Seq(Parts),
             NEW quote \in {"none", "reply", "forward"}
      PROVE  /\ Window(to, subject, text, quote) \in Windows
             /\ Window(to, subject, text, quote).text = text /\ Window(to, subject, text, quote).quote = quote
  <2>1. PICK w : w = Window(to, subject, text, quote)
    OBVIOUS
  <2>2. PICK no \in BOOLEAN : no = FALSE
    OBVIOUS
  <2>3. w = [to |-> to, subject |-> subject, text |-> text, quote |-> quote, files |-> 0,
             from |-> None, loaded |-> {}, busy |-> no, menu |-> "none", over |-> 0]
    BY <2>1, <2>2 DEF Window
  <2>4. w \in Windows /\ w.text = text /\ w.quote = quote
    BY <2>3 DEF Windows
  <2> QED
    BY <2>1, <2>4
<1>0. <<>> \in Seq(Parts)
  OBVIOUS
<1>4. PICK none \in Seq(Parts) : none = <<>>
  BY <1>0
<1>5. ASSUME NEW f, f \in {EmptyDraft, ReplyDraft, ForwardDraft} PROVE f \in Windows /\ TextFits(f)
  <2>1. PICK no \in BOOLEAN, yes \in BOOLEAN : no = FALSE /\ yes = TRUE
    OBVIOUS
  <2>2. PICK q \in {"none", "reply", "forward"}, to \in BOOLEAN, subject \in BOOLEAN :
           f = Window(to, subject, none, q)
    BY <1>4, <1>5, <2>1 DEF EmptyDraft, ReplyDraft, ForwardDraft
  <2>3. f \in Windows /\ f.text = none
    BY <1>3, <2>2
  <2> QED
    BY <1>4, <2>3, EmptyTextFits
<1>6. ASSUME mailbox.draft # None PROVE SavedDraft \in Windows /\ TextFits(SavedDraft)
  <2>1. PICK d : d = mailbox.draft
    OBVIOUS
  <2>2. d \in Posts /\ BodyFits(d.body)
    BY <1>6, <2>1, CompParts DEF BoxOK
  <2>3. d.to \in BOOLEAN /\ d.subject \in BOOLEAN /\ d.body \in Seq(Parts)
    BY <2>2 DEF Posts
  <2>4. PICK parsed : parsed = ParseDraftBody(d.body)
    OBVIOUS
  <2>5. /\ parsed.text \in Seq(Parts) /\ parsed.quote \in {"none", "reply"} /\ NoTwice(parsed.text)
        /\ \A i \in DOMAIN parsed.text : parsed.text[i] \notin {"signature", "intro", "quoted"}
    BY <2>2, <2>3, <2>4, ParseFits
  <2>6. SavedDraft = Window(d.to, d.subject, parsed.text, parsed.quote)
    BY <2>1, <2>4 DEF SavedDraft
  <2>7. /\ SavedDraft \in Windows
        /\ SavedDraft.text = parsed.text /\ SavedDraft.quote = parsed.quote
    <3>1. parsed.quote \in {"none", "reply", "forward"}
      BY <2>5
    <3> QED
      BY <1>3, <2>3, <2>5, <2>6, <3>1
  <2> QED
    BY <2>5, <2>7 DEF TextFits
<1>7. form' \in Windows /\ TextFits(form')
  BY <1>5, <1>6 DEF OpenWindow
<1>8. form' # None
  BY <1>7, WindowAssumption
<1>9. FormOK'
  BY <1>7 DEF FormOK, TextFits
<1>10. SendingOK' /\ PostsOK' /\ BoxOK' /\ OutOK'
  BY <1>1, <1>2, <1>8, CompParts DEF SendingOK, PostsOK, BoxOK, OutOK
<1>11. ClicksOK'
  BY <1>1, CountedMoves, CompParts, ClicksBySource DEF ClicksSoFar
<1> QED
  BY <1>9, <1>10, <1>11, CompParts

-----------------------------------------------------------------------------
(* Compose: sending and answers keep the invariant.                            *)

LEMMA SendKeeps ==
  ASSUME ComposeInv, moves' = moves + 1, Send
  PROVE  ComposeInv'
<1>1. /\ form # None /\ sending = None /\ Allowed(form)
      /\ sending' = [left |-> Undo, click |-> NextClick, form |-> form]
      /\ form' = form /\ posts' = posts /\ mailbox' = mailbox /\ undone' = undone
  BY DEF Send, Editing
<1>2. form \in Windows /\ TextFits(form) /\ ClicksOK /\ ClicksSoFar
  BY <1>1, CompParts, ClicksBySource DEF FormOK
<1>3. PICK k : k = NextClick
  OBVIOUS
<1>4. k \in Nat /\ k <= moves + 1 /\ \A j \in Clicks : j < k
  BY <1>2, <1>3, NextClickIsNew
<1>5. k \notin undone /\ \A p \in posts \cup mailbox.sent : p.click # k
  <2>1. \A j \in Clicks : j # k
    BY <1>2, <1>4 DEF ClicksOK
  <2> QED
    BY <2>1 DEF Clicks
<1>6. sending'.left = Undo /\ sending'.click = k /\ sending'.form = form
  BY <1>1, <1>3
<1>7. sending' \in [left : 1..Undo, click : Nat, form : Windows]
  BY <1>1, <1>2, <1>3, <1>4, ComposeAssumption
<1>8. SendingOK'
  BY <1>1, <1>2, <1>5, <1>6, <1>7 DEF SendingOK, Allowed, TextFits
<1>9. OutOK'
  BY <1>1, <1>5, <1>6, CompParts DEF OutOK, GoesOut
<1>10. ClicksOK'
  BY <1>1, <1>2, <1>4, <1>6, ClicksBySource DEF ClicksSoFar
<1>11. FormOK' /\ PostsOK' /\ BoxOK'
  BY <1>1, CompParts DEF FormOK, PostsOK, BoxOK, TextFits
<1> QED
  BY <1>8, <1>9, <1>10, <1>11, CompParts

LEMMA UndoSendKeeps ==
  ASSUME ComposeInv, Counted, UndoSend
  PROVE  ComposeInv'
<1>1. /\ sending # None /\ sending' = None /\ undone' = undone \cup {sending.click}
      /\ form' = form /\ posts' = posts /\ mailbox' = mailbox
  BY DEF UndoSend
<1>2. OutOK' /\ SendingOK'
  BY <1>1, CompParts DEF OutOK, SendingOK, GoesOut
<1>3. ClicksOK'
  BY <1>1, CountedMoves, CompParts, ClicksBySource DEF ClicksSoFar
<1>4. FormOK' /\ PostsOK' /\ BoxOK'
  BY <1>1, CompParts DEF FormOK, PostsOK, BoxOK, TextFits
<1> QED
  BY <1>2, <1>3, <1>4, CompParts

\* Another request, from a window that stays: it has to be in order itself.
LEMMA PostKeeps ==
  ASSUME ComposeInv, moves' \in Nat, moves <= moves', NEW p \in Posts, BodyFits(p.body),
         posts' = posts \cup {p}, form # None, form' \in Windows, TextFits(form'), form'.quote = form.quote,
         sending' = sending \/ sending' = None, UNCHANGED <<mailbox, undone>>, p.click <= moves',
         GoesOut(p) => p.to /\ p.files < 2 /\ p.click \notin undone
                       /\ (sending' # None => p.click # sending'.click)
  PROVE  ComposeInv'
<1>1. form' # None
  BY WindowAssumption
<1>2. FormOK'
  BY DEF FormOK, TextFits
<1>3. SendingOK'
  BY <1>1, CompParts DEF SendingOK, TextFits, Allowed
<1>4. PostsOK' /\ BoxOK'
  BY <1>1, CompParts DEF PostsOK, BoxOK
<1>5. OutOK'
  BY CompParts DEF OutOK, GoesOut
<1>6. ClicksOK'
  <2>1. p.click \in Nat
    BY DEF Posts
  <2> QED
    BY <2>1, CompParts, ClicksBySource DEF ClicksSoFar, ClicksOK
<1> QED
  BY <1>2, <1>3, <1>4, <1>5, <1>6, CompParts

LEMMA TickKeeps ==
  ASSUME ComposeInv, Counted, Tick
  PROVE  ComposeInv'
<1>1. sending # None /\ mailbox' = mailbox /\ undone' = undone
  BY DEF Tick
<1>2. /\ sending \in [left : 1..Undo, click : Nat, form : Windows] /\ form # None
      /\ TextFits(sending.form) /\ Allowed(sending.form) /\ sending.form.quote = form.quote
      /\ sending.click \notin undone /\ form \in Windows /\ TextFits(form)
  BY <1>1, CompParts DEF SendingOK, FormOK
<1>3. CASE sending.left > 1
  <2>1. PICK n : n = sending.left - 1
    OBVIOUS
  <2>2. sending' = [sending EXCEPT !.left = n] /\ form' = form /\ posts' = posts
    BY <1>3, <2>1 DEF Tick
  <2>3. n \in 1..Undo
    BY <1>2, <1>3, <2>1, ComposeAssumption
  <2>4. /\ sending' \in [left : 1..Undo, click : Nat, form : Windows]
        /\ sending'.click = sending.click /\ sending'.form = sending.form
    BY <1>2, <2>2, <2>3
  <2>5. SendingOK'
    BY <1>1, <1>2, <2>2, <2>4 DEF SendingOK, TextFits, Allowed
  <2>6. OutOK'
    BY <1>1, <2>2, <2>4, CompParts DEF OutOK, GoesOut
  <2>7. ClicksOK'
    BY <1>1, <2>2, <2>4, CountedMoves, CompParts, ClicksBySource DEF ClicksSoFar
  <2>8. FormOK' /\ PostsOK' /\ BoxOK'
    BY <1>1, <2>2, CompParts DEF FormOK, PostsOK, BoxOK, TextFits
  <2> QED
    BY <2>5, <2>6, <2>7, <2>8, CompParts
<1>4. CASE ~(sending.left > 1)
  <2>1. PICK f : f = [sending.form EXCEPT !.text = form.text]
    OBVIOUS
  <2>2. /\ f \in Windows /\ f.text = form.text /\ f.quote = form.quote /\ f.to = sending.form.to
        /\ f.files = sending.form.files
    <3>1. PICK g \in Windows : g = sending.form
      BY <1>2
    <3>2. PICK t \in Seq(Parts) : t = form.text
      BY <1>2, WindowFields
    <3>3. f = [g EXCEPT !.text = t]
      BY <2>1, <3>1, <3>2
    <3>4. f \in Windows /\ f.text = t /\ f.quote = g.quote /\ f.to = g.to /\ f.files = g.files
      BY <3>3, WindowWith
    <3> QED
      BY <1>2, <3>1, <3>2, <3>4
  <2>3. TextFits(f)
    BY <1>2, <2>2, TextSame
  <2>4. PICK p : p = Post("send", f, sending.click)
    OBVIOUS
  <2>5. /\ sending' = None /\ posts' = posts \cup {p} /\ form' = [form EXCEPT !.busy = TRUE]
    BY <1>4, <2>1, <2>4 DEF Tick
  <2>6. sending.click \in Nat /\ sending.click <= moves
    BY <1>1, CompParts, ClicksBySource DEF ClicksSoFar
  <2>7. /\ p \in Posts /\ BodyFits(p.body) /\ p.op = "send" /\ p.click = sending.click /\ p.to = f.to
        /\ p.files = f.files
    <3>1. PICK op \in {"send", "schedule", "draft", "template", "untemplate"} : op = "send"
      OBVIOUS
    <3> QED
      BY <2>2, <2>3, <2>4, <2>6, <3>1, PostOfWindow
  <2>8. p.to /\ p.files < 2
    BY <1>2, <2>2, <2>7 DEF Allowed
  <2>9. form' \in Windows /\ form'.text = form.text /\ form'.quote = form.quote
    <3>1. PICK yes \in BOOLEAN : yes = TRUE
      OBVIOUS
    <3>2. form' = [form EXCEPT !.busy = yes]
      BY <2>5, <3>1
    <3> QED
      BY <1>2, <3>2, WindowWith
  <2>10. TextFits(form')
    BY <1>2, <2>9, TextSame
  <2>11. moves' \in Nat /\ moves <= moves' /\ moves \in Nat
    BY CountedMoves
  <2>12. p.click <= moves' /\ p.click \notin undone
    BY <1>2, <2>6, <2>7, <2>11
  <2> QED
    BY <1>1, <1>2, <2>5, <2>7, <2>8, <2>9, <2>10, <2>11, <2>12, PostKeeps
<1> QED
  BY <1>3, <1>4

LEMMA ScheduleSendKeeps ==
  ASSUME ComposeInv, moves' = moves + 1, ScheduleSend
  PROVE  ComposeInv'
<1>1. /\ form # None /\ Allowed(form) /\ posts' = posts \cup {Post("schedule", form, NextClick)}
      /\ form' = [form EXCEPT !.menu = "none", !.busy = TRUE]
      /\ sending' = sending /\ mailbox' = mailbox /\ undone' = undone
  BY DEF ScheduleSend
<1>2. form \in Windows /\ TextFits(form) /\ ClicksOK
  BY <1>1, CompParts DEF FormOK
<1>3. PICK k : k = NextClick
  OBVIOUS
<1>4. k \in Nat /\ k <= moves + 1 /\ \A j \in Clicks : j < k
  BY <1>2, <1>3, NextClickIsNew
<1>5. k \notin undone /\ (sending # None => sending.click # k)
  <2>1. \A j \in Clicks : j # k
    BY <1>2, <1>4 DEF ClicksOK
  <2> QED
    BY <2>1 DEF Clicks
<1>6. PICK p : p = Post("schedule", form, k)
  OBVIOUS
<1>7. /\ p \in Posts /\ BodyFits(p.body) /\ p.op = "schedule" /\ p.click = k /\ p.to = form.to
      /\ p.files = form.files
  <2>1. PICK op \in {"send", "schedule", "draft", "template", "untemplate"} : op = "schedule"
    OBVIOUS
  <2> QED
    BY <1>2, <1>4, <1>6, <2>1, PostOfWindow
<1>8. form' \in Windows /\ form'.text = form.text /\ form'.quote = form.quote
  <2>1. PICK g : g = [form EXCEPT !.menu = "none"]
    OBVIOUS
  <2>2. g \in Windows /\ g.text = form.text /\ g.quote = form.quote
    BY <1>2, <2>1, WindowWith
  <2>3. PICK yes \in BOOLEAN : yes = TRUE
    OBVIOUS
  <2>4. form' = [g EXCEPT !.busy = yes]
    BY <1>1, <1>2, <2>1, <2>3 DEF Windows
  <2> QED
    BY <2>2, <2>4, WindowWith
<1>9. TextFits(form')
  BY <1>2, <1>8, TextSame
<1>10. p.to /\ p.files < 2
  BY <1>1, <1>7 DEF Allowed
<1>11. moves' \in Nat /\ moves <= moves' /\ p.click <= moves'
  BY <1>2, <1>4, <1>7 DEF ClicksOK
<1> QED
  BY <1>1, <1>3, <1>5, <1>6, <1>7, <1>8, <1>9, <1>10, <1>11, PostKeeps

\* The window goes with its countdown; its requests go on.
LEMMA CloseKeeps ==
  ASSUME ComposeInv, Counted, NEW ps \in SUBSET posts, Close(ps), UNCHANGED <<mailbox, undone>>
  PROVE  ComposeInv'
<1>1. form' = None /\ sending' = None /\ posts' = {[p EXCEPT !.mine = FALSE] : p \in ps}
  BY DEF Close
<1>2. PICK no \in BOOLEAN : no = FALSE
  OBVIOUS
<1>3. ASSUME NEW q \in posts'
      PROVE  /\ q \in Posts /\ q.mine = no /\ BodyFits(q.body)
             /\ \E p \in posts : q.click = p.click /\ q.op = p.op /\ q.to = p.to /\ q.files = p.files
  <2>1. PICK p \in ps : q = [p EXCEPT !.mine = no]
    BY <1>1, <1>2
  <2>2. p \in Posts /\ BodyFits(p.body)
    BY CompParts DEF PostsOK
  <2>3. /\ q \in Posts /\ q.mine = no /\ q.body = p.body
        /\ q.click = p.click /\ q.op = p.op /\ q.to = p.to /\ q.files = p.files
    BY <2>1, <2>2 DEF Posts
  <2> QED
    BY <2>2, <2>3
<1>4. PostsOK'
  BY <1>2, <1>3 DEF PostsOK
<1>5. OutOK'
  BY <1>1, <1>3, CompParts DEF OutOK, GoesOut
<1>6. FormOK' /\ SendingOK' /\ BoxOK'
  BY <1>1, CompParts DEF FormOK, SendingOK, BoxOK
<1>7. ClicksOK'
  <2>1. ClicksSoFar /\ moves' \in Nat /\ moves <= moves'
    BY CountedMoves, CompParts, ClicksBySource
  <2>2. \A q \in posts' : q.click \in Nat /\ q.click <= moves
    BY <1>3, <2>1 DEF ClicksSoFar
  <2> QED
    BY <1>1, <2>1, <2>2, ClicksBySource DEF ClicksSoFar
<1> QED
  BY <1>4, <1>5, <1>6, <1>7, CompParts

\* A draft or a template goes out by no click.
LEMMA AsidePostKeeps ==
  ASSUME ComposeInv, Counted, form # None, NEW op \in {"draft", "template", "untemplate"},
         posts' = posts \cup {Post(op, form, 0)}, form' \in Windows, form'.text = form.text,
         form'.quote = form.quote, UNCHANGED <<sending, mailbox, undone>>
  PROVE  ComposeInv'
<1>1. form \in Windows /\ TextFits(form)
  BY CompParts DEF FormOK
<1>2. PICK p : p = Post(op, form, 0)
  OBVIOUS
<1>3. p \in Posts /\ BodyFits(p.body) /\ p.op = op /\ p.click = 0
  <2>1. op \in {"send", "schedule", "draft", "template", "untemplate"} /\ 0 \in Nat
    OBVIOUS
  <2> QED
    BY <1>1, <1>2, <2>1, PostOfWindow
<1>4. TextFits(form')
  BY <1>1, TextSame
<1>5. moves' \in Nat /\ moves <= moves' /\ p.click <= moves' /\ ~GoesOut(p)
  BY <1>3, CountedMoves DEF GoesOut
<1> QED
  BY <1>2, <1>3, <1>4, <1>5, PostKeeps

LEMMA CloseAsDraftKeeps ==
  ASSUME ComposeInv, Counted, CloseAsDraft
  PROVE  ComposeInv'
<1>1. form # None /\ mailbox' = mailbox /\ undone' = undone
  BY DEF CloseAsDraft, Editing
<1>2. CASE HasContent(form)
  <2>1. PICK yes \in BOOLEAN : yes = TRUE
    OBVIOUS
  <2>2. form' = [form EXCEPT !.busy = yes] /\ sending' = sending /\ posts' = posts \cup {Post("draft", form, 0)}
    BY <1>2, <2>1 DEF CloseAsDraft
  <2>3. form \in Windows
    BY <1>1, CompParts DEF FormOK
  <2>4. form' \in Windows /\ form'.text = form.text /\ form'.quote = form.quote
    BY <2>2, <2>3, WindowWith
  <2> QED
    BY <1>1, <2>2, <2>4, AsidePostKeeps
<1>3. CASE ~HasContent(form)
  <2>1. Close(posts)
    BY <1>3 DEF CloseAsDraft
  <2> QED
    BY <1>1, <2>1, CloseKeeps
<1> QED
  BY <1>2, <1>3

LEMMA TemplatesKeep ==
  ASSUME ComposeInv, Counted, SaveTemplate \/ DeleteTemplate
  PROVE  ComposeInv'
<1>1. form # None /\ UNCHANGED <<sending, mailbox, undone>>
  BY DEF SaveTemplate, DeleteTemplate
<1>2. form \in Windows
  BY <1>1, CompParts DEF FormOK
<1>3. CASE SaveTemplate
  <2>1. PICK m : m = IF form.menu = "templates" THEN "none" ELSE form.menu
    OBVIOUS
  <2>2. m \in {"none", "formats", "more", "templates", "template", "schedule"}
    BY <1>2, <2>1, WindowFields
  <2>3. form' = [form EXCEPT !.menu = m] /\ posts' = posts \cup {Post("template", form, 0)}
    BY <1>3, <2>1 DEF SaveTemplate
  <2>4. form' \in Windows /\ form'.text = form.text /\ form'.quote = form.quote
    BY <1>2, <2>2, <2>3, WindowWith
  <2> QED
    BY <1>1, <2>3, <2>4, AsidePostKeeps
<1>4. CASE DeleteTemplate
  <2>1. form' = form /\ posts' = posts \cup {Post("untemplate", form, 0)}
    BY <1>4 DEF DeleteTemplate
  <2> QED
    BY <1>1, <1>2, <2>1, AsidePostKeeps
<1> QED
  BY <1>3, <1>4

LEMMA ServerTakesKeeps ==
  ASSUME ComposeInv, Counted, NEW p \in posts, ServerTakes(p)
  PROVE  ComposeInv'
<1>1. PICK q : q = [p EXCEPT !.done = TRUE]
  OBVIOUS
<1>2. /\ posts' = (posts \ {p}) \cup {q} /\ form' = form /\ sending' = sending /\ undone' = undone
  BY <1>1 DEF ServerTakes
<1>3. p \in Posts /\ BodyFits(p.body) /\ (p.mine => form # None)
  BY CompParts DEF PostsOK
<1>4. /\ q \in Posts /\ q.body = p.body /\ q.mine = p.mine /\ q.click = p.click /\ q.op = p.op
      /\ q.to = p.to /\ q.files = p.files
  <2>1. PICK yes \in BOOLEAN : yes = TRUE
    OBVIOUS
  <2>2. q = [p EXCEPT !.done = yes]
    BY <1>1, <2>1
  <2> QED
    BY <1>3, <2>2 DEF Posts
<1>5. PostsOK'
  BY <1>2, <1>3, <1>4, CompParts DEF PostsOK
<1>6. /\ mailbox \in [sent : SUBSET Posts, draft : Posts \cup {None}, templates : SUBSET {"body", "subject"}]
      /\ \A o \in mailbox.sent : BodyFits(o.body)
      /\ mailbox.draft # None => BodyFits(mailbox.draft.body)
  BY CompParts DEF BoxOK
<1>7. /\ mailbox' \in [sent : SUBSET Posts, draft : Posts \cup {None}, templates : SUBSET {"body", "subject"}]
      /\ mailbox'.sent = mailbox.sent \/ (mailbox'.sent = mailbox.sent \cup {p} /\ GoesOut(p))
      /\ mailbox'.draft = mailbox.draft \/ mailbox'.draft = p
  <2>1. CASE p.op \in {"send", "schedule"}
    <3>1. PICK sent : sent = mailbox.sent \cup {p}
      OBVIOUS
    <3>2. sent \in SUBSET Posts
      BY <1>3, <1>6, <3>1
    <3>3. mailbox' = [mailbox EXCEPT !.sent = sent]
      BY <2>1, <3>1 DEF ServerTakes
    <3> QED
      BY <1>6, <2>1, <3>1, <3>2, <3>3 DEF GoesOut
  <2>2. CASE p.op = "draft"
    <3>1. mailbox' = [mailbox EXCEPT !.draft = p]
      BY <2>2 DEF ServerTakes
    <3>2. PICK d \in Posts \cup {None} : d = p
      BY <1>3
    <3>3. mailbox' = [mailbox EXCEPT !.draft = d]
      BY <3>1, <3>2
    <3>4. /\ mailbox' \in [sent : SUBSET Posts, draft : Posts \cup {None}, templates : SUBSET {"body", "subject"}]
          /\ mailbox'.sent = mailbox.sent /\ mailbox'.draft = d
      BY <1>6, <3>3
    <3> QED
      BY <3>2, <3>4
  <2>3. CASE p.op \in {"template", "untemplate"}
    <3>1. PICK ts : ts = IF p.op = "template" THEN {"body"} \cup (IF p.subject THEN {"subject"} ELSE {}) ELSE {}
      OBVIOUS
    <3>2. ts \in SUBSET {"body", "subject"}
      BY <3>1
    <3>3. mailbox' = [mailbox EXCEPT !.templates = ts]
      <4>1. CASE p.op = "template"
        BY <3>1, <4>1 DEF ServerTakes
      <4>2. CASE p.op = "untemplate"
        BY <3>1, <4>2 DEF ServerTakes
      <4> QED
        BY <2>3, <4>1, <4>2
    <3>4. /\ mailbox' \in [sent : SUBSET Posts, draft : Posts \cup {None}, templates : SUBSET {"body", "subject"}]
          /\ mailbox'.sent = mailbox.sent /\ mailbox'.draft = mailbox.draft
      BY <1>6, <3>2, <3>3
    <3> QED
      BY <3>4
  <2>4. p.op \in {"send", "schedule", "draft", "template", "untemplate"}
    BY <1>3 DEF Posts
  <2> QED
    BY <2>1, <2>2, <2>3, <2>4
<1>8. BoxOK'
  BY <1>3, <1>6, <1>7 DEF BoxOK
<1>9. OutOK'
  <2>1. \A o \in posts \cup mailbox.sent : GoesOut(o) =>
           o.to /\ o.files < 2 /\ o.click \notin undone /\ (sending # None => o.click # sending.click)
    BY CompParts DEF OutOK
  <2>2. \A o \in posts' \cup mailbox'.sent : o \in posts \cup mailbox.sent \/ o = q
    BY <1>2, <1>7
  <2>3. GoesOut(q) =>
           q.to /\ q.files < 2 /\ q.click \notin undone /\ (sending # None => q.click # sending.click)
    BY <1>4, <2>1 DEF GoesOut
  <2> QED
    BY <1>2, <2>1, <2>2, <2>3 DEF OutOK, GoesOut
<1>10. ClicksOK'
  <2>1. ClicksSoFar /\ moves' \in Nat /\ moves <= moves'
    BY CountedMoves, CompParts, ClicksBySource
  <2>2. \A o \in posts' \cup mailbox'.sent : o.click \in Nat /\ o.click <= moves
    BY <1>2, <1>4, <1>7, <2>1 DEF ClicksSoFar
  <2> QED
    BY <1>2, <2>1, <2>2, ClicksBySource DEF ClicksSoFar
<1>11. FormOK' /\ SendingOK'
  BY <1>2, CompParts DEF FormOK, SendingOK, TextFits, Allowed
<1> QED
  BY <1>5, <1>8, <1>9, <1>10, <1>11, CompParts

\* Fewer requests, and the window with another mark or menu.
LEMMA FewerPosts ==
  ASSUME ComposeInv, Counted, NEW p \in posts, posts' = posts \ {p}, UNCHANGED <<sending, mailbox, undone>>,
         \/ form' = form
         \/ form # None /\ form' \in Windows /\ form'.text = form.text /\ form'.quote = form.quote
  PROVE  ComposeInv'
<1>1. PostsOK'
  BY CompParts, WindowAssumption DEF PostsOK
<1>2. OutOK' /\ BoxOK'
  BY CompParts DEF OutOK, BoxOK, GoesOut
<1>3. FormOK' /\ SendingOK'
  <2>1. CASE form' = form
    BY <2>1, CompParts DEF FormOK, SendingOK, TextFits, Allowed
  <2>2. CASE form # None /\ form' \in Windows /\ form'.text = form.text /\ form'.quote = form.quote
    BY <2>2, CompParts, WindowAssumption DEF FormOK, SendingOK, TextFits, Allowed
  <2> QED
    BY <2>1, <2>2
<1>4. ClicksOK'
  BY CountedMoves, CompParts, ClicksBySource DEF ClicksSoFar
<1> QED
  BY <1>1, <1>2, <1>3, <1>4, CompParts

LEMMA PostAnswersKeeps ==
  ASSUME ComposeInv, Counted, NEW p \in posts, PostAnswers(p)
  PROVE  ComposeInv'
<1>1. mailbox' = mailbox /\ undone' = undone
  BY DEF PostAnswers
<1>2. CASE p.op \in {"template", "untemplate"}
  <2>1. /\ posts' = posts \ {p} /\ sending' = sending
        /\ form' = IF p.mine /\ TemplateEditor THEN [form EXCEPT !.menu = "none"] ELSE form
    BY <1>2 DEF PostAnswers
  <2>2. CASE form' = form
    BY <1>1, <2>1, <2>2, FewerPosts
  <2>3. CASE p.mine /\ form' = [form EXCEPT !.menu = "none"]
    <3>1. form # None /\ form \in Windows
      BY <2>3, CompParts DEF PostsOK, FormOK
    <3>2. form' \in Windows /\ form'.text = form.text /\ form'.quote = form.quote
      BY <2>3, <3>1, WindowWith
    <3> QED
      BY <1>1, <2>1, <3>1, <3>2, FewerPosts
  <2> QED
    BY <2>1, <2>2, <2>3
<1>3. CASE p.op \notin {"template", "untemplate"}
  <2>1. Close(posts \ {p})
    BY <1>3 DEF PostAnswers
  <2> QED
    BY <1>1, <2>1, CloseKeeps
<1> QED
  BY <1>2, <1>3

LEMMA PostFailsKeeps ==
  ASSUME ComposeInv, Counted, NEW p \in posts, PostFails(p)
  PROVE  ComposeInv'
<1>1. PICK no \in BOOLEAN : no = FALSE
  OBVIOUS
<1>2. /\ posts' = posts \ {p} /\ UNCHANGED <<sending, mailbox, undone>>
      /\ form' = form \/ (p.mine /\ form' = [form EXCEPT !.busy = no])
  BY <1>1 DEF PostFails
<1>3. CASE form' = form
  BY <1>2, <1>3, FewerPosts
<1>4. CASE p.mine /\ form' = [form EXCEPT !.busy = no]
  <2>1. form # None /\ form \in Windows
    BY <1>4, CompParts DEF PostsOK, FormOK
  <2>2. form' \in Windows /\ form'.text = form.text /\ form'.quote = form.quote
    BY <1>4, <2>1, WindowWith
  <2> QED
    BY <1>2, <2>1, <2>2, FewerPosts
<1> QED
  BY <1>2, <1>3, <1>4

LEMMA ComposeStart ==
  ASSUME ComposeInit, moves = 0
  PROVE  ComposeInv
<1>1. form = None /\ sending = None /\ posts = {} /\ undone = {}
  BY DEF ComposeInit
<1>2. PICK starts : starts = {[sent |-> {}, draft |-> None, templates |-> ts] : ts \in {{}, {"body"}}}
  OBVIOUS
<1>3. mailbox \in starts
  <2>1. mailbox \in Beginning("compose", starts)
    BY <1>2 DEF ComposeInit
  <2>2. \E s \in starts : TRUE
    BY <1>2
  <2> QED
    BY <2>1, <2>2 DEF Beginning
<1>4. PICK ts \in {{}, {"body"}} : mailbox = [sent |-> {}, draft |-> None, templates |-> ts]
  BY <1>2, <1>3
<1>5. BoxOK /\ mailbox.sent = {}
  BY <1>4 DEF BoxOK
<1>6. ClicksOK
  BY <1>1, <1>5, ClicksBySource DEF ClicksSoFar
<1>7. FormOK /\ SendingOK /\ PostsOK /\ OutOK
  BY <1>1, <1>5 DEF FormOK, SendingOK, PostsOK, OutOK
<1> QED
  BY <1>5, <1>6, <1>7, CompParts

LEMMA ComposeUserKeeps ==
  ASSUME ComposeInv, Counted, moves' = moves + 1, ComposeUser
  PROVE  ComposeInv'
<1>1. CASE OpenWindow \/ SetSubject \/ Erase \/ AddFile \/ RemoveFile \/ DragEnter \/ DragLeave \/ DropFile
  BY <1>1, OpenWindowKeeps, HeaderKeeps, EraseKeeps, FilesKeep
<1>2. ASSUME NEW k \in Aliases \cup {None}, ChooseFrom(k) PROVE ComposeInv'
  BY <1>2, ChooseFromKeeps
<1>3. CASE \E some \in BOOLEAN : SetRecipients(some)
  BY <1>3, HeaderKeeps
<1>4. ASSUME NEW part \in {"typed", "pasted"}, Write(part) PROVE ComposeInv'
  BY <1>4, WriteKeeps
<1>5. ASSUME NEW m \in {"formats", "more"}, OpenMenu(m) PROVE ComposeInv'
  <2>1. m \in {"none", "formats", "more", "templates", "template", "schedule"}
    OBVIOUS
  <2> QED
    BY <1>5, <2>1, OpenMenuKeeps
<1>6. CASE InsertTemplate \/ SaveTemplate \/ DeleteTemplate
  BY <1>6, InsertTemplateKeeps, TemplatesKeep
<1>7. CASE Send \/ UndoSend \/ ScheduleSend \/ CloseAsDraft
  BY <1>7, SendKeeps, UndoSendKeeps, ScheduleSendKeeps, CloseAsDraftKeeps
<1>8. CASE Cancel
  <2>1. Close(posts) /\ UNCHANGED <<mailbox, undone>>
    BY <1>8 DEF Cancel
  <2> QED
    BY <2>1, CloseKeeps
<1> QED
  BY <1>1, <1>2, <1>3, <1>4, <1>5, <1>6, <1>7, <1>8 DEF ComposeUser

LEMMA ComposeStep ==
  ASSUME ComposeInv, ComposeNext \/ UNCHANGED composeVars, Counted
  PROVE  ComposeInv'
<1>1. CASE UNCHANGED composeVars
  <2>1. form' = form /\ sending' = sending /\ posts' = posts /\ mailbox' = mailbox /\ undone' = undone
    BY <1>1 DEF composeVars
  <2>2. FormOK' /\ SendingOK' /\ PostsOK' /\ BoxOK' /\ OutOK'
    BY <2>1, CompParts DEF FormOK, SendingOK, PostsOK, BoxOK, OutOK, TextFits, Allowed
  <2>3. ClicksOK'
    BY <2>1, CountedMoves, CompParts, ClicksBySource DEF ClicksSoFar
  <2> QED
    BY <2>2, <2>3, CompParts
<1>2. CASE ByUser(ComposeUser)
  BY <1>2, ComposeUserKeeps DEF ByUser
<1>3. CASE \E p \in posts : PostFails(p) \/ ServerTakes(p) \/ PostAnswers(p)
  BY <1>3, PostFailsKeeps, ServerTakesKeeps, PostAnswersKeeps
<1>4. CASE InMenus
  <2>1. PICK m \in {"none", "templates", "schedule", "template"} : OpenMenu(m)
    BY <1>4 DEF InMenus
  <2>2. m \in {"none", "formats", "more", "templates", "template", "schedule"}
    BY <2>1
  <2> QED
    BY <2>1, <2>2, OpenMenuKeeps
<1>5. CASE Tick \/ \E list \in {"accounts", "identities", "templates"} : ListsArrive(list)
  BY <1>5, TickKeeps, ListsArriveKeeps
<1> QED
  BY <1>1, <1>2, <1>3, <1>4, <1>5 DEF ComposeNext, ByFault, ByItself

LEMMA ComposeGives ==
  ASSUME ComposeInv
  PROVE  OnlyAllowedGoesOut /\ NoPartTwice /\ ComposeTypeOK
<1>1. OnlyAllowedGoesOut
  BY CompParts DEF OutOK, GoesOut, OnlyAllowedGoesOut, Outgoing
<1>2. NoPartTwice
  BY CompParts DEF PostsOK, BoxOK, BodyFits, NoTwice, NoPartTwice, Outgoing
<1>3. form \in Windows \cup {None} /\ undone \subseteq Nat /\ posts \subseteq Posts
  BY CompParts DEF FormOK, ClicksOK, PostsOK
<1>4. sending # None => sending \in [left : 1..Undo, click : Nat, form : Windows] /\ form # None
  BY CompParts DEF SendingOK
<1>5. /\ mailbox.sent \subseteq Posts /\ mailbox.draft \in Posts \cup {None}
      /\ mailbox.templates \subseteq {"body", "subject"}
  BY CompParts DEF BoxOK
<1> QED
  BY <1>1, <1>2, <1>3, <1>4, <1>5 DEF ComposeTypeOK
-----------------------------------------------------------------------------
(* The tree of folders: no folder with mails is lost, whatever the list.       *)

\* The names of folders: the strings, among them those the client and the server give.
Names == STRING \cup {"INBOX", "made", "renamed"}

\* Who is above a folder that is above another is above that one too.
LEMMA UnderUnder ==
  ASSUME NEW p \in Seq(Names), NEW u \in Seq(Names), NEW q \in Seq(Names),
         Under(q, u), Under(u, p)
  PROVE  Under(q, p)
<1>1. PICK k \in Nat, n \in Nat : k = Len(q) /\ n = Len(u)
  OBVIOUS
<1>2. k < n /\ n < Len(p) /\ Len(p) \in Nat /\ SubSeq(u, 1, k) = q /\ SubSeq(p, 1, n) = u
  BY <1>1 DEF Under
<1>3. \A i \in 1..n : u[i] = p[i]
  BY <1>1, <1>2
<1>4. \A i \in 1..k : q[i] = u[i]
  BY <1>1, <1>2
<1>5. \A i \in 1..k : q[i] = p[i]
  BY <1>1, <1>2, <1>3, <1>4
<1>6. SubSeq(p, 1, k) \in Seq(Names) /\ Len(SubSeq(p, 1, k)) = k /\ \A i \in 1..k : SubSeq(p, 1, k)[i] = p[i]
  BY <1>1, <1>2
<1>7. SubSeq(p, 1, k) = q
  BY <1>1, <1>5, <1>6, SeqEqual
<1> QED
  BY <1>1, <1>2, <1>7 DEF Under

\* The folder right above one with a name of more than one part.
LEMMA UpIsAbove ==
  ASSUME NEW p \in Seq(Names), p # <<>>
  PROVE  Up(p) \in Seq(Names) /\ Len(Up(p)) = Len(p) - 1 /\ Under(Up(p), p)
<1>1. Len(p) \in Nat /\ Len(p) > 0
  BY EmptySeq
<1>2. PICK n \in Nat : n = Len(p) - 1
  BY <1>1
<1>3. PICK u : u = SubSeq(p, 1, n)
  OBVIOUS
<1>4. u \in Seq(Names) /\ Len(u) = n
  BY <1>1, <1>2, <1>3
<1>5. Up(p) = u
  BY <1>2, <1>3 DEF Up
<1> QED
  BY <1>1, <1>2, <1>3, <1>4, <1>5 DEF Under

\* Of the folders of one kind one is the best, with mails if any has some.
LEMMA BestIsOne ==
  ASSUME NEW fs, NEW same, same # {}, NEW canonical
  PROVE  /\ Best(fs, same, canonical) \in same
         /\ (\E p \in same : HasMail(fs[p])) => HasMail(fs[Best(fs, same, canonical)])
<1>1. PICK full : full = {p \in same : HasMail(fs[p])}
  OBVIOUS
<1>2. PICK pool : pool = IF full # {} THEN full ELSE same
  OBVIOUS
<1>3. PICK standard : standard = pool \cap canonical
  OBVIOUS
<1>4. \E p \in pool : standard # {} => p \in standard
  BY <1>1, <1>2, <1>3
<1>5. Best(fs, same, canonical) = CHOOSE p \in pool : standard # {} => p \in standard
  BY <1>1, <1>2, <1>3 DEF Best
<1>6. Best(fs, same, canonical) \in pool
  BY <1>4, <1>5
<1> QED
  BY <1>1, <1>2, <1>6

\* Among the folders on one way up there is a lowest.
LEMMA LowestAbove ==
  ASSUME NEW p \in Seq(Names), NEW A, A # {},
         \A q \in A : q \in Seq(Names) /\ (q = p \/ Under(q, p))
  PROVE  \E q \in A : \A r \in A : Len(r) <= Len(q)
<1> DEFINE T == {n \in Nat : \E q \in A : n = Len(p) - Len(q)}
<1>1. ASSUME NEW q \in A PROVE Len(q) \in Nat /\ Len(q) <= Len(p) /\ Len(p) \in Nat
  BY DEF Under
<1>2. PICK q \in A : TRUE
  OBVIOUS
<1>3. Len(p) - Len(q) \in T
  BY <1>1
<1>4. PICK n \in T : \A m \in T : n <= m
  BY <1>3, LeastNatural
<1>5. PICK s \in A : n = Len(p) - Len(s)
  BY <1>4
<1>6. ASSUME NEW r \in A PROVE Len(r) <= Len(s)
  <2>1. Len(p) - Len(r) \in T
    BY <1>1
  <2>2. n <= Len(p) - Len(r)
    BY <1>4, <2>1
  <2>3. Len(p) \in Nat /\ Len(r) \in Nat /\ Len(s) \in Nat
    BY <1>1
  <2> QED
    BY <1>5, <2>2, <2>3
<1> QED
  BY <1>6

\* No folder with mails is lost from a list of folders, whatever they are called, are
\* for and hold.
LEMMA NoFolderLost ==
  ASSUME NEW fs, \A p \in DOMAIN fs : p \in Seq(Names) /\ p # <<>>
  PROVE  TreeKeepsMail(fs)
<1> DEFINE nested == Nested(fs)
           Label(p) == IF nested \/ Len(p) = 1 THEN p[Len(p)] ELSE "dotted"
           Child(p) == nested /\ Len(p) > 1 /\ Up(p) \in DOMAIN fs
           Container(p) == fs[p].raw = "noselect"
           special == [p \in DOMAIN fs |->
                         IF Container(p) THEN "none"
                         ELSE IF fs[p].raw \in BackendKinds THEN fs[p].raw
                         ELSE SpecialKind(Label(p))]
           tops == {p \in DOMAIN fs : ~Container(p) /\ (Child(p) => Container(Up(p)))}
           promoted == {p \in DOMAIN fs : Child(p) /\ Up(p) \in tops
                           /\ special[Up(p)] = "inbox" /\ special[p] \notin {"none", "inbox"}}
           candidates == {p \in tops \cup promoted :
                             fs[p].raw \notin ResidualKinds /\ Label(p) # "Outbox"}
           canonical == {p \in candidates : Label(p) \in CanonicalNames}
           OfKind(k) == {p \in candidates : special[p] = k}
           duplicates == {p \in candidates : special[p] # "none"
                             /\ p # Best(fs, OfKind(special[p]), canonical)}
           roots == {p \in candidates : p \in duplicates => HasMail(fs[p])}
           above == [p \in DOMAIN fs |->
                       {q \in tops \cup promoted : q = p \/ (nested /\ Under(q, p))}]
           root == [p \in DOMAIN fs |-> CHOOSE q \in above[p] \cup {p} :
                       above[p] # {} => q \in above[p] /\ \A r \in above[p] : Len(r) <= Len(q)]
           dissolved == {p \in DOMAIN fs : Container(p) /\ (Child(p) => Container(Up(p)))}
           shown == {p \in DOMAIN fs \ dissolved : root[p] \in roots}
           kind == [p \in shown |-> IF p \in duplicates THEN "none" ELSE special[p]]
           below == [p \in shown |-> {q \in shown : q = p \/
                       (nested /\ Under(p, q) /\ Len(root[q]) <= Len(p))}]
<1>1. BuildFolderTree(fs) =
        [roots |-> roots, shown |-> shown, kind |-> kind, below |-> below, special |-> special]
  BY DEF BuildFolderTree
<1> HIDE DEF nested, Label, Child, Container, special, tops, promoted, candidates, canonical,
             OfKind, duplicates, roots, above, root, dissolved, shown, kind, below
<1>2. /\ BuildFolderTree(fs).roots = roots /\ BuildFolderTree(fs).shown = shown
      /\ BuildFolderTree(fs).kind = kind /\ BuildFolderTree(fs).special = special
  BY <1>1
<1>3. /\ tops \subseteq DOMAIN fs /\ promoted \subseteq DOMAIN fs
      /\ candidates \subseteq tops \cup promoted /\ roots \subseteq candidates
  BY DEF tops, promoted, candidates, roots
<1>4. ASSUME NEW p \in tops \cup promoted PROVE ~Container(p)
  <2>1. CASE p \in tops
    BY <2>1 DEF tops
  <2>2. CASE p \in promoted
    BY <2>2 DEF promoted, special
  <2> QED
    BY <2>1, <2>2
\* From every folder that holds mails the way up leads to one the tree begins with.
<1>5. ASSUME NEW p \in DOMAIN fs, ~Container(p) PROVE above[p] # {}
  <2> DEFINE Above(q) == q = p \/ (nested /\ Under(q, p))
             T == {n \in Nat : \E q \in DOMAIN fs : ~Container(q) /\ Above(q) /\ Len(q) = n}
  <2>1. Len(p) \in T
    BY <1>5
  <2>2. PICK n \in T : \A m \in T : n <= m
    BY <2>1, LeastNatural
  <2>3. PICK q \in DOMAIN fs : ~Container(q) /\ Above(q) /\ Len(q) = n
    BY <2>2
  <2>4. q \in tops
    <3>1. SUFFICES ASSUME nested, Len(q) > 1, Up(q) \in DOMAIN fs, ~Container(Up(q))
                   PROVE  FALSE
      BY <2>3 DEF tops, Child
    <3>2. Up(q) \in Seq(Names) /\ Len(Up(q)) = Len(q) - 1 /\ Under(Up(q), q)
      BY <2>3, UpIsAbove
    <3>3. Under(Up(q), p)
      <4>1. CASE q = p
        BY <4>1, <3>2
      <4>2. CASE Under(q, p)
        BY <4>2, <2>3, <3>2, UnderUnder
      <4> QED
        BY <2>3, <4>1, <4>2
    <3>4. Len(Up(q)) \in T
      BY <3>1, <3>2, <3>3
    <3> QED
      BY <2>2, <2>3, <3>2, <3>4
  <2>5. q \in above[p]
    BY <2>3, <2>4 DEF above
  <2> QED
    BY <2>5
\* It stands below the lowest of those.
<1>6. ASSUME NEW p \in DOMAIN fs, ~Container(p) PROVE root[p] \in above[p]
  <2>4. above[p] # {}
    BY <1>5, <1>6
  <2>5. \A q \in above[p] : q \in Seq(Names) /\ (q = p \/ Under(q, p))
    BY <1>3 DEF above
  <2>6. \E q \in above[p] : \A r \in above[p] : Len(r) <= Len(q)
    BY <2>4, <2>5, LowestAbove
  <2>7. \E q \in above[p] \cup {p} :
           above[p] # {} => q \in above[p] /\ \A r \in above[p] : Len(r) <= Len(q)
    BY <2>6
  <2>8. root[p] = CHOOSE q \in above[p] \cup {p} :
           above[p] # {} => q \in above[p] /\ \A r \in above[p] : Len(r) <= Len(q)
    BY DEF root
  <2> QED
    BY <2>4, <2>7, <2>8
\* Those are their own.
<1>7. ASSUME NEW p \in tops \cup promoted PROVE root[p] = p
  <2>1. p \in DOMAIN fs /\ p \in above[p]
    BY <1>3 DEF above
  <2>2. \A q \in above[p] : q \in Seq(Names) /\ (q = p \/ Under(q, p))
    BY <1>3, <2>1 DEF above
  <2>3. \E q \in above[p] : \A r \in above[p] : Len(r) <= Len(q)
    BY <2>1, <2>2, LowestAbove
  <2>4. \E q \in above[p] \cup {p} :
           above[p] # {} => q \in above[p] /\ \A r \in above[p] : Len(r) <= Len(q)
    BY <2>3
  <2>5. root[p] = CHOOSE q \in above[p] \cup {p} :
           above[p] # {} => q \in above[p] /\ \A r \in above[p] : Len(r) <= Len(q)
    BY <2>1 DEF root
  <2>6. root[p] \in above[p] /\ Len(p) <= Len(root[p])
    BY <2>1, <2>4, <2>5
  <2>7. root[p] = p \/ Len(root[p]) < Len(p)
    BY <2>2, <2>6 DEF Under
  <2>8. Len(root[p]) \in Nat /\ Len(p) \in Nat
    BY <2>1, <2>2, <2>6
  <2> QED
    BY <2>6, <2>7, <2>8
<1>8. ASSUME NEW p \in roots
      PROVE  p \in DOMAIN fs /\ p \in shown /\ kind[p] = IF p \in duplicates THEN "none" ELSE special[p]
  <2>1. p \in DOMAIN fs /\ p \in tops \cup promoted
    BY <1>3
  <2>2. p \in shown
    BY <1>4, <1>7, <2>1 DEF shown, dissolved
  <2> QED
    BY <2>1, <2>2 DEF kind
\* The best of a kind is a root, and the one shown as special.
<1>9. ASSUME NEW q \in candidates, special[q] # "none", NEW r,
             r = Best(fs, OfKind(special[q]), canonical)
      PROVE  /\ r \in roots /\ kind[r] = special[q]
             /\ HasMail(fs[q]) => HasMail(fs[r])
  <2>1. q \in OfKind(special[q])
    BY DEF OfKind
  <2>2. r \in OfKind(special[q]) /\ (HasMail(fs[q]) => HasMail(fs[r]))
    BY <1>9, <2>1, BestIsOne
  <2>3. r \in candidates /\ special[r] = special[q]
    BY <2>2 DEF OfKind
  <2>4. r \notin duplicates
    BY <1>9, <2>3 DEF duplicates
  <2>5. r \in roots
    BY <2>3, <2>4 DEF roots
  <2> QED
    BY <1>8, <2>2, <2>3, <2>4, <2>5
<1>10. ASSUME NEW p \in roots, kind[p] # "none"
      PROVE  kind[p] = special[p] /\ p \in candidates /\ p = Best(fs, OfKind(special[p]), canonical)
  BY <1>3, <1>8, <1>10 DEF duplicates
<1>11. ASSUME NEW p \in DOMAIN fs, HasMail(fs[p]), fs[p].raw # "noselect", p \notin shown
       PROVE  \E q \in DOMAIN fs : (q = p \/ Under(q, p)) /\
                \/ fs[q].raw \in ResidualKinds \/ q[Len(q)] = "Outbox"
                \/ ~HasMail(fs[q]) /\ \E r \in roots :
                      r # q /\ (r \in roots /\ kind[r] # "none") /\ kind[r] = special[q]
  <2>1. ~Container(p) /\ p \notin dissolved
    BY <1>11 DEF Container, dissolved
  <2>2. PICK q : q = root[p]
    OBVIOUS
  <2>3. q \in above[p] /\ q \notin roots
    BY <1>6, <1>11, <2>1, <2>2 DEF shown
  <2>4. q \in tops \cup promoted /\ (q = p \/ Under(q, p)) /\ q \in DOMAIN fs
    BY <1>3, <2>3 DEF above
  <2>5. CASE q \notin candidates
    <3>1. fs[q].raw \in ResidualKinds \/ Label(q) = "Outbox"
      BY <2>4, <2>5 DEF candidates
    <3>2. Label(q) = "Outbox" => q[Len(q)] = "Outbox"
      BY DEF Label
    <3> QED
      BY <2>4, <3>1, <3>2
  <2>6. CASE q \in candidates
    <3>1. q \in duplicates /\ ~HasMail(fs[q])
      BY <2>3, <2>6 DEF roots
    <3>2. special[q] # "none" /\ q # Best(fs, OfKind(special[q]), canonical)
      BY <3>1 DEF duplicates
    <3>3. PICK r : r = Best(fs, OfKind(special[q]), canonical)
      OBVIOUS
    <3>4. r \in roots /\ kind[r] = special[q] /\ r # q
      BY <1>9, <2>6, <3>2, <3>3
    <3> QED
      BY <2>4, <3>1, <3>2, <3>4
  <2> QED
    BY <2>5, <2>6
<1>12. ASSUME NEW p \in roots, NEW q \in roots, kind[p] # "none", kind[p] = kind[q]
       PROVE  p = q
  BY <1>10, <1>12
<1>13. ASSUME NEW p \in roots, kind[p] # "none", ~HasMail(fs[p]), NEW q \in roots,
              special[q] = kind[p]
       PROVE  ~HasMail(fs[q])
  <2>1. q \in candidates /\ special[q] # "none" /\ special[q] = special[p]
    BY <1>3, <1>10, <1>13
  <2>2. p = Best(fs, OfKind(special[q]), canonical)
    BY <1>10, <1>13, <2>1
  <2> QED
    BY <1>9, <1>13, <2>1, <2>2
<1> QED
  BY <1>2, <1>11, <1>12, <1>13 DEF TreeKeepsMail

-----------------------------------------------------------------------------
(* MailSidebar: every folder has a name, whatever is made, renamed and moved,  *)
(* so that a tree can be built of every list shown.                            *)

PathList(fs) == \A p \in DOMAIN fs : p \in Seq(Names) /\ p # <<>>
SideCallFits(c) ==
    /\ \A fs \in c.got : PathList(fs)
    /\ c.op \in FolderOps => c.arg[1] \in Seq(Names) /\ c.arg[2] \in Seq(Names)
ListsFit == \A a \in Accounts : PathList(boxes.folders[a])
PopupFit == popup # None => popup.path \in Seq(Names)
ServerFits ==
    /\ boxServer.live = [a \in Accounts |-> boxServer.live[a]]
    /\ boxServer.counted = [a \in Accounts |-> boxServer.counted[a]]
    /\ \A a \in Accounts : PathList(boxServer.live[a]) /\ \A fs \in boxServer.counted[a] : PathList(fs)
AllSideCallsFit == \A c \in sideCalls : SideCallFits(c)

FoldersInv == ListsFit /\ PopupFit /\ ServerFits /\ AllSideCallsFit

LEMMA PathsAreNames ==
  ASSUME NEW p \in Seq(STRING)
  PROVE  p \in Seq(Names)
  BY SeqMonotonic DEF Names

LEMMA OnlyInboxFits == PathList(OnlyInbox)
<1>0. PICK name \in Names : name = "INBOX"
  BY DEF Names
<1>1. PICK p : p = <<name>>
  OBVIOUS
<1>2. p \in Seq(Names) /\ p # <<>> /\ p = Inbox
  BY <1>0, <1>1 DEF Inbox
<1> QED
  BY <1>1, <1>2 DEF PathList, OnlyInbox

LEMMA NewCallFits ==
  ASSUME NEW op, op \notin FolderOps, NEW a, NEW new, new = SideCall(op, a)
  PROVE  SideCallFits(new)
<1>1. new = [op |-> op, acc |-> a, arg |-> None, seq |-> 0, mine |-> TRUE, done |-> FALSE,
             got |-> {}, order |-> <<>>]
  BY DEF SideCall
<1>2. new.op = op /\ new.got = {}
  BY <1>1
<1> QED
  BY <1>2 DEF SideCallFits

\* Loading the folders of an account, from the cache first.
LEMMA LoadingFits ==
  ASSUME NEW a, NEW live, NEW new, new = [SideCall("cached", a) EXCEPT !.arg = live]
  PROVE  SideCallFits(new)
<1>1. new = [op |-> "cached", acc |-> a, arg |-> live, seq |-> 0, mine |-> TRUE, done |-> FALSE,
             got |-> {}, order |-> <<>>]
  BY DEF SideCall
<1>2. new.op = "cached" /\ new.got = {}
  BY <1>1
<1> QED
  BY <1>2 DEF SideCallFits, FolderOps

\* A request renewed or no longer counted asks for the same and has got the same.
LEMMA SameCallFits ==
  ASSUME NEW e, SideCallOK(e), SideCallFits(e), NEW x,
         NEW new, new = [e EXCEPT !.seq = x] \/ new = [e EXCEPT !.mine = x]
  PROVE  SideCallFits(new)
<1>1. e = [op |-> e.op, acc |-> e.acc, arg |-> e.arg, seq |-> e.seq, mine |-> e.mine,
           done |-> e.done, got |-> e.got, order |-> e.order]
  BY DEF SideCallOK
<1>2. new.op = e.op /\ new.arg = e.arg /\ new.got = e.got
  <2>1. CASE new = [e EXCEPT !.seq = x]
    BY <1>1, <2>1
  <2>2. CASE new = [e EXCEPT !.mine = x]
    BY <1>1, <2>2
  <2> QED
    BY <2>1, <2>2
<1> QED
  BY <1>2 DEF SideCallFits

LEMMA CountCallsGot ==
  ASSUME NEW a \in Accounts, NEW live \in BOOLEAN, NEW cs,
         \A c \in cs : SideCallOK(c) /\ SideCallFits(c), NEW c \in CountCalls(a, live, cs)
  PROVE  SideCallFits(c)
<1>1. PICK op, next : op = (IF live THEN "recount" ELSE "count") /\ next = boxes.seq[a] + 1
  OBVIOUS
<1>2. op \in SideOps /\ op \notin FolderOps
  BY <1>1 DEF SideOps, FolderOps
<1>3. CASE c \in cs
  BY <1>3
<1>4. CASE c \notin cs /\ \E d \in cs : d.op = op /\ d.acc = a
  <2>1. PICK d \in cs : d = CHOOSE x \in cs : x.op = op /\ x.acc = a
    BY <1>4
  <2>2. c = [d EXCEPT !.seq = next]
    BY <1>1, <1>4, <2>1 DEF CountCalls
  <2> QED
    BY <2>2, SameCallFits
<1>5. CASE c \notin cs /\ ~\E d \in cs : d.op = op /\ d.acc = a
  <2>1. PICK new : new = SideCall(op, a)
    OBVIOUS
  <2>2. SideCallOK(new) /\ SideCallFits(new)
    BY <2>1, <1>2, NewSideCall, NewCallFits
  <2>3. c = [new EXCEPT !.seq = next]
    BY <1>1, <1>5, <2>1 DEF CountCalls
  <2> QED
    BY <2>2, <2>3, SameCallFits
<1> QED
  BY <1>3, <1>4, <1>5

LEMMA FolderParts ==
  /\ FoldersInv <=> ListsFit /\ PopupFit /\ ServerFits /\ AllSideCallsFit
  /\ FoldersInv' <=> ListsFit' /\ PopupFit' /\ ServerFits' /\ AllSideCallsFit'
BY DEF FoldersInv

\* The lists stand still, and new requests fit.
LEMMA FoldersStay ==
  ASSUME FoldersInv, boxes'.folders = boxes.folders, popup' = popup \/ popup' = None,
         boxServer'.live = boxServer.live, boxServer'.counted = boxServer.counted,
         \A c \in sideCalls' : c \in sideCalls \/ SideCallFits(c)
  PROVE  FoldersInv'
<1>1. ListsFit /\ PopupFit /\ ServerFits /\ AllSideCallsFit
  BY FolderParts
<1>2. ListsFit' /\ PopupFit'
  BY <1>1 DEF ListsFit, PopupFit
<1>3. ServerFits'
  BY <1>1 DEF ServerFits
<1>4. AllSideCallsFit'
  BY <1>1 DEF AllSideCallsFit
<1> QED
  BY <1>2, <1>3, <1>4, FolderParts

LEMMA FoldersStart == SideInit => FoldersInv
<1> SUFFICES ASSUME SideInit PROVE FoldersInv
  OBVIOUS
<1>1. PICK fs \in Beginning("sidebar", Lists) :
        boxServer = [live |-> [a \in Accounts |-> IF a = FirstAccount THEN fs ELSE OnlyInbox],
                     counted |-> [a \in Accounts |-> IF a = FirstAccount THEN {fs} ELSE {}],
                     order |-> <<>>]
  BY DEF SideInit
<1>2. PathList(fs)
  <2>1. fs \in Lists
    BY <1>1, ListsAssumption DEF Beginning
  <2>2. \A p \in DOMAIN fs : p \in Seq(STRING) /\ p # <<>>
    BY <2>1, ListsAssumption
  <2> QED
    BY <2>2, PathsAreNames DEF PathList
<1>3. /\ boxServer.live = [a \in Accounts |-> IF a = FirstAccount THEN fs ELSE OnlyInbox]
      /\ boxServer.counted = [a \in Accounts |-> IF a = FirstAccount THEN {fs} ELSE {}]
  BY <1>1
<1>4. ServerFits
  <2>1. /\ boxServer.live = [a \in Accounts |-> boxServer.live[a]]
        /\ boxServer.counted = [a \in Accounts |-> boxServer.counted[a]]
    BY <1>3
  <2>2. ASSUME NEW a \in Accounts
        PROVE  PathList(boxServer.live[a]) /\ \A l \in boxServer.counted[a] : PathList(l)
    BY <1>2, <1>3, OnlyInboxFits
  <2> QED
    BY <2>1, <2>2 DEF ServerFits
<1>5. ListsFit
  <2>1. boxes.folders = [a \in Accounts |-> [p \in {} |-> None]]
    BY DEF SideInit
  <2>2. \A a \in Accounts : DOMAIN boxes.folders[a] = {}
    BY <2>1
  <2> QED
    BY <2>2 DEF ListsFit, PathList
<1>6. PopupFit
  BY DEF SideInit, PopupFit
<1>7. AllSideCallsFit
  <2>1. PICK x, y : x = SideCall("accounts", FirstAccount) /\ y = SideCall("order", FirstAccount)
    OBVIOUS
  <2>2. "accounts" \notin FolderOps /\ "order" \notin FolderOps
    BY DEF FolderOps
  <2>3. SideCallFits(x) /\ SideCallFits(y)
    BY <2>1, <2>2, NewCallFits
  <2>4. sideCalls = {x, y}
    BY <2>1 DEF SideInit
  <2> QED
    BY <2>3, <2>4 DEF AllSideCallsFit
<1> QED
  BY <1>4, <1>5, <1>6, <1>7, FolderParts

\* Selecting an account asks for its counts and its quota.
LEMMA SelectGot ==
  ASSUME SideInv, FoldersInv, NEW a \in Accounts, NEW p, NEW s, s = [acc |-> a, path |-> p],
         SelectBox(s, sideCalls), popup' = popup, boxServer' = boxServer
  PROVE  FoldersInv'
<1>0. s.acc = a /\ BoxesOK /\ SideCallsOK /\ AllSideCallsFit
  BY SideParts, FolderParts
<1>1. CASE a = place.acc
  <2>1. boxes' = boxes /\ sideCalls' = sideCalls
    BY <1>0, <1>1 DEF SelectBox
  <2> QED
    BY <2>1, FoldersStay
<1>2. CASE a # place.acc
  <2>1. Counting(a)
    BY <1>0, <1>2 DEF SelectBox
  <2>2. PICK rest : rest = {IF c.op = "quota" THEN [c EXCEPT !.mine = FALSE] ELSE c : c \in sideCalls}
    OBVIOUS
  <2>3. PICK new : new = SideCall("quota", a)
    OBVIOUS
  <2>4. sideCalls' = CountCalls(a, FALSE, rest) \cup {new}
    BY <1>0, <1>2, <2>2, <2>3 DEF SelectBox
  <2>5. boxes'.folders = boxes.folders
    BY <1>0, <2>1, CountingFits
  <2>6. ASSUME NEW d \in rest PROVE SideCallOK(d) /\ SideCallFits(d)
    <3>1. PICK c \in sideCalls : d = IF c.op = "quota" THEN [c EXCEPT !.mine = FALSE] ELSE c
      BY <2>2
    <3>2. SideCallOK(c) /\ SideCallFits(c)
      BY <1>0 DEF SideCallsOK, AllSideCallsFit
    <3>3. SideCallOK(d)
      BY <3>1, <3>2, SideCallOld
    <3>4. SideCallFits(d)
      BY <3>1, <3>2, SameCallFits
    <3> QED
      BY <3>3, <3>4
  <2>7. SideCallFits(new)
    BY <2>3, NewCallFits DEF FolderOps
  <2>8. \A c \in CountCalls(a, FALSE, rest) : SideCallFits(c)
    BY <2>6, CountCallsGot
  <2> QED
    BY <2>4, <2>5, <2>7, <2>8, FoldersStay
<1> QED
  BY <1>1, <1>2

\* What changes neither the lists nor the requests.
LEMMA ScreenKeepsFolders ==
  ASSUME SideInv, FoldersInv,
         \/ \E m : Marking(m)
         \/ HideFolder \/ CloseFolderMenu \/ OpenWanted \/ ReorderAccounts
  PROVE  FoldersInv'
<1>1. CASE \E m : Marking(m)
  BY <1>1, FoldersStay DEF Marking
<1>2. CASE HideFolder
  BY <1>2, FoldersStay DEF HideFolder
<1>3. CASE CloseFolderMenu
  BY <1>3, FoldersStay DEF CloseFolderMenu, Popup
<1>4. CASE OpenWanted
  BY <1>4, FoldersStay DEF OpenWanted, Unify
<1>5. CASE ReorderAccounts
  <2>1. PICK o : boxes' = [boxes EXCEPT !.order = o] /\ boxServer' = [boxServer EXCEPT !.order = o]
    BY <1>5 DEF ReorderAccounts
  <2>2. popup' = popup /\ sideCalls' = sideCalls
    BY <1>5 DEF ReorderAccounts
  <2>3. PICK l, p, s, f : boxes = [list |-> l, order |-> p, seq |-> s, folders |-> f]
    BY SideParts DEF BoxesOK
  <2>4. boxes'.folders = boxes.folders
    BY <2>1, <2>3
  <2>5. boxServer = [live |-> boxServer.live, counted |-> boxServer.counted, order |-> boxServer.order]
    BY SideParts DEF BoxServerOK
  <2>6. boxServer' = [live |-> boxServer.live, counted |-> boxServer.counted, order |-> o]
    BY <2>1, <2>5
  <2>7. boxServer'.live = boxServer.live /\ boxServer'.counted = boxServer.counted
    BY <2>6
  <2> QED
    BY <2>2, <2>4, <2>7, FoldersStay
<1> QED
  BY <1>1, <1>2, <1>3, <1>4, <1>5

\* One more request, and what it is about none of the folders.
LEMMA AskingKeepsFolders ==
  ASSUME FoldersInv, NEW op, op \notin FolderOps, NEW a, boxes' = boxes, popup' = popup,
         boxServer' = boxServer, sideCalls' = sideCalls \cup {SideCall(op, a)}
  PROVE  FoldersInv'
<1>1. PICK new : new = SideCall(op, a)
  OBVIOUS
<1>2. SideCallFits(new)
  BY <1>1, NewCallFits
<1> QED
  BY <1>1, <1>2, FoldersStay

LEMMA UnifiedKeepsFolders ==
  ASSUME FoldersInv, ToggleUnified \/ ReloadUnified
  PROVE  FoldersInv'
<1>1. "unified" \notin FolderOps
  BY DEF FolderOps
<1>2. ASSUME NEW u, LoadUnified(u) PROVE FoldersInv'
  BY <1>1, <1>2, AskingKeepsFolders DEF LoadUnified, Unify
<1>3. ASSUME NEW u, Unify(u, sideCalls) PROVE FoldersInv'
  BY <1>3, FoldersStay DEF Unify
<1> QED
  BY <1>2, <1>3 DEF ToggleUnified, ReloadUnified

LEMMA PopupKeepsFolders ==
  ASSUME FoldersInv, NEW q, Popup(q), q.path \in Seq(Names)
  PROVE  FoldersInv'
<1>1. PopupFit'
  BY DEF Popup, PopupFit
<1>2. boxes' = boxes /\ boxServer' = boxServer /\ sideCalls' = sideCalls
  BY DEF Popup
<1> QED
  BY <1>1, <1>2, FolderParts DEF ListsFit, ServerFits, AllSideCallsFit

LEMMA DialogsKeepFolders ==
  ASSUME SideInv, FoldersInv,
         \/ \E a \in Accounts : NewFolder(a) \/ \E p \in DOMAIN boxes.folders[a] : OpenFolderMenu(a, p)
         \/ \E op : FolderDialog(op)
  PROVE  FoldersInv'
<1>1. CASE \E a \in Accounts : NewFolder(a)
  <2>1. PICK a \in Accounts : Popup([kind |-> "dialog", op |-> "new", acc |-> a, path |-> <<>>])
    BY <1>1 DEF NewFolder
  <2>2. PICK q : q = [kind |-> "dialog", op |-> "new", acc |-> a, path |-> <<>>]
    OBVIOUS
  <2>3. q.path \in Seq(Names)
    BY <2>2
  <2> QED
    BY <2>1, <2>2, <2>3, PopupKeepsFolders
<1>2. CASE \E a \in Accounts : \E p \in DOMAIN boxes.folders[a] : OpenFolderMenu(a, p)
  <2>1. PICK a \in Accounts : \E p \in DOMAIN boxes.folders[a] : OpenFolderMenu(a, p)
    BY <1>2
  <2>2. PICK p \in DOMAIN boxes.folders[a] : OpenFolderMenu(a, p)
    BY <2>1
  <2>3. PICK q : q = [kind |-> "menu", op |-> None, acc |-> a, path |-> p]
    OBVIOUS
  <2>4. Popup(q) /\ q.path = p
    BY <2>2, <2>3 DEF OpenFolderMenu
  <2>5. p \in Seq(Names)
    BY <2>2, FolderParts DEF ListsFit, PathList
  <2> QED
    BY <2>4, <2>5, PopupKeepsFolders
<1>3. CASE \E op : FolderDialog(op)
  <2>1. PICK op : FolderDialog(op)
    BY <1>3
  <2>2. PICK q : q = [popup EXCEPT !.kind = "dialog", !.op = op]
    OBVIOUS
  <2>3. Popup(q) /\ popup # None
    BY <2>1, <2>2 DEF FolderDialog
  <2>4. popup = [kind |-> popup.kind, op |-> popup.op, acc |-> popup.acc, path |-> popup.path]
    BY <2>3, SideParts DEF PopupOK
  <2>5. q.path = popup.path
    BY <2>2, <2>4
  <2>6. popup.path \in Seq(Names)
    BY <2>3, FolderParts DEF PopupFit
  <2> QED
    BY <2>3, <2>5, <2>6, PopupKeepsFolders
<1> QED
  BY <1>1, <1>2, <1>3

\* What is asked of the folders are folders.
LEMMA ConfirmKeepsFolders ==
  ASSUME SideInv, FoldersInv, Confirm
  PROVE  FoldersInv'
<1>0. popup # None /\ popup.acc \in Accounts /\ popup.path \in Seq(Names) /\ ListsFit
  BY SideParts, FolderParts DEF Confirm, PopupOK, PopupFit
<1>1. PICK target \in (IF popup.op = "move" THEN Targets(popup.acc, popup.path) ELSE {<<>>}) :
        sideCalls' = sideCalls \cup
             {[SideCall(popup.op, popup.acc) EXCEPT !.arg = <<popup.path, target>>]}
  BY DEF Confirm
<1>2. target \in Seq(Names)
  <2>1. target = <<>> \/ target \in DOMAIN boxes.folders[popup.acc]
    BY <1>1 DEF Targets
  <2>2. <<>> \in Seq(Names)
    BY EmptySeq
  <2>3. \A p \in DOMAIN boxes.folders[popup.acc] : p \in Seq(Names)
    BY <1>0 DEF ListsFit, PathList
  <2> QED
    BY <2>1, <2>2, <2>3
<1>3. PICK e : e = SideCall(popup.op, popup.acc)
  OBVIOUS
<1>4. PICK arg : arg = <<popup.path, target>>
  OBVIOUS
<1>5. PICK new : new = [e EXCEPT !.arg = arg]
  OBVIOUS
<1>6. e = [op |-> popup.op, acc |-> popup.acc, arg |-> None, seq |-> 0, mine |-> TRUE, done |-> FALSE,
           got |-> {}, order |-> <<>>]
  BY <1>3 DEF SideCall
<1>7. new.arg = arg /\ new.got = {}
  BY <1>5, <1>6
<1>8. arg[1] = popup.path /\ arg[2] = target
  BY <1>4
<1>9. SideCallFits(new)
  BY <1>0, <1>2, <1>7, <1>8 DEF SideCallFits
<1>10. /\ popup' = None /\ boxes' = boxes /\ boxServer' = boxServer /\ sideCalls' = sideCalls \cup {new}
  BY <1>1, <1>3, <1>4, <1>5 DEF Confirm
<1> QED
  BY <1>9, <1>10, FoldersStay

\* What the server makes of folders with names are folders with names.
LEMMA MadeFits ==
  ASSUME NEW fs, PathList(fs), NEW p \in Seq(Names), p # <<>>
  PROVE  PathList(Made(fs, p))
<1>1. DOMAIN Made(fs, p) = DOMAIN fs \cup {p}
  BY DEF Made
<1> QED
  BY <1>1 DEF PathList

LEMMA DeletedFits ==
  ASSUME NEW fs, PathList(fs), NEW p, NEW new, new = [q \in DOMAIN fs \ {p} |-> fs[q]]
  PROVE  PathList(new)
<1>1. DOMAIN new = DOMAIN fs \ {p}
  OBVIOUS
<1> QED
  BY <1>1 DEF PathList

LEMMA MovedFits ==
  ASSUME NEW fs, PathList(fs), NEW p \in Seq(Names), NEW q \in Seq(Names), q # <<>>
  PROVE  PathList(Moved(fs, p, q))
<1> DEFINE To(r) == IF r = p \/ Under(p, r) THEN q \o SubSeq(r, Len(p) + 1, Len(r)) ELSE r
<1>1. DOMAIN Moved(fs, p, q) = {To(s) : s \in DOMAIN fs}
  BY DEF Moved
<1>2. ASSUME NEW s \in DOMAIN fs PROVE To(s) \in Seq(Names) /\ To(s) # <<>>
  <2>1. s \in Seq(Names) /\ s # <<>>
    BY DEF PathList
  <2>2. CASE ~(s = p \/ Under(p, s))
    BY <2>1, <2>2
  <2>3. CASE s = p \/ Under(p, s)
    <3>1. Len(p) \in Nat /\ Len(s) \in Nat /\ Len(p) <= Len(s) /\ Len(q) \in Nat /\ Len(q) > 0
      BY <2>1, <2>3, EmptySeq DEF Under
    <3>2. PICK k \in Nat, n \in Nat : k = Len(p) + 1 /\ n = Len(s)
      BY <3>1
    <3>3. PICK rest : rest = SubSeq(s, k, n)
      OBVIOUS
    <3>4. rest \in Seq(Names)
      BY <2>1, <3>1, <3>2, <3>3, SubSeqProperties
    <3>5. q \o rest \in Seq(Names) /\ Len(q \o rest) = Len(q) + Len(rest) /\ Len(rest) \in Nat
      BY <3>4, ConcatProperties
    <3>6. q \o rest # <<>>
      BY <3>1, <3>5, EmptySeq
    <3>7. To(s) = q \o rest
      BY <2>3, <3>2, <3>3
    <3> QED
      BY <3>5, <3>6, <3>7
  <2> QED
    BY <2>2, <2>3
<1> HIDE DEF To
<1> QED
  BY <1>1, <1>2 DEF PathList

\* A folder renamed or moved gets a name that is one.
LEMMA NewNameFits ==
  ASSUME NEW p \in Seq(Names), NEW t \in Seq(Names)
  PROVE  /\ Append(p, "made") \in Seq(Names) /\ Append(p, "made") # <<>>
         /\ p # <<>> => /\ Append(Up(p), "renamed") \in Seq(Names) /\ Append(Up(p), "renamed") # <<>>
                        /\ t \o <<p[Len(p)]>> \in Seq(Names) /\ t \o <<p[Len(p)]>> # <<>>
<1>1. ASSUME NEW s \in Seq(Names), NEW name \in Names
      PROVE  Append(s, name) \in Seq(Names) /\ Append(s, name) # <<>>
  <2>1. Append(s, name) \in Seq(Names) /\ Len(Append(s, name)) = Len(s) + 1 /\ Len(s) \in Nat
    OBVIOUS
  <2> QED
    BY <2>1, EmptySeq
<1>2. PICK made \in Names, renamed \in Names : made = "made" /\ renamed = "renamed"
  BY DEF Names
<1>3. ASSUME p # <<>>
      PROVE  /\ Append(Up(p), "renamed") \in Seq(Names) /\ Append(Up(p), "renamed") # <<>>
             /\ t \o <<p[Len(p)]>> \in Seq(Names) /\ t \o <<p[Len(p)]>> # <<>>
  <2>1. Up(p) \in Seq(Names)
    BY <1>3, UpIsAbove
  <2>2. Len(p) \in Nat /\ Len(p) > 0
    BY <1>3, EmptySeq
  <2>3. PICK name \in Names : name = p[Len(p)]
    BY <2>2, ElementOfSeq
  <2>4. PICK one : one = <<name>>
    OBVIOUS
  <2>5. one \in Seq(Names) /\ Len(one) = 1
    BY <2>4
  <2>6. t \o one \in Seq(Names) /\ Len(t \o one) = Len(t) + Len(one) /\ Len(t) \in Nat
    <3>1. ASSUME NEW a \in Seq(Names), NEW b \in Seq(Names)
          PROVE  a \o b \in Seq(Names) /\ Len(a \o b) = Len(a) + Len(b) /\ Len(a) \in Nat
      BY ConcatProperties
    <3> QED
      BY <2>5, <3>1
  <2>7. t \o one # <<>>
    BY <2>5, <2>6, EmptySeq
  <2> QED
    BY <1>1, <1>2, <2>1, <2>3, <2>4, <2>6, <2>7
<1> QED
  BY <1>1, <1>2, <1>3

LEMMA ChangedFits ==
  ASSUME SideInv, FoldersInv, NEW c \in sideCalls, c.op \in FolderOps, Possible(c)
  PROVE  PathList(Changed(c))
<1>0. c.acc \in Accounts /\ SideCallFits(c) /\ ServerFits
  BY SideParts, FolderParts DEF SideCallsOK, SideCallOK, AllSideCallsFit
<1>1. PICK fs, p, t : fs = boxServer.live[c.acc] /\ p = c.arg[1] /\ t = c.arg[2]
  OBVIOUS
<1>2. PathList(fs) /\ p \in Seq(Names) /\ t \in Seq(Names)
  BY <1>0, <1>1 DEF ServerFits, SideCallFits
<1>3. CASE c.op \in {"new", "sub"}
  <2>1. Changed(c) = Made(fs, Append(p, "made"))
    BY <1>1, <1>3 DEF Changed
  <2>2. PICK q : q = Append(p, "made")
    OBVIOUS
  <2>3. q \in Seq(Names) /\ q # <<>>
    BY <1>2, <2>2, NewNameFits
  <2> QED
    BY <1>2, <2>1, <2>2, <2>3, MadeFits
<1>4. CASE c.op = "delete"
  <2>1. Changed(c) = [q \in DOMAIN fs \ {p} |-> fs[q]]
    BY <1>1, <1>4 DEF Changed
  <2> QED
    BY <1>2, <2>1, DeletedFits
<1>5. CASE c.op \in {"rename", "move"}
  <2>1. p \in DOMAIN fs
    BY <1>1, <1>5 DEF Possible
  <2>2. p # <<>>
    BY <1>2, <2>1 DEF PathList
  <2>3. PICK moved : moved = IF c.op = "rename" THEN Append(Up(p), "renamed") ELSE t \o <<p[Len(p)]>>
    OBVIOUS
  <2>4. moved \in Seq(Names) /\ moved # <<>>
    BY <1>2, <2>2, <2>3, NewNameFits
  <2>5. Changed(c) = IF moved \notin DOMAIN fs THEN Moved(fs, p, moved) ELSE fs
    BY <1>1, <1>5, <2>3 DEF Changed
  <2> QED
    BY <1>2, <2>4, <2>5, MovedFits
<1> QED
  BY <1>3, <1>4, <1>5 DEF FolderOps

LEMMA BoxServerKeepsFolders ==
  ASSUME SideInv, FoldersInv, NEW c \in sideCalls, BoxServerDoes(c)
  PROVE  FoldersInv'
<1>0. /\ c.acc \in Accounts /\ SideCallFits(c) /\ SideCallOK(c) /\ ListsFit /\ PopupFit /\ ServerFits
      /\ AllSideCallsFit /\ BoxServerOK
  BY SideParts, FolderParts DEF SideCallsOK, SideCallOK, AllSideCallsFit
<1>1. boxes' = boxes /\ popup' = popup
  BY DEF BoxServerDoes
<1>2. PICK live, counted : live = boxServer.live /\ counted = boxServer.counted
  OBVIOUS
<1>3. /\ live = [a \in Accounts |-> live[a]] /\ counted = [a \in Accounts |-> counted[a]]
      /\ \A a \in Accounts : PathList(live[a]) /\ \A fs \in counted[a] : PathList(fs)
      /\ boxServer = [live |-> live, counted |-> counted, order |-> boxServer.order]
  BY <1>0, <1>2 DEF ServerFits, BoxServerOK
<1>4. ServerFits'
  <2>1. CASE boxServer' = boxServer
    BY <1>0, <2>1 DEF ServerFits
  <2>2. CASE c.op \in FolderOps /\ Possible(c) /\ boxServer' = [boxServer EXCEPT !.live[c.acc] = Changed(c)]
    <3>1. PICK fs : fs = Changed(c)
      OBVIOUS
    <3>2. PathList(fs)
      BY <2>2, <3>1, ChangedFits
    <3>3. PICK l : l = [live EXCEPT ![c.acc] = fs]
      OBVIOUS
    <3>4. boxServer' = [live |-> l, counted |-> counted, order |-> boxServer.order]
      BY <1>2, <1>3, <2>2, <3>1, <3>3
    <3>5. boxServer'.live = l /\ boxServer'.counted = counted
      BY <3>4
    <3>6. l = [a \in Accounts |-> l[a]] /\ \A a \in Accounts : PathList(l[a])
      BY <1>0, <1>3, <3>2, <3>3
    <3> QED
      BY <1>3, <3>5, <3>6 DEF ServerFits
  <2>3. CASE boxServer' = [boxServer EXCEPT !.counted[c.acc] = {boxServer.live[c.acc]}]
    <3>1. PICK new : new = {live[c.acc]}
      OBVIOUS
    <3>2. \A fs \in new : PathList(fs)
      BY <1>0, <1>3, <3>1
    <3>3. PICK k : k = [counted EXCEPT ![c.acc] = new]
      OBVIOUS
    <3>4. boxServer' = [live |-> live, counted |-> k, order |-> boxServer.order]
      BY <1>2, <1>3, <2>3, <3>1, <3>3
    <3>5. boxServer'.live = live /\ boxServer'.counted = k
      BY <3>4
    <3>6. k = [a \in Accounts |-> k[a]] /\ \A a \in Accounts : \A fs \in k[a] : PathList(fs)
      BY <1>0, <1>3, <3>2, <3>3
    <3> QED
      BY <1>3, <3>5, <3>6 DEF ServerFits
  <2> QED
    BY <2>1, <2>2, <2>3 DEF BoxServerDoes
<1>5. PICK new : new = [c EXCEPT !.done = TRUE, !.order = IF c.op = "order" THEN boxServer.order ELSE <<>>,
                    !.got = IF c.op \in FolderOps \cup {"order"} THEN {} ELSE boxServer'.counted[c.acc]]
  OBVIOUS
<1>6. sideCalls' = (sideCalls \ {c}) \cup {new}
  BY <1>5 DEF BoxServerDoes
<1>7. SideCallFits(new)
  <2>1. new = [op |-> c.op, acc |-> c.acc, arg |-> c.arg, seq |-> c.seq, mine |-> c.mine, done |-> TRUE,
               got |-> IF c.op \in FolderOps \cup {"order"} THEN {} ELSE boxServer'.counted[c.acc],
               order |-> IF c.op = "order" THEN boxServer.order ELSE <<>>]
    BY <1>0, <1>5 DEF SideCallOK
  <2>2. /\ new.op = c.op /\ new.arg = c.arg
        /\ new.got = IF c.op \in FolderOps \cup {"order"} THEN {} ELSE boxServer'.counted[c.acc]
    BY <2>1
  <2>3. \A fs \in new.got : PathList(fs)
    BY <1>0, <1>4, <2>2 DEF ServerFits
  <2> QED
    BY <1>0, <2>2, <2>3 DEF SideCallFits
<1>8. ListsFit' /\ PopupFit' /\ AllSideCallsFit'
  BY <1>0, <1>1, <1>6, <1>7 DEF ListsFit, PopupFit, AllSideCallsFit
<1> QED
  BY <1>4, <1>8, FolderParts

\* A list shown is one the server gave, or the inbox alone.
LEMMA SetFoldersKeeps ==
  ASSUME SideInv, FoldersInv, NEW a \in Accounts, NEW fs, PathList(fs), SetFolders(a, fs)
  PROVE  ListsFit'
<1>1. PICK folders : folders = boxes.folders
  OBVIOUS
<1>2. PICK l, o, s, f : boxes = [list |-> l, order |-> o, seq |-> s, folders |-> f]
                        /\ f = [x \in Accounts |-> boxes.folders[x]]
  BY SideParts DEF BoxesOK
<1>3. f = folders /\ folders = [x \in Accounts |-> folders[x]]
  BY <1>1, <1>2
<1>4. PICK new : new = [folders EXCEPT ![a] = fs]
  OBVIOUS
<1>5. boxes' = [list |-> l, order |-> o, seq |-> s, folders |-> new]
  BY <1>1, <1>2, <1>3, <1>4 DEF SetFolders
<1>6. boxes'.folders = new
  BY <1>5
<1>7. \A x \in Accounts : PathList(folders[x])
  BY <1>1, FolderParts DEF ListsFit
<1>8. \A x \in Accounts : PathList(new[x])
  BY <1>3, <1>4, <1>7
<1> QED
  BY <1>6, <1>8 DEF ListsFit

LEMMA CachedKeepsFolders ==
  ASSUME SideInv, FoldersInv, NEW c \in sideCalls, CachedAnswer(c)
  PROVE  FoldersInv'
<1>0. c.acc \in Accounts /\ SideCallFits(c) /\ ListsFit /\ PopupFit /\ ServerFits /\ AllSideCallsFit
  BY SideParts, FolderParts DEF SideCallsOK, SideCallOK, AllSideCallsFit
<1>1. PICK fs \in (IF c.got # {} THEN c.got
                   ELSE IF DOMAIN boxes.folders[c.acc] # {} THEN {boxes.folders[c.acc]} ELSE {OnlyInbox}) :
        SetFolders(c.acc, fs)
  BY DEF CachedAnswer
<1>2. PathList(fs)
  BY <1>0, <1>1, OnlyInboxFits DEF SideCallFits, ListsFit
<1>3. ListsFit'
  BY <1>0, <1>1, <1>2, SetFoldersKeeps
<1>4. popup' = popup /\ boxServer' = boxServer
  BY DEF CachedAnswer
<1>5. PICK new : new = SideCall("live", c.acc)
  OBVIOUS
<1>6. sideCalls' \subseteq (sideCalls \ {c}) \cup {new}
  BY <1>5 DEF CachedAnswer
<1>7. SideCallFits(new)
  BY <1>5, NewCallFits DEF FolderOps
<1>8. PopupFit' /\ ServerFits' /\ AllSideCallsFit'
  BY <1>0, <1>4, <1>6, <1>7 DEF PopupFit, ServerFits, AllSideCallsFit
<1> QED
  BY <1>3, <1>8, FolderParts

LEMMA CountsKeepFolders ==
  ASSUME SideInv, FoldersInv, NEW c \in sideCalls, CountsAnswer(c)
  PROVE  FoldersInv'
<1>0. c.acc \in Accounts /\ SideCallFits(c) /\ ListsFit /\ PopupFit /\ ServerFits /\ AllSideCallsFit
  BY SideParts, FolderParts DEF SideCallsOK, SideCallOK, AllSideCallsFit
<1>1. popup' = popup /\ boxServer' = boxServer /\ sideCalls' = sideCalls \ {c}
  BY DEF CountsAnswer
<1>2. CASE \E fs \in c.got : SetFolders(c.acc, fs)
  <2>1. PICK fs \in c.got : SetFolders(c.acc, fs)
    BY <1>2
  <2>2. ListsFit'
    BY <1>0, <2>1, SetFoldersKeeps DEF SideCallFits
  <2>3. PopupFit' /\ ServerFits' /\ AllSideCallsFit'
    BY <1>0, <1>1 DEF PopupFit, ServerFits, AllSideCallsFit
  <2> QED
    BY <2>2, <2>3, FolderParts
<1>3. CASE boxes' = boxes
  BY <1>1, <1>3, FoldersStay
<1> QED
  BY <1>2, <1>3 DEF CountsAnswer

LEMMA AccountsKeepFolders ==
  ASSUME SideInv, FoldersInv, NEW c \in sideCalls, AccountsAnswer(c)
  PROVE  FoldersInv'
<1>0. BoxesOK /\ SideCallsOK /\ AllSideCallsFit
  BY SideParts, FolderParts
<1>1. /\ boxes' = [boxes EXCEPT !.list = Accounts, !.seq[FirstAccount] = @ + 1]
      /\ popup' = popup /\ boxServer' = boxServer
  BY DEF AccountsAnswer
<1>2. boxes'.folders = boxes.folders
  <2>1. boxes' = [list |-> Accounts, order |-> boxes.order,
                  seq |-> [boxes.seq EXCEPT ![FirstAccount] = @ + 1], folders |-> boxes.folders]
    BY <1>0, <1>1 DEF BoxesOK
  <2> QED
    BY <2>1
<1>3. PICK rest, new, asks : /\ rest = sideCalls \ {c} /\ new = SideCall("quota", FirstAccount)
                             /\ asks = {LoadFolders(a, a = FirstAccount) : a \in Accounts}
  OBVIOUS
<1>4. sideCalls' = CountCalls(FirstAccount, FALSE, rest) \cup {new} \cup asks
  BY <1>3 DEF AccountsAnswer
<1>5. SideCallFits(new)
  BY <1>3, NewCallFits DEF FolderOps
<1>6. ASSUME NEW d \in asks PROVE SideCallFits(d)
  <2>0. PICK a \in Accounts : d = [SideCall("cached", a) EXCEPT !.arg = (a = FirstAccount)]
    BY <1>3, <1>6 DEF LoadFolders
  <2>1. PICK own : own = (a = FirstAccount) /\ d = [SideCall("cached", a) EXCEPT !.arg = own]
    BY <2>0
  <2> QED
    BY <2>1, LoadingFits
<1>7. ASSUME NEW d \in CountCalls(FirstAccount, FALSE, rest) PROVE SideCallFits(d)
  <2>1. \A e \in rest : SideCallOK(e) /\ SideCallFits(e)
    BY <1>0, <1>3 DEF SideCallsOK, AllSideCallsFit
  <2> QED
    BY <2>1, CountCallsGot, SidebarAssumption
<1> QED
  BY <1>1, <1>2, <1>4, <1>5, <1>6, <1>7, FoldersStay

\* The rules were applied, or could not be: the counts are asked for.
LEMMA RecountKeepsFolders ==
  ASSUME SideInv, FoldersInv, NEW c \in sideCalls, Counting(c.acc), popup' = popup,
         boxServer' = boxServer, sideCalls' = CountCalls(c.acc, TRUE, sideCalls \ {c})
  PROVE  FoldersInv'
<1>0. BoxesOK /\ SideCallsOK /\ AllSideCallsFit /\ c.acc \in Accounts
  BY SideParts, FolderParts DEF SideCallsOK, SideCallOK
<1>1. boxes'.folders = boxes.folders
  BY <1>0, CountingFits
<1>2. PICK rest : rest = sideCalls \ {c}
  OBVIOUS
<1>3. \A e \in rest : SideCallOK(e) /\ SideCallFits(e)
  BY <1>0, <1>2 DEF SideCallsOK, AllSideCallsFit
<1>4. \A d \in sideCalls' : SideCallFits(d)
  BY <1>0, <1>2, <1>3, CountCallsGot
<1> QED
  BY <1>1, <1>4, FoldersStay

LEMMA AnswersKeepFolders ==
  ASSUME SideInv, FoldersInv, NEW c \in sideCalls,
         OrderAnswer(c) \/ QuotaAnswer(c) \/ UnifiedAnswer(c) \/ FolderAnswer(c)
  PROVE  FoldersInv'
<1>1. CASE OrderAnswer(c)
  <2>1. PICK o : boxes' = [boxes EXCEPT !.order = o]
    BY <1>1 DEF OrderAnswer
  <2>2. PICK l, p, s, f : boxes = [list |-> l, order |-> p, seq |-> s, folders |-> f]
    BY SideParts DEF BoxesOK
  <2>3. boxes'.folders = boxes.folders
    BY <2>1, <2>2
  <2> QED
    BY <1>1, <2>3, FoldersStay DEF OrderAnswer
<1>2. CASE QuotaAnswer(c)
  BY <1>2, FoldersStay DEF QuotaAnswer
<1>3. CASE UnifiedAnswer(c)
  BY <1>3, FoldersStay DEF UnifiedAnswer, Unify
<1>4. CASE FolderAnswer(c)
  <2>1. PICK new : new = [SideCall("cached", c.acc) EXCEPT !.arg = TRUE]
    OBVIOUS
  <2>2. sideCalls' = (sideCalls \ {c}) \cup {new}
    BY <1>4, <2>1 DEF FolderAnswer, LoadFolders
  <2>3. SideCallFits(new)
    BY <2>1, LoadingFits
  <2>4. boxes' = boxes /\ popup' = popup /\ boxServer' = boxServer
    BY <1>4 DEF FolderAnswer
  <2> QED
    BY <2>2, <2>3, <2>4, FoldersStay
<1> QED
  BY <1>1, <1>2, <1>3, <1>4

LEMMA FoldersStep ==
  ASSUME SideInv, FoldersInv, SideNext \/ UNCHANGED sideVars
  PROVE  FoldersInv'
<1>1. CASE UNCHANGED sideVars
  BY <1>1, FoldersStay DEF sideVars
<1>2. CASE SideUser
  <2>1. ASSUME NEW a \in Accounts,
               \/ ToggleAccount(a) \/ ToggleReveal(a)
               \/ \E p : ToggleExpand(a, p) \/ UnhideFolder(a, p)
        PROVE  FoldersInv'
    BY <2>1, ScreenKeepsFolders DEF ToggleAccount, ToggleReveal, ToggleExpand, UnhideFolder
  <2>2. ASSUME NEW a \in Accounts, RefreshAccount(a) PROVE FoldersInv'
    <3>1. "apply" \notin FolderOps
      BY DEF FolderOps
    <3> QED
      BY <2>2, <3>1, AskingKeepsFolders DEF RefreshAccount
  <2>3. ASSUME NEW a \in Accounts, NEW p, SelectBox([acc |-> a, path |-> p], sideCalls), popup' = popup,
               boxServer' = boxServer
        PROVE  FoldersInv'
    <3>1. PICK s : s = [acc |-> a, path |-> p]
      OBVIOUS
    <3> QED
      BY <2>3, <3>1, SelectGot
  <2>4. ASSUME NEW a \in Accounts, OpenUnifiedRow(a) \/ \E p : ClickBox(a, p) PROVE FoldersInv'
    BY <2>3, <2>4 DEF OpenUnifiedRow, ClickBox
  <2> QED
    BY <1>2, <2>1, <2>2, <2>4, ScreenKeepsFolders, UnifiedKeepsFolders, DialogsKeepFolders DEF SideUser
<1>3. CASE \E c \in sideCalls : SideFails(c)
  <2>1. PICK c \in sideCalls : SideFails(c)
    BY <1>3
  <2>2. CASE c.op = "apply"
    BY <2>1, <2>2, RecountKeepsFolders DEF SideFails
  <2>3. CASE c.op # "apply"
    BY <2>1, <2>3, FoldersStay DEF SideFails
  <2> QED
    BY <2>2, <2>3
<1>4. CASE SideInPopup \/ OpenWanted
  BY <1>4, ScreenKeepsFolders, ConfirmKeepsFolders, DialogsKeepFolders DEF SideInPopup
<1>5. ASSUME NEW c \in sideCalls, AppliedAnswer(c) PROVE FoldersInv'
  BY <1>5, RecountKeepsFolders DEF AppliedAnswer
<1>6. ASSUME NEW c \in sideCalls,
             \/ BoxServerDoes(c) \/ AccountsAnswer(c) \/ CachedAnswer(c) \/ CountsAnswer(c)
             \/ OrderAnswer(c) \/ QuotaAnswer(c) \/ UnifiedAnswer(c) \/ FolderAnswer(c)
      PROVE  FoldersInv'
  BY <1>6, BoxServerKeepsFolders, AccountsKeepFolders, CachedKeepsFolders, CountsKeepFolders,
     AnswersKeepFolders
<1> QED
  BY <1>1, <1>2, <1>3, <1>4, <1>5, <1>6 DEF SideNext, ByUser, ByFault, ByItself

LEMMA FoldersGive ==
  ASSUME FoldersInv
  PROVE  TreesKeepMail
  BY FolderParts, NoFolderLost DEF ListsFit, PathList, TreesKeepMail
=============================================================================
