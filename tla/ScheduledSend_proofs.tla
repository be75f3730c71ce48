------------------------ MODULE ScheduledSend_proofs ------------------------
(* What ScheduledSend guarantees for every set of mails and accounts, every *)
(* number of keys, every batch limit and any number of crashes.             *)
EXTENDS ScheduledSend, TLAPS

USE DEF Row, StatusAt, Working, table, scheduler, history

\* An empty table and an idle scheduler are well typed.
LEMMA TypeInit == Init => TypeOK
<1> SUFFICES ASSUME Init PROVE TypeOK
  OBVIOUS
<1>1. /\ slot \in [Keys -> Mails \cup {None}]
      /\ status \in [Mails -> Statuses]
      /\ payload \in [Mails -> BOOLEAN]
      /\ acct \in [Accounts -> {"active", "inactive", "gone"}]
      /\ attempts \in [Mails -> Nat]
  BY DEF Init, Statuses
<1>2. /\ used \in SUBSET Keys /\ batch \in SUBSET Keys
      /\ due \in SUBSET Mails /\ taken \in SUBSET Mails
      /\ pc = "idle" /\ cur = 0 /\ held = None /\ attempted = FALSE /\ crashes = 0
  BY DEF Init
<1> QED
  BY <1>1, <1>2 DEF TypeOK, Points

\* No request, step of a pass, crash or restart leaves the types.
LEMMA TypeStep == TypeOK /\ [Next]_vars => TypeOK'
<1> USE MailsAssumption, BoundsAssumption
<1> SUFFICES ASSUME TypeOK, [Next]_vars PROVE TypeOK'
  OBVIOUS
<1>1. ASSUME NEW m \in Mails, NEW k \in Keys, Schedule(m, k) PROVE TypeOK'
  BY <1>1 DEF TypeOK, Statuses, Terminal, Schedule
<1>2. ASSUME NEW m \in Mails, BecomeDue(m) PROVE TypeOK'
  BY <1>2 DEF TypeOK, BecomeDue
<1>3. ASSUME NEW k \in Keys, Cancel(k) PROVE TypeOK'
  BY <1>3 DEF TypeOK, Statuses, Terminal, Cancel, Cancellable, Mine
<1>4. ASSUME NEW a \in Accounts, SetOwnerActive(a) PROVE TypeOK'
  BY <1>4 DEF TypeOK, SetOwnerActive
<1>5. ASSUME NEW a \in Accounts, DeleteAccount(a) PROVE TypeOK'
  BY <1>5 DEF TypeOK, Statuses, Terminal, DeleteAccount
<1>6. CASE Select
  BY <1>6 DEF TypeOK, Points, Select
<1>7. CASE EndBatch
  BY <1>7 DEF TypeOK, Points, EndBatch, Reset
<1>8. ASSUME NEW k \in Keys, Skip(k) PROVE TypeOK'
  BY <1>8 DEF TypeOK, Skip
<1>9. ASSUME NEW k \in Keys, Load(k) PROVE TypeOK'
  BY <1>9 DEF TypeOK, Points, Load, Sendable
<1>10. CASE Unreadable \/ ClaimRaises \/ Recheck \/ FinishRaises
  BY <1>10 DEF TypeOK, Points, Unreadable, ClaimRaises, Recheck, FinishRaises, Raise, Goto
<1>11. CASE Claim
  BY <1>11 DEF TypeOK, Points, Statuses, Terminal, Claim, Goto
<1>12. CASE ClaimLost \/ Publish
  BY <1>12 DEF TypeOK, Points, ClaimLost, Publish, NextRow, Raise, Goto
<1>13. CASE Transmit
  BY <1>13 DEF TypeOK, Points, Transmit, Goto
<1>14. CASE Finish
  BY <1>14 DEF TypeOK, Points, Statuses, Terminal, Finish, Goto
<1>15. CASE HandleFailure
  BY <1>15 DEF TypeOK, Points, Statuses, Terminal, HandleFailure, NextRow
<1>16. CASE PassRaises
  BY <1>16 DEF TypeOK, Points, PassRaises, Reset
<1>17. CASE Crash
  <2>1. crashes' \in Nat
    BY <1>17 DEF TypeOK, Crash
  <2>2. /\ pc' = "down" /\ batch' = {} /\ cur' = 0 /\ held' = None /\ attempted' = FALSE
        /\ UNCHANGED <<slot, status, payload, used, attempts, taken, due, acct>>
    BY <1>17 DEF Crash, Reset
  <2> QED
    BY <2>1, <2>2 DEF TypeOK, Points
<1>18. CASE Restart
  BY <1>18 DEF TypeOK, Points, Statuses, Terminal, Restart, Reset, Interrupted, Recovered
<1>19. CASE UNCHANGED vars
  BY <1>19 DEF TypeOK, vars
<1> QED
  BY <1>1, <1>2, <1>3, <1>4, <1>5, <1>6, <1>7, <1>8, <1>9, <1>10, <1>11, <1>12,
     <1>13, <1>14, <1>15, <1>16, <1>17, <1>18, <1>19 DEF Next, Request, Pass

\* Every reachable state of the table and of the scheduler is well typed.
THEOREM TypeCorrect == Spec => []TypeOK
  BY TypeInit, TypeStep, PTL DEF Spec

-----------------------------------------------------------------------------
(* At most once: the argument needs nothing of the keys.                    *)

\* Before anything is parked nothing was tried.
LEMMA NoRetryInit == Init => NoRetry
  BY DEF Init, NoRetry

\* No step of the claim protocol makes a tried mail pending again, or lets the
\* scheduler hold one that was tried.
LEMMA NoRetryStep == TypeOK /\ NoRetry /\ [Next]_vars => NoRetry'
<1> SUFFICES ASSUME TypeOK, NoRetry, [Next]_vars PROVE NoRetry'
  OBVIOUS
<1> USE MailsAssumption
<1>1. ASSUME NEW m \in Mails, NEW k \in Keys, Schedule(m, k) PROVE NoRetry'
  <2>1. slot[k] = None
    BY <1>1 DEF Schedule, NextKey, TypeOK, Keys
  <2> QED
    BY <1>1, <2>1 DEF TypeOK, NoRetry, Schedule
<1>2. ASSUME NEW m \in Mails, BecomeDue(m) PROVE NoRetry'
  BY <1>2 DEF NoRetry, BecomeDue
<1>3. ASSUME NEW k \in Keys, Cancel(k) PROVE NoRetry'
  BY <1>3 DEF TypeOK, NoRetry, Cancel, Cancellable, Mine, Terminal
<1>4. ASSUME NEW a \in Accounts, SetOwnerActive(a) PROVE NoRetry'
  BY <1>4 DEF NoRetry, SetOwnerActive
<1>5. ASSUME NEW a \in Accounts, DeleteAccount(a) PROVE NoRetry'
  BY <1>5 DEF TypeOK, NoRetry, DeleteAccount, Terminal
<1>6. CASE Select
  BY <1>6 DEF NoRetry, Select
<1>7. CASE EndBatch
  BY <1>7 DEF NoRetry, EndBatch, Reset
<1>8. ASSUME NEW k \in Keys, Skip(k) PROVE NoRetry'
  BY <1>8 DEF NoRetry, Skip
<1>9. ASSUME NEW k \in Keys, Load(k) PROVE NoRetry'
  BY <1>9 DEF TypeOK, NoRetry, Load, Sendable
<1>10. CASE Unreadable \/ ClaimRaises \/ Recheck \/ FinishRaises
  BY <1>10 DEF NoRetry, Unreadable, ClaimRaises, Recheck, FinishRaises, Raise, Goto
<1>11. CASE Claim
  BY <1>11 DEF TypeOK, NoRetry, Claim, Goto
<1>12. CASE ClaimLost \/ Publish
  BY <1>12 DEF NoRetry, ClaimLost, Publish, NextRow, Raise, Goto
<1>13. CASE Transmit
  BY <1>13 DEF TypeOK, NoRetry, Transmit, Goto
<1>14. CASE Finish
  BY <1>14 DEF TypeOK, NoRetry, Finish, Goto
<1>15. CASE HandleFailure
  BY <1>15 DEF TypeOK, NoRetry, HandleFailure, NextRow
<1>16. CASE PassRaises
  BY <1>16 DEF NoRetry, PassRaises, Reset
<1>17. CASE Crash
  BY <1>17 DEF NoRetry, Crash, Reset
<1>18. CASE Restart
  BY <1>18 DEF TypeOK, NoRetry, Restart, Reset, Interrupted, Recovered
<1>19. CASE UNCHANGED vars
  BY <1>19 DEF NoRetry, vars
<1> QED
  BY <1>1, <1>2, <1>3, <1>4, <1>5, <1>6, <1>7, <1>8, <1>9, <1>10, <1>11, <1>12,
     <1>13, <1>14, <1>15, <1>16, <1>17, <1>18, <1>19 DEF Next, Request, Pass

\* A mail that was tried was tried once, and that is all AtMostOnce asks.
LEMMA NoRetryImplies == TypeOK /\ NoRetry => AtMostOnce
  BY DEF TypeOK, NoRetry, AtMostOnce

\* No scheduled mail enters SMTP twice, whatever crashes, failing commits,
\* cancels, account removals and reuses of keys do in between.
THEOREM SentAtMostOnce == Spec => []AtMostOnce
<1>1. Spec => [](TypeOK /\ NoRetry)
  BY TypeInit, TypeStep, NoRetryInit, NoRetryStep, PTL DEF Spec
<1> QED
  BY <1>1, NoRetryImplies, PTL

-----------------------------------------------------------------------------
(* No body survives the outcome. *)

\* Every UPDATE that sets an outcome also clears the stored body.
LEMMA BodyStep == TypeOK /\ BodyCleared /\ [Next]_vars => BodyCleared'
<1> SUFFICES ASSUME TypeOK, BodyCleared, [Next]_vars PROVE BodyCleared'
  OBVIOUS
<1> USE DEF TypeOK, BodyCleared, Terminal
<1>1. ASSUME NEW m \in Mails, NEW k \in Keys, Schedule(m, k) PROVE BodyCleared'
  BY <1>1 DEF Schedule
<1>2. ASSUME NEW m \in Mails, BecomeDue(m) PROVE BodyCleared'
  BY <1>2 DEF BecomeDue
<1>3. ASSUME NEW k \in Keys, Cancel(k) PROVE BodyCleared'
  BY <1>3 DEF Cancel, Cancellable, Mine
<1>4. ASSUME NEW a \in Accounts, SetOwnerActive(a) PROVE BodyCleared'
  BY <1>4 DEF SetOwnerActive
<1>5. ASSUME NEW a \in Accounts, DeleteAccount(a) PROVE BodyCleared'
  BY <1>5 DEF DeleteAccount
<1>6. CASE Select \/ EndBatch \/ PassRaises \/ Crash
  BY <1>6 DEF Select, EndBatch, PassRaises, Crash, Reset
<1>7. ASSUME NEW k \in Keys, Skip(k) \/ Load(k) PROVE BodyCleared'
  BY <1>7 DEF Skip, Load
<1>8. CASE Unreadable \/ ClaimRaises \/ ClaimLost \/ Recheck \/ FinishRaises \/ Publish
  BY <1>8 DEF Unreadable, ClaimRaises, ClaimLost, Recheck, FinishRaises, Publish
<1>9. CASE Claim
  BY <1>9 DEF Claim
<1>10. CASE Transmit
  BY <1>10 DEF Transmit
<1>11. CASE Finish
  BY <1>11 DEF Finish
<1>12. CASE HandleFailure
  BY <1>12 DEF HandleFailure
<1>13. CASE Restart
  BY <1>13 DEF Restart, Interrupted, Recovered
<1>14. CASE UNCHANGED vars
  BY <1>14 DEF vars
<1> QED
  BY <1>1, <1>2, <1>3, <1>4, <1>5, <1>6, <1>7, <1>8, <1>9, <1>10, <1>11, <1>12,
     <1>13, <1>14 DEF Next, Request, Pass

\* The encrypted body of a mail is gone as soon as its row says sent, failed or
\* uncertain, on every path there: success, handler, recovery at start.
THEOREM BodyAlwaysCleared == Spec => []BodyCleared
<1>1. Init => BodyCleared
  BY DEF Init, BodyCleared, Terminal
<1> QED
  BY <1>1, TypeInit, TypeStep, BodyStep, PTL DEF Spec

-----------------------------------------------------------------------------
(* When no key is given twice. *)

\* An empty table has no key with two meanings.
LEMMA KeyMeansMailInit == Init => KeyMeansMail
  BY DEF Init, KeyMeansMail, Terminal

\* Without reuse of keys, the row under a key the scheduler remembers is the
\* mail it had in mind, or is gone.
LEMMA KeyMeansMailStep ==
  ~ KeyReuse /\ TypeOK /\ KeyMeansMail /\ [Next]_vars => KeyMeansMail'
<1> SUFFICES ASSUME ~ KeyReuse, TypeOK, KeyMeansMail, [Next]_vars PROVE KeyMeansMail'
  OBVIOUS
<1> USE MailsAssumption DEF Terminal
<1>1. ASSUME NEW m \in Mails, NEW k \in Keys, Schedule(m, k) PROVE KeyMeansMail'
  <2>1. slot[k] = None /\ k \notin used /\ k \notin batch /\ (Working => cur # k)
    BY <1>1 DEF Schedule, NextKey, TypeOK, Keys, KeyMeansMail
  <2>2. \A j \in Keys : slot[j] # m
    BY <1>1 DEF Schedule, TypeOK, KeyMeansMail
  <2> QED
    BY <1>1, <2>1, <2>2 DEF TypeOK, KeyMeansMail, Schedule
<1>2. ASSUME NEW m \in Mails, BecomeDue(m) PROVE KeyMeansMail'
  BY <1>2 DEF KeyMeansMail, BecomeDue
<1>3. ASSUME NEW k \in Keys, Cancel(k) PROVE KeyMeansMail'
  BY <1>3 DEF TypeOK, KeyMeansMail, Cancel, Cancellable, Mine
<1>4. ASSUME NEW a \in Accounts, SetOwnerActive(a) PROVE KeyMeansMail'
  BY <1>4 DEF KeyMeansMail, SetOwnerActive
<1>5. ASSUME NEW a \in Accounts, DeleteAccount(a) PROVE KeyMeansMail'
  BY <1>5 DEF TypeOK, KeyMeansMail, DeleteAccount
<1>6. CASE Select
  BY <1>6 DEF TypeOK, KeyMeansMail, Select, Due
<1>7. CASE EndBatch
  BY <1>7 DEF KeyMeansMail, EndBatch, Reset
<1>8. ASSUME NEW k \in Keys, Skip(k) PROVE KeyMeansMail'
  BY <1>8 DEF KeyMeansMail, Skip
<1>9. ASSUME NEW k \in Keys, Load(k) PROVE KeyMeansMail'
  BY <1>9 DEF TypeOK, KeyMeansMail, Load, Sendable
<1>10. CASE Unreadable \/ ClaimRaises \/ Recheck \/ FinishRaises
  BY <1>10 DEF KeyMeansMail, Unreadable, ClaimRaises, Recheck, FinishRaises, Raise, Goto
<1>11. CASE Claim
  BY <1>11 DEF TypeOK, KeyMeansMail, Claim, Goto
<1>12. CASE ClaimLost \/ Publish
  BY <1>12 DEF KeyMeansMail, ClaimLost, Publish, NextRow, Raise, Goto
<1>13. CASE Transmit
  BY <1>13 DEF TypeOK, KeyMeansMail, Transmit, Goto
<1>14. CASE Finish
  BY <1>14 DEF TypeOK, KeyMeansMail, Finish, Goto
<1>15. CASE HandleFailure
  BY <1>15 DEF TypeOK, KeyMeansMail, HandleFailure, NextRow
<1>16. CASE PassRaises
  BY <1>16 DEF KeyMeansMail, PassRaises, Reset
<1>17. CASE Crash
  BY <1>17 DEF KeyMeansMail, Crash, Reset
<1>18. CASE Restart
  BY <1>18 DEF TypeOK, KeyMeansMail, Restart, Reset, Interrupted, Recovered
<1>19. CASE UNCHANGED vars
  BY <1>19 DEF KeyMeansMail, vars
<1> QED
  BY <1>1, <1>2, <1>3, <1>4, <1>5, <1>6, <1>7, <1>8, <1>9, <1>10, <1>11, <1>12,
     <1>13, <1>14, <1>15, <1>16, <1>17, <1>18, <1>19 DEF Next, Request, Pass

\* The three invariants hold together in every execution without reuse.
LEMMA FreshKeys ==
  ASSUME ~ KeyReuse PROVE Spec => [](TypeOK /\ NoRetry /\ KeyMeansMail)
<1>1. TypeOK /\ KeyMeansMail /\ [Next]_vars => KeyMeansMail'
  BY KeyMeansMailStep
<1> QED
  BY <1>1, TypeInit, TypeStep, NoRetryInit, NoRetryStep, KeyMeansMailInit, PTL DEF Spec

\* What users see of cancel, send_at and status follows from them.
LEMMA KeyMeansMailImplies ==
  TypeOK /\ KeyMeansMail => CancelledNeverSent /\ NoEarlySend /\ OwnOutcome
<1> SUFFICES ASSUME TypeOK, KeyMeansMail
             PROVE  CancelledNeverSent /\ NoEarlySend /\ OwnOutcome
  OBVIOUS
<1>1. \A m \in Mails : attempts[m] = 0 \/ attempts[m] > 0
  BY DEF TypeOK
<1>2. CancelledNeverSent
  BY <1>1 DEF KeyMeansMail, CancelledNeverSent, Terminal
<1>3. NoEarlySend
  BY DEF KeyMeansMail, NoEarlySend
<1>4. OwnOutcome
  BY DEF KeyMeansMail, OwnOutcome
<1> QED
  BY <1>2, <1>3, <1>4

\* As long as no key returns, an acknowledged cancel is never overtaken by the
\* scheduler, nothing leaves early and no mail gets another one's outcome.
THEOREM FreshKeysSuffice ==
  ASSUME ~ KeyReuse
  PROVE  Spec => [](CancelledNeverSent /\ NoEarlySend /\ OwnOutcome)
  BY FreshKeys, KeyMeansMailImplies, PTL

\* What the status may claim: the thread records success only after SMTP was
\* entered, and blames nothing on SMTP unless its flag says it may have been.
Truthful ==
  /\ StatusTruth
  /\ pc \in {"accepted", "recorded"} => attempts[held] > 0
  /\ pc = "smtp" => attempted
  /\ pc = "failing" /\ attempts[held] > 0 => attempted

\* In the beginning no mail has an outcome.
LEMMA TruthfulInit == Init => Truthful
  BY DEF Init, Truthful, StatusTruth

\* The row written by an outcome is that of the mail held, so the flag of the
\* thread is about the mail whose status it decides.
LEMMA TruthfulStep ==
  TypeOK /\ NoRetry /\ KeyMeansMail /\ Truthful /\ [Next]_vars => Truthful'
<1> SUFFICES ASSUME TypeOK, NoRetry, KeyMeansMail, Truthful, [Next]_vars PROVE Truthful'
  OBVIOUS
<1> USE MailsAssumption DEF Truthful, StatusTruth
<1>1. ASSUME NEW m \in Mails, NEW k \in Keys, Schedule(m, k) PROVE Truthful'
  BY <1>1 DEF TypeOK, Schedule
<1>2. ASSUME NEW m \in Mails, BecomeDue(m) PROVE Truthful'
  BY <1>2 DEF BecomeDue
<1>3. ASSUME NEW k \in Keys, Cancel(k) PROVE Truthful'
  BY <1>3 DEF TypeOK, Cancel, Cancellable, Mine
<1>4. ASSUME NEW a \in Accounts, SetOwnerActive(a) PROVE Truthful'
  BY <1>4 DEF SetOwnerActive
<1>5. ASSUME NEW a \in Accounts, DeleteAccount(a) PROVE Truthful'
  BY <1>5 DEF TypeOK, DeleteAccount
<1>6. CASE Select \/ EndBatch \/ PassRaises \/ Crash
  BY <1>6 DEF Select, EndBatch, PassRaises, Crash, Reset
<1>7. ASSUME NEW k \in Keys, Skip(k) \/ Load(k) PROVE Truthful'
  BY <1>7 DEF Skip, Load
<1>8. CASE Unreadable \/ ClaimRaises \/ Recheck \/ FinishRaises
  BY <1>8 DEF TypeOK, NoRetry, Unreadable, ClaimRaises, Recheck, FinishRaises, Raise, Goto
<1>9. CASE Claim
  BY <1>9 DEF TypeOK, Claim, Goto
<1>10. CASE ClaimLost \/ Publish
  BY <1>10 DEF ClaimLost, Publish, NextRow, Raise, Goto
<1>11. CASE Transmit
  <2>1. held \in Mails /\ status[held] \in {"sending", "erased"} /\ attempts[held] \in Nat
    BY <1>11 DEF Transmit, TypeOK, KeyMeansMail
  <2> QED
    BY <1>11, <2>1 DEF TypeOK, Transmit, Goto
<1>12. CASE Finish
  BY <1>12 DEF TypeOK, KeyMeansMail, Finish, Goto
<1>13. CASE HandleFailure
  <2>1. held \in Mails /\ attempts[held] \in Nat /\ (Row(cur) => slot[cur] = held)
    BY <1>13 DEF HandleFailure, TypeOK, KeyMeansMail
  <2> QED
    BY <1>13, <2>1 DEF TypeOK, HandleFailure, NextRow
<1>14. CASE Restart
  BY <1>14 DEF TypeOK, Restart, Reset, Interrupted, Recovered
<1>15. CASE UNCHANGED vars
  BY <1>15 DEF vars
<1> QED
  BY <1>1, <1>2, <1>3, <1>4, <1>5, <1>6, <1>7, <1>8, <1>9, <1>10, <1>11, <1>12,
     <1>13, <1>14, <1>15 DEF Next, Request, Pass

\* As long as no key returns, "sent" is written only for a mail that entered
\* SMTP and "failed" only for one that never did, whatever fails or stops between
\* the claim and the record; and the outcome is that of the mail taken up.
THEOREM OutcomesTrue ==
  ASSUME ~ KeyReuse
  PROVE  Spec => []OutcomesFit
<1>1. Truthful => StatusTruth
  BY DEF Truthful
<1> QED
  BY <1>1, FreshKeys, KeyMeansMailImplies, TruthfulInit, TruthfulStep, PTL
  DEF Spec, OutcomesFit

\* No request made yet: the abstract promise starts there too.
LEMMA FateInit == Init => Promise!Init
  BY DEF Init, Promise!Init, Fate

\* Every step of the scheduler and of a user is a step of SendOnce or none.
LEMMA FateStep ==
  TypeOK /\ NoRetry /\ KeyMeansMail /\ TypeOK' /\ [Next]_vars
    => [Promise!Next]_(Promise!promise)
<1> SUFFICES ASSUME TypeOK, NoRetry, KeyMeansMail, TypeOK', [Next]_vars
             PROVE  [Promise!Next]_(Promise!promise)
  OBVIOUS
<1> USE MailsAssumption
<1>1. ASSUME NEW m \in Mails, NEW k \in Keys, Schedule(m, k) PROVE Promise!Park(m)
  BY <1>1 DEF TypeOK, Schedule, Promise!Park, Fate
<1>2. ASSUME NEW k \in Keys, Cancel(k), StatusAt(k) \notin Terminal
      PROVE  Promise!Withdraw(slot[k])
  <2>1. slot[k] \in Mails /\ status[slot[k]] = "pending"
    BY <1>2 DEF TypeOK, KeyMeansMail, Cancel, Cancellable, Mine, Statuses, Terminal
  <2>2. attempts[slot[k]] = 0
    BY <2>1 DEF TypeOK, NoRetry
  <2>3. status' = [status EXCEPT ![slot[k]] = "cancelled"] /\ UNCHANGED attempts
    BY <1>2, <2>1 DEF Cancel, Terminal
  <2> QED
    BY <2>1, <2>2, <2>3 DEF TypeOK, Promise!Withdraw, Fate
<1>3. CASE Transmit
  <2>1. held \in Mails /\ attempts[held] = 0 /\ status[held] \in {"sending", "erased"}
    BY <1>3 DEF TypeOK, NoRetry, KeyMeansMail, Transmit
  <2>2. attempts' = [attempts EXCEPT ![held] = 1] /\ UNCHANGED status
    BY <1>3, <2>1 DEF TypeOK, Transmit
  <2>3. Promise!Try(held)
    BY <2>1, <2>2 DEF TypeOK, Promise!Try, Fate
  <2> QED
    BY <2>1, <2>3 DEF Promise!Next
<1>4. ASSUME UNCHANGED attempts, \A m \in Mails : Fate(m)' = Fate(m)
      PROVE  UNCHANGED Promise!promise
  BY <1>4 DEF Promise!promise
<1>5. ASSUME UNCHANGED <<status, attempts>> PROVE UNCHANGED Promise!promise
  BY <1>5 DEF Promise!promise, Fate
<1>6. ASSUME NEW k \in Keys, Cancel(k), StatusAt(k) \in Terminal
      PROVE  UNCHANGED Promise!promise
  <2>1. UNCHANGED attempts /\ UNCHANGED status
    BY <1>6 DEF TypeOK, Cancel
  <2> QED
    BY <2>1, <1>5
<1>7. ASSUME NEW a \in Accounts, DeleteAccount(a) PROVE UNCHANGED Promise!promise
  <2>1. UNCHANGED attempts
    BY <1>7 DEF DeleteAccount
  <2>2. \A m \in Mails : status'[m] = status[m] \/
          (status[m] \notin {"new", "cancelled"} /\ status'[m] = "erased")
    BY <1>7 DEF TypeOK, KeyMeansMail, DeleteAccount
  <2> QED
    BY <1>4, <2>1, <2>2 DEF Fate
<1>8. CASE Claim \/ Finish \/ HandleFailure
  <2>1. UNCHANGED attempts
    BY <1>8 DEF Claim, Finish, HandleFailure
  <2>2. \A m \in Mails : status'[m] = status[m] \/
          (status[m] \notin {"new", "cancelled"} /\ status'[m] \notin {"new", "cancelled"})
    BY <1>8 DEF TypeOK, KeyMeansMail, Claim, Finish, HandleFailure
  <2> QED
    BY <1>4, <2>1, <2>2 DEF Fate
<1>9. CASE Restart
  <2>1. UNCHANGED attempts
    BY <1>9 DEF Restart
  <2>2. \A m \in Mails : status'[m] = status[m] \/
          (status[m] = "sending" /\ status'[m] = "uncertain")
    BY <1>9 DEF TypeOK, Restart, Interrupted, Recovered
  <2> QED
    BY <1>4, <2>1, <2>2 DEF Fate
<1>10. CASE (\E m \in Mails : BecomeDue(m)) \/ (\E a \in Accounts : SetOwnerActive(a))
            \/ (\E k \in Keys : Skip(k) \/ Load(k)) \/ Select \/ EndBatch \/ PassRaises
            \/ Crash \/ UNCHANGED vars
  BY <1>5, <1>10 DEF BecomeDue, SetOwnerActive, Skip, Load, Select, EndBatch,
                     PassRaises, Crash, vars
<1>11. CASE Unreadable \/ ClaimRaises \/ ClaimLost \/ Recheck \/ FinishRaises \/ Publish
  BY <1>5, <1>11 DEF Unreadable, ClaimRaises, ClaimLost, Recheck, FinishRaises, Publish
<1>12. ASSUME NEW k \in Keys, Cancel(k) PROVE [Promise!Next]_(Promise!promise)
  <2>1. slot[k] \in Mails
    BY <1>12 DEF TypeOK, Cancel, Cancellable, Mine
  <2> QED
    BY <2>1, <1>2, <1>6, <1>12 DEF Promise!Next
<1>13. ASSUME NEW m \in Mails, NEW k \in Keys, Schedule(m, k) PROVE Promise!Next
  BY <1>1, <1>13 DEF Promise!Next
<1> QED
  BY <1>3, <1>7, <1>8, <1>9, <1>10, <1>11, <1>12, <1>13 DEF Next, Request, Pass

\* Rows, claims, crashes and the recovery at start together keep the promise of
\* SendOnce, as long as no key returns.
THEOREM KeepsPromise == ASSUME ~ KeyReuse PROVE Spec => SendsOnce
<1>1. Spec => Promise!Init
  BY FateInit DEF Spec
<1>2. Spec => [][Promise!Next]_(Promise!promise)
  BY FreshKeys, FateStep, PTL DEF Spec
<1> QED
  BY <1>1, <1>2, PTL DEF SendsOnce, Promise!Spec
=============================================================================
