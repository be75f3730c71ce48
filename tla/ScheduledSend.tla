--------------------------- MODULE ScheduledSend ---------------------------
(***************************************************************************)
(* Mails parked for later (models.ScheduledMail), the user's cancel, the   *)
(* removal of accounts, and the one scheduler thread that sends what is    *)
(* due: it claims a row with a committed UPDATE, enters SMTP, and records  *)
(* the outcome.  The process may stop between any two of these steps.      *)
(*                                                                         *)
(* A mail keeps its own status even after its row is gone, so that         *)
(* properties can speak of it: a row is a key k with slot[k] # None, and   *)
(* its columns are status[slot[k]] and payload[slot[k]].                   *)
(***************************************************************************)
EXTENDS Naturals, FiniteSets

CONSTANTS
  Mails,        \* the requests to send later
  Accounts,     \* the mail accounts they leave from
  AccountOf,    \* the account of each request
  None,         \* no mail: an unused key, a scheduler that has loaded nothing
  MaxKey,       \* bound: primary keys are 1 .. MaxKey
  Limit,        \* rows taken per pass (50 in the code)
  KeyReuse,     \* FALSE restricts to executions in which no key is given twice
  DbFaults,     \* TRUE: a commit may fail (database locked past its timeout)
  MaxCrashes    \* bound: stops of the process

ASSUME MailsAssumption == None \notin Mails /\ AccountOf \in [Mails -> Accounts]
ASSUME BoundsAssumption == /\ MaxKey \in Nat /\ MaxCrashes \in Nat
                           /\ Limit \in Nat \ {0}
                           /\ KeyReuse \in BOOLEAN /\ DbFaults \in BOOLEAN

VARIABLES
  slot,         \* the table: the mail stored under each key
  status,       \* its column; "new" before the request, "cancelled"/"erased" after
  payload,      \* whether the encrypted body is still stored
  used,         \* keys given so far
  due,          \* mails whose send_at has passed
  acct,         \* state of each account together with its owner
  pc,           \* where the scheduler thread stands in _send_due_scheduled
  batch,        \* keys selected in this pass and not yet handled
  cur,          \* the key it is at
  held,         \* the mail whose payload it has decrypted
  attempted,    \* its local of that name
  crashes,
  attempts,     \* how often SMTP was entered with this mail's payload
  taken         \* mails the scheduler found pending and loaded

table     == <<slot, status, payload, used>>
scheduler == <<pc, batch, cur, held, attempted>>
history   == <<attempts, taken>>
vars == <<slot, status, payload, used, due, acct, pc, batch, cur, held,
          attempted, crashes, attempts, taken>>

Keys == 1 .. MaxKey
Terminal == {"sent", "failed", "uncertain"}
Statuses == {"new", "pending", "sending", "cancelled", "erased"} \cup Terminal
Points == {"down", "idle", "batch", "loaded", "claimed", "smtp", "accepted",
           "recorded", "failing"}

Init ==
  /\ slot = [k \in Keys |-> None]
  /\ status = [m \in Mails |-> "new"]
  /\ payload = [m \in Mails |-> FALSE]
  /\ used = {} /\ due = {} /\ taken = {}
  /\ acct = [a \in Accounts |-> "active"]
  /\ pc = "idle" /\ batch = {} /\ cur = 0 /\ held = None /\ attempted = FALSE
  /\ crashes = 0
  /\ attempts = [m \in Mails |-> 0]

Row(k) == slot[k] # None
StatusAt(k) == status[slot[k]]

-----------------------------------------------------------------------------
(* Requests of users. *)

\* ScheduledMail.id is an INTEGER PRIMARY KEY without AUTOINCREMENT and is not
\* drawn from core/ids.py: SQLite gives one more than the largest key stored.
NextKey(k) ==
  /\ \A j \in Keys : Row(j) => j < k
  /\ k > 1 => Row(k - 1)
  /\ KeyReuse \/ k \notin used

Schedule(m, k) ==
  /\ pc # "down"
  /\ status[m] = "new"
  /\ acct[AccountOf[m]] = "active"
  /\ NextKey(k)
  /\ slot' = [slot EXCEPT ![k] = m]
  /\ status' = [status EXCEPT ![m] = "pending"]
  /\ payload' = [payload EXCEPT ![m] = TRUE]
  /\ used' = used \cup {k}
  /\ UNCHANGED <<scheduler, history, due, acct, crashes>>

BecomeDue(m) ==
  /\ status[m] # "new" /\ m \notin due
  /\ due' = due \cup {m}
  /\ UNCHANGED <<table, scheduler, history, acct, crashes>>

Mine(k) == Row(k) /\ acct[AccountOf[slot[k]]] = "active"
BadCancellable(k) == Mine(k)
Cancellable(k) == Mine(k) /\ StatusAt(k) # "sending"

\* A pending mail is cancelled; a finished one only leaves the list.
Cancel(k) ==
  /\ pc # "down"
  /\ Cancellable(k)
  /\ slot' = [slot EXCEPT ![k] = None]
  /\ status' = [status EXCEPT ![slot[k]] = IF @ \in Terminal THEN @ ELSE "cancelled"]
  /\ payload' = [payload EXCEPT ![slot[k]] = FALSE]
  /\ UNCHANGED <<scheduler, history, used, due, acct, crashes>>

SetOwnerActive(a) ==
  /\ pc # "down"
  /\ acct' = [acct EXCEPT ![a] = CASE @ = "active" -> "inactive"
                                   [] @ = "inactive" -> "active"
                                   [] OTHER -> "gone"]
  /\ acct[a] # "gone"
  /\ UNCHANGED <<table, scheduler, history, due, crashes>>

\* The account goes and takes its rows along, whatever their status.
DeleteAccount(a) ==
  LET rows == {k \in Keys : Row(k) /\ AccountOf[slot[k]] = a}
      mails == {slot[k] : k \in rows}
  IN /\ pc # "down"
     /\ acct[a] # "gone"
     /\ acct' = [acct EXCEPT ![a] = "gone"]
     /\ slot' = [k \in Keys |-> IF k \in rows THEN None ELSE slot[k]]
     /\ status' = [m \in Mails |-> IF m \in mails /\ status[m] \notin Terminal
                                   THEN "erased" ELSE status[m]]
     /\ payload' = [m \in Mails |-> payload[m] /\ m \notin mails]
     /\ UNCHANGED <<scheduler, history, used, due, crashes>>

-----------------------------------------------------------------------------
(* One pass of the scheduler. *)

Due(k) == Row(k) /\ StatusAt(k) = "pending" /\ slot[k] \in due

\* The SELECT has a LIMIT and no ORDER BY.
Select ==
  /\ pc = "idle"
  /\ \E ks \in SUBSET {k \in Keys : Due(k)} :
       /\ ks # {}
       /\ \/ Cardinality(ks) = Limit
          \/ Cardinality(ks) < Limit /\ \A k \in Keys : Due(k) => k \in ks
       /\ batch' = ks
  /\ pc' = "batch"
  /\ UNCHANGED <<table, history, due, acct, cur, held, attempted, crashes>>

Sendable(k) ==
  Row(k) /\ StatusAt(k) = "pending" /\ acct[AccountOf[slot[k]]] = "active"

Skip(k) ==
  /\ pc = "batch" /\ k \in batch
  /\ ~ Sendable(k)
  /\ batch' = batch \ {k}
  /\ UNCHANGED <<table, history, due, acct, pc, cur, held, attempted, crashes>>

Load(k) ==
  /\ pc = "batch" /\ k \in batch
  /\ Sendable(k)
  /\ pc' = "loaded" /\ cur' = k /\ held' = slot[k] /\ attempted' = FALSE
  /\ taken' = taken \cup {slot[k]}
  /\ UNCHANGED <<table, due, acct, batch, crashes, attempts>>

Goto(p) == pc' = p /\ UNCHANGED <<batch, cur, held>>

\* continue with the next key
NextRow ==
  /\ pc' = "batch" /\ batch' = batch \ {cur}
  /\ cur' = 0 /\ held' = None /\ attempted' = FALSE

\* an exception: on to the handler with the local it will read
Raise(flag) == Goto("failing") /\ attempted' = flag

\* decrypt or open_json raises
Unreadable ==
  /\ pc = "loaded"
  /\ Raise(FALSE)
  /\ UNCHANGED <<table, history, due, acct, crashes>>

\* UPDATE ... SET status = "sending" WHERE id = row_id AND status = "pending"
Claim ==
  /\ pc = "loaded"
  /\ Row(cur) /\ StatusAt(cur) = "pending"
  /\ status' = [status EXCEPT ![slot[cur]] = "sending"]
  /\ Goto("claimed")
  /\ UNCHANGED <<slot, payload, used, history, due, acct, attempted, crashes>>

ClaimRaises ==
  /\ pc = "loaded" /\ DbFaults
  /\ Raise(FALSE)
  /\ UNCHANGED <<table, history, due, acct, crashes>>

BadClaimLost ==
  /\ pc = "loaded"
  /\ ~ (Row(cur) /\ StatusAt(cur) = "pending")
  /\ Goto("smtp") /\ attempted' = TRUE
  /\ UNCHANGED <<table, history, due, acct, crashes>>

ClaimLost ==
  /\ pc = "loaded"
  /\ ~ (Row(cur) /\ StatusAt(cur) = "pending")
  /\ NextRow
  /\ UNCHANGED <<table, history, due, acct, crashes>>

\* The look after the claim sees the row stored NOW under the key.
OwnerStillThere == Row(cur) /\ acct[AccountOf[slot[cur]]] = "active"

\* "attempted = True" only after send_message came back
BadRecheck ==
  /\ pc = "claimed"
  /\ IF ~ OwnerStillThere THEN Raise(FALSE)
     ELSE Goto("smtp") /\ attempted' = FALSE
  /\ UNCHANGED <<table, history, due, acct, crashes>>

Recheck ==
  /\ pc = "claimed"
  /\ IF ~ OwnerStillThere THEN Raise(FALSE)
     ELSE IF acct[AccountOf[held]] = "gone" THEN Raise(TRUE)
     ELSE Goto("smtp") /\ attempted' = TRUE
  /\ UNCHANGED <<table, history, due, acct, crashes>>

\* SMTP takes the mail, refuses it, or leaves it open what happened.
Transmit ==
  /\ pc = "smtp"
  /\ attempts' = [attempts EXCEPT ![held] = @ + 1]
  /\ Goto("accepted") \/ Goto("failing")
  /\ UNCHANGED <<table, taken, due, acct, attempted, crashes>>

\* UPDATE ... SET status = "sent", payload_json = "" WHERE id = .. AND "sending"
Finish ==
  /\ pc = "accepted"
  /\ IF Row(cur) /\ StatusAt(cur) = "sending"
     THEN /\ status' = [status EXCEPT ![slot[cur]] = "sent"]
          /\ payload' = [payload EXCEPT ![slot[cur]] = FALSE]
     ELSE UNCHANGED <<status, payload>>
  /\ Goto("recorded")
  /\ UNCHANGED <<slot, used, history, due, acct, attempted, crashes>>

FinishRaises ==
  /\ pc = "accepted" /\ DbFaults
  /\ Raise(TRUE)
  /\ UNCHANGED <<table, history, due, acct, crashes>>

\* bus.publish reads row.user_id again: that raises when the row has gone
Publish ==
  /\ pc = "recorded"
  /\ IF Row(cur) THEN NextRow ELSE Raise(TRUE)
  /\ UNCHANGED <<table, history, due, acct, crashes>>

\* a handler that puts a mail back whose attempt never began
RetryingHandleFailure ==
  /\ pc = "failing"
  /\ IF Row(cur)
     THEN status' = [status EXCEPT ![slot[cur]] = IF attempted THEN "uncertain" ELSE "pending"]
     ELSE UNCHANGED status
  /\ NextRow
  /\ UNCHANGED <<slot, payload, used, history, due, acct, crashes>>

\* The handler's UPDATE has no condition but the key.
HandleFailure ==
  /\ pc = "failing"
  /\ IF Row(cur)
     THEN /\ status' = [status EXCEPT ![slot[cur]] = IF attempted THEN "uncertain" ELSE "failed"]
          /\ payload' = [payload EXCEPT ![slot[cur]] = FALSE]
     ELSE UNCHANGED <<status, payload>>
  /\ NextRow
  /\ UNCHANGED <<slot, used, history, due, acct, crashes>>

Reset(p) == pc' = p /\ batch' = {} /\ cur' = 0 /\ held' = None /\ attempted' = FALSE

\* The database fails outside the try or in the handler: the pass ends.
PassRaises ==
  /\ pc \in {"batch", "failing"} /\ DbFaults
  /\ Reset("idle")
  /\ UNCHANGED <<table, history, due, acct, crashes>>

EndBatch ==
  /\ pc = "batch" /\ batch = {}
  /\ Reset("idle")
  /\ UNCHANGED <<table, history, due, acct, crashes>>

-----------------------------------------------------------------------------
(* The process stops anywhere; main.lifespan recovers before it serves. *)

Crash ==
  /\ pc # "down" /\ crashes < MaxCrashes
  /\ crashes' = crashes + 1
  /\ Reset("down")
  /\ UNCHANGED <<table, history, due, acct>>

Interrupted(m) == status[m] = "sending"

Recovered == "uncertain"

Restart ==
  /\ pc = "down"
  /\ Reset("idle")
  /\ status' = [m \in Mails |-> IF Interrupted(m) THEN Recovered ELSE status[m]]
  /\ payload' = [m \in Mails |-> payload[m] /\ ~ Interrupted(m)]
  /\ UNCHANGED <<slot, used, history, due, acct, crashes>>

-----------------------------------------------------------------------------
Request ==
  \/ \E m \in Mails, k \in Keys : Schedule(m, k)
  \/ \E m \in Mails : BecomeDue(m)
  \/ \E k \in Keys : Cancel(k)
  \/ \E a \in Accounts : SetOwnerActive(a) \/ DeleteAccount(a)

Pass ==
  \/ Select \/ EndBatch
  \/ \E k \in Keys : Skip(k) \/ Load(k)
  \/ Unreadable \/ Claim \/ ClaimRaises \/ ClaimLost \/ Recheck \/ Transmit
  \/ Finish \/ FinishRaises \/ Publish \/ HandleFailure \/ PassRaises

Next == Request \/ Pass \/ Crash \/ Restart

Spec == Init /\ [][Next]_vars

\* The scheduler thread keeps running, a stopped container is restarted, the unordered
\* LIMIT does not pass over a row for ever, and the database does not fail every time.
FairSpec ==
    /\ Spec /\ WF_vars(Pass) /\ WF_vars(Restart)
    /\ SF_vars(HandleFailure) /\ \A k \in Keys : SF_vars(Load(k))

-----------------------------------------------------------------------------
(* Properties. *)

Working == pc \in {"loaded", "claimed", "smtp", "accepted", "recorded", "failing"}

TypeOK ==
  /\ slot \in [Keys -> Mails \cup {None}]
  /\ status \in [Mails -> Statuses]
  /\ payload \in [Mails -> BOOLEAN]
  /\ used \in SUBSET Keys /\ batch \in SUBSET Keys
  /\ due \in SUBSET Mails /\ taken \in SUBSET Mails
  /\ acct \in [Accounts -> {"active", "inactive", "gone"}]
  /\ pc \in Points
  /\ cur \in Keys \cup {0} /\ held \in Mails \cup {None}
  /\ attempted \in BOOLEAN
  /\ crashes \in Nat
  /\ attempts \in [Mails -> Nat]
  /\ Working => cur \in Keys /\ held \in Mails

\* Inductive with TypeOK: what was tried is pending nowhere, and what is about
\* to be tried was not tried before and is pending nowhere else.
NoRetry ==
  /\ \A m \in Mails : attempts[m] > 0 => attempts[m] = 1 /\ status[m] \notin {"new", "pending"}
  /\ pc \in {"loaded", "claimed", "smtp"} => attempts[held] = 0 /\ status[held] # "new"
  /\ pc = "loaded" /\ status[held] = "pending" => slot[cur] = held
  /\ pc \in {"claimed", "smtp"} => status[held] # "pending"

\* Inductive with TypeOK when no key is given twice: a key means one mail, so
\* the row under cur is the mail held, or gone.
KeyMeansMail ==
  /\ \A k \in Keys : Row(k) => k \in used /\ StatusAt(k) \notin {"new", "cancelled", "erased"}
  /\ \A j, k \in Keys : Row(j) /\ slot[j] = slot[k] => j = k
  /\ \A k \in batch : k \in used /\ (Row(k) => slot[k] \in due)
  /\ Working => /\ cur \in used /\ (Row(cur) => slot[cur] = held)
                /\ held \in due /\ held \in taken
  /\ pc \in {"claimed", "smtp"} => status[held] \in {"sending", "erased"}
  /\ \A m \in Mails : status[m] = "sending" \/ status[m] \in Terminal => m \in taken
  /\ \A m \in Mails : attempts[m] > 0 =>
       m \in due /\ status[m] \in {"sending", "erased"} \cup Terminal

\* No mail enters SMTP twice: not after a crash between claim and record, not
\* after an error nobody can interpret, not when a key is given again.
AtMostOnce == \A m \in Mails : attempts[m] <= 1

\* Once a mail is sent, failed or uncertain its body is stored nowhere: no
\* error path and no restart leaves it behind.
BodyCleared == \A m \in Mails : status[m] \in Terminal => ~ payload[m]

\* A cancel that was answered with success means the mail never enters SMTP,
\* however far the scheduler had come with it.
CancelledNeverSent == \A m \in Mails : status[m] = "cancelled" => attempts[m] = 0

\* No mail enters SMTP before its send_at.
NoEarlySend == \A m \in Mails : attempts[m] > 0 => m \in due

\* A mail leaves "pending" towards an outcome only when the scheduler had taken
\* up this very mail, not another one that once had its key.
OwnOutcome == \A m \in Mails : status[m] \in Terminal => m \in taken

\* The status tells the truth: "sent" was transmitted, "failed" never was.
StatusTruth == \A m \in Mails : /\ status[m] = "sent" => attempts[m] > 0
                                /\ status[m] = "failed" => attempts[m] = 0

\* Both: what is recorded is what happened to this mail.
OutcomesFit == StatusTruth /\ OwnOutcome

\* The whole protocol implements SendOnce: withdrawn or tried, and tried once.
Fate(m) == CASE status[m] = "new" -> "unknown"
             [] status[m] = "cancelled" -> "withdrawn"
             [] OTHER -> "parked"
Promise == INSTANCE SendOnce WITH fate <- [m \in Mails |-> Fate(m)],
                                  tries <- attempts
SendsOnce == Promise!Spec

\* A due mail of an active owner does not stay pending for ever.
DueSettles == \A m \in Mails :
  (status[m] = "pending" /\ m \in due)
     ~> (status[m] # "pending" \/ acct[AccountOf[m]] # "active")
=============================================================================
