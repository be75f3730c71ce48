-------------------------------- MODULE Rounds --------------------------------
(***************************************************************************)
(* The two passes over one mail account (mail/scheduler.py): the regular   *)
(* round and the quick pass an IDLE notification triggers.  Both apply the *)
(* rules and fill the inbox cache under the account lock; both compare the *)
(* number of unread mails with the number last reported and push the       *)
(* difference.  When a quick pass runs is the matter of IdleWatch; here it *)
(* may begin whenever the inbox has changed since the last one.            *)
(***************************************************************************)
EXTENDS Integers, FiniteSets

CONSTANTS
  Mails,      \* UIDs, in the order of arrival
  Folders,    \* folders of the account
  Inbox,      \* the folder whose mails are kept warm
  Spam,       \* the spam folder
  Home,       \* the folder a mail is delivered to
  Blocked,    \* mails that a delete rule matches
  Suspect,    \* mails the scanner finds spam or a virus in
  MaxFlips,   \* bound: mails marked unread
  MaxPuts,    \* bound: changes of the watched folders
  MaxClaims,  \* bound: live counts asked for by clients
  MaxChanges, \* bound: the three together
  MaxFaults   \* bound: steps that fail, crashes of the process

ASSUME RoundsAssumption ==
  /\ Mails \subseteq Nat \ {0} /\ IsFiniteSet(Mails)
  /\ Inbox \in Folders /\ Spam \in Folders \ {Inbox}
  /\ Home \in [Mails -> Folders]
  /\ Blocked \subseteq Mails /\ Suspect \subseteq Mails
  /\ MaxFlips \in Nat /\ MaxPuts \in Nat /\ MaxClaims \in Nat
  /\ MaxChanges \in Nat /\ MaxFaults \in Nat

VARIABLES
  place,      \* mails on the IMAP server: folder of a mail
  unread,     \* mails without \Seen
  cached,     \* inbox mails in CachedMessage
  rows,       \* folders with a FolderNotify row
  base,       \* FolderNotify.last_unseen, -1 also without a row
  lock,       \* _konto_sperre: the pass that holds it, or "free"
  pc,         \* where each pass is
  known,      \* IDLE pass: mails cached when it began, up to max_cached_uid
  watch,      \* round: notify_folders as loaded
  new,        \* mails the sync of a pass has just discovered
  sample,     \* unread counts a pass compares: a function on some folders
  loaded,     \* push check: the rows as loaded, a function on their folders
  stale,      \* push check: rows deleted since
  gate,       \* counts_gate: "free", "cooling", or who runs
  due,        \* the sweep interval has passed
  bell,       \* the inbox has changed since the last IDLE pass began
  credit,     \* history: mails that became unread less pushes recorded, per folder
  miscounted, \* history: folders of which STATUS has failed
  flips, puts, claims, faults

server == <<place, unread>>
push == <<rows, base, loaded, stale>>
pass == <<lock, pc, known, watch, new, sample>>
history == <<credit, miscounted>>
budget == <<flips, puts, claims, faults>>
roundsVars == <<server, cached, push, pass, gate, due, bell, history, budget>>

Passes == {"round", "idle"}
Gone == "gone"
Absent == "absent"

\* In "rules" to "inspect" and in "commit" a pass holds the account lock.
Inside == {"rules", "sweep", "sync", "inspect", "commit"}
Points == {"off", "count", "counting", "push"} \cup Inside

In(f) == {m \in Mails : place[m] = f}
Present == {m \in Mails : place[m] \in Folders}
Unseen(f) == Cardinality(In(f) \cap unread)

Counts == [Folders -> Int]
Partial(g) == \E F \in SUBSET Folders : g \in [F -> Int]

RoundsTypeOK ==
  /\ place \in [Mails -> Folders \cup {Absent, Gone}]
  /\ unread \subseteq Mails
  /\ cached \subseteq Mails
  /\ rows \subseteq Folders
  /\ base \in Counts
  /\ lock \in Passes \cup {"free"}
  /\ pc \in [Passes -> Points]
  /\ known \subseteq Mails
  /\ watch \subseteq Folders
  /\ new \in [Passes -> SUBSET Mails]
  /\ DOMAIN sample = Passes /\ Partial(sample["round"]) /\ Partial(sample["idle"])
  /\ Partial(loaded)
  /\ stale \subseteq Folders
  /\ gate \in {"free", "cooling", "round", "client"}
  /\ due \in BOOLEAN /\ bell \in BOOLEAN
  /\ credit \in Counts
  /\ miscounted \subseteq Folders
  /\ flips \in 0 .. MaxFlips /\ puts \in 0 .. MaxPuts
  /\ claims \in 0 .. MaxClaims /\ faults \in 0 .. MaxFaults

Nothing == [f \in {} |-> 0]
OfInbox(n) == [f \in {Inbox} |-> n]

RoundsInit ==
  /\ place = [m \in Mails |-> Absent]
  /\ unread = {} /\ cached = {}
  /\ rows = {} /\ base = [f \in Folders |-> -1]
  /\ lock = "free" /\ pc = [p \in Passes |-> "off"]
  /\ known = {} /\ watch = {}
  /\ new = [p \in Passes |-> {}]
  /\ sample = [p \in Passes |-> Nothing]
  /\ loaded = Nothing /\ stale = {}
  /\ gate = "free" /\ due = TRUE /\ bell = FALSE
  /\ credit = [f \in Folders |-> 0] /\ miscounted = {}
  /\ flips = 0 /\ puts = 0 /\ claims = 0 /\ faults = 0

Goto(p, point) == pc' = [pc EXCEPT ![p] = point]
Changeable == flips + puts + claims < MaxChanges
Fault == faults < MaxFaults /\ faults' = faults + 1 /\ UNCHANGED <<flips, puts, claims>>
NoFault == UNCHANGED budget
\* no waiting
BargingEnterLock(p) == lock' = p
EnterLock(p) == lock = "free" /\ lock' = p
LeaveLock == lock' = "free"

\* Mails move to the trash; the server announces what leaves the inbox.
Trash(S) ==
  /\ place' = [m \in Mails |-> IF m \in S THEN Gone ELSE place[m]]
  /\ unread' = unread \ S
  /\ bell' = (bell \/ S \cap In(Inbox) # {})

-----------------------------------------------------------------------------
(* Rules and inbox, under the account lock.                                 *)

\* A pass enters: rules and watched folders are loaded, an IDLE pass notes how far the
\* cache reaches.
Enter(p) ==
  /\ pc[p] = "off"
  /\ p = "idle" => bell
  /\ EnterLock(p)
  /\ Goto(p, "rules")
  /\ bell' = (bell /\ p # "idle")
  /\ known' = IF p = "idle" THEN cached ELSE known
  /\ watch' = IF p = "round" THEN rows ELSE watch
  /\ UNCHANGED <<server, cached, push, new, sample, gate, due, history, budget>>

\* cached mails are known to have passed the rules
BadExamined(p) == {m \in In(Inbox) : \A n \in cached : n < m}
\* apply_rules: the round looks at the whole inbox, the IDLE pass above what it knows.
Examined(p) == {m \in In(Inbox) : p = "idle" => \A n \in known : n < m}

ApplyRules(p) ==
  /\ pc[p] = "rules"
  /\ Trash(Examined(p) \cap Blocked)
  /\ Goto(p, IF p = "round" THEN "sweep" ELSE "sync")
  /\ known' = IF p = "idle" THEN {} ELSE known
  /\ NoFault
  /\ UNCHANGED <<cached, push, lock, watch, new, sample, gate, due, history>>

\* The move is refused, which apply_rules swallows, or the pass goes on without rules.
RulesFail(p) ==
  /\ pc[p] = "rules"
  /\ Fault
  /\ \/ Goto(p, "sync")
     \/ p = "round" /\ Goto(p, "sweep")
  /\ known' = IF p = "idle" THEN {} ELSE known
  /\ UNCHANGED <<server, cached, bell, push, lock, watch, new, sample, gate, due, history>>

\* sweep_block_folders, at most every _SWEEP_MIN_SECS: delete rules in the spam folder
\* and the watched folders, one after the other.  Its time is noted even if it fails.
Swept == {m \in Blocked : place[m] \in (watch \cup {Spam}) \ {Inbox}}

Sweep ==
  /\ pc["round"] = "sweep"
  /\ \/ due /\ Trash(Swept) /\ NoFault
     \/ due /\ Fault /\ \E some \in SUBSET Swept : Trash(some)
     \/ ~ due /\ Trash({}) /\ NoFault
  /\ due' = FALSE
  /\ watch' = {}
  /\ Goto("round", "sync")
  /\ UNCHANGED <<cached, push, lock, known, new, sample, gate, history>>

\* sync_folder brings the cache in line with the inbox and reports its unread count,
\* zero if STATUS fails.
Sync(p) ==
  /\ pc[p] = "sync"
  /\ cached' = In(Inbox)
  /\ new' = [new EXCEPT ![p] = In(Inbox) \ cached]
  /\ \/ /\ sample' = [sample EXCEPT ![p] = OfInbox(Unseen(Inbox))]
        /\ NoFault
        /\ UNCHANGED miscounted
     \/ /\ sample' = [sample EXCEPT ![p] = OfInbox(0)]
        /\ Fault
        /\ miscounted' = miscounted \cup {Inbox}
  /\ watch' = {}
  /\ Goto(p, "inspect")
  /\ UNCHANGED <<server, bell, push, lock, known, gate, due, credit>>

\* The sync raises: the IDLE pass ends without a push, the round goes on to the counts.
SyncFails(p) ==
  /\ pc[p] = "sync"
  /\ Fault
  /\ LeaveLock
  /\ Goto(p, IF p = "round" THEN "count" ELSE "off")
  /\ watch' = {}
  /\ UNCHANGED <<server, cached, bell, push, known, new, sample, gate, due, history>>

\* Only the IDLE pass compares the count of the sync; a round takes its own.
AfterInspect(p, unseen) ==
  /\ pc[p] = "inspect"
  /\ LeaveLock
  /\ Goto(p, IF p = "round" THEN "count" ELSE "push")
  /\ new' = [new EXCEPT ![p] = {}]
  /\ sample' = [sample EXCEPT ![p] =
       IF p = "round" THEN Nothing ELSE OfInbox(unseen)]
  /\ UNCHANGED <<push, known, watch, gate, due, miscounted>>

\* The unread count as if the moved mails had never come.
Less(unseen, n) == IF unseen < n THEN 0 ELSE unseen - n

\* _neue_pruefen: suspicious new mails go to the spam folder and out of the cache.
Inspect(p) ==
  LET moved == new[p] \cap Suspect \cap In(Inbox)
      n == Cardinality(moved \cap unread)
  IN /\ AfterInspect(p, Less(sample[p][Inbox], n))
     /\ place' = [m \in Mails |-> IF m \in moved THEN Spam ELSE place[m]]
     /\ cached' = cached \ moved
     /\ bell' = (bell \/ moved # {})
     /\ credit' = [credit EXCEPT ![Spam] = @ + n]
     /\ NoFault
     /\ UNCHANGED unread

\* The inspection fails: the result of the sync stands.
InspectFails(p) ==
  /\ Fault
  /\ AfterInspect(p, sample[p][Inbox])
  /\ UNCHANGED <<server, cached, bell, credit>>

-----------------------------------------------------------------------------
(* Counts of all folders: the round and clients share a gate.               *)

ClaimCounts ==
  /\ pc["round"] = "count"
  /\ IF gate = "free"
       THEN gate' = "round" /\ Goto("round", "counting")
       ELSE gate' = gate /\ Goto("round", "off")
  /\ UNCHANGED <<server, cached, bell, push, lock, known, watch, new, sample, due, history, budget>>

\* folder_counts: a STATUS for each folder, one that fails counts zero.
ReadCounts ==
  /\ pc["round"] = "counting"
  /\ \/ /\ sample' = [sample EXCEPT !["round"] = [f \in Folders |-> Unseen(f)]]
        /\ NoFault
        /\ UNCHANGED miscounted
     \/ \E failed \in Folders :
          /\ sample' = [sample EXCEPT !["round"] =
               [f \in Folders |-> IF f = failed THEN 0 ELSE Unseen(f)]]
          /\ Fault
          /\ miscounted' = miscounted \cup {failed}
  /\ gate' = "cooling"
  /\ Goto("round", "push")
  /\ UNCHANGED <<server, cached, bell, push, lock, known, watch, new, due, credit>>

CountsFail ==
  /\ pc["round"] = "counting"
  /\ Fault
  /\ gate' = "cooling"
  /\ Goto("round", "off")
  /\ UNCHANGED <<server, cached, bell, push, lock, known, watch, new, sample, due, history>>

\* GET folders/counts?live=1
ClientClaim ==
  /\ gate = "free"
  /\ claims < MaxClaims /\ Changeable
  /\ gate' = "client"
  /\ claims' = claims + 1
  /\ UNCHANGED <<server, cached, bell, push, pass, due, history, flips, puts, faults>>

ClientFinish ==
  /\ gate = "client"
  /\ gate' = "cooling"
  /\ UNCHANGED <<server, cached, bell, push, pass, due, history, budget>>

CoolDown ==
  /\ gate = "cooling"
  /\ gate' = "free"
  /\ UNCHANGED <<server, cached, bell, push, pass, due, history, budget>>

-----------------------------------------------------------------------------
(* _push_check, under the account lock; the counts were read outside it.    *)

EndPush(p) ==
  /\ Goto(p, "off")
  /\ sample' = [sample EXCEPT ![p] = Nothing]
  /\ UNCHANGED <<server, cached, bell, known, watch, new, gate, due, miscounted>>

NoRows(p) ==
  /\ pc[p] = "push" /\ lock = "free" /\ rows = {}
  /\ EndPush(p)
  /\ UNCHANGED <<push, lock, credit, budget>>

\* The rows are loaded and compared, pushes go out.
Compare(p) ==
  /\ pc[p] = "push" /\ rows # {}
  /\ EnterLock(p)
  /\ Goto(p, "commit")
  /\ loaded' = [f \in rows |-> base[f]]
  /\ stale' = {}
  /\ UNCHANGED <<server, cached, bell, rows, base, known, watch, new, sample, gate, due,
                 history, budget>>

\* only new mail is written
RisingChanged(p) == {f \in DOMAIN loaded \cap DOMAIN sample[p] : loaded[f] < sample[p][f]}
\* The rows whose base is written, the mails pushed for a folder.
Changed(p) == {f \in DOMAIN loaded \cap DOMAIN sample[p] : loaded[f] # sample[p][f]}
\* a first count is pushed as well
EagerPushed(p, f) ==
  IF f \in Changed(p) /\ sample[p][f] > loaded[f] THEN sample[p][f] - loaded[f] ELSE 0
Pushed(p, f) ==
  IF f \in Changed(p) /\ loaded[f] >= 0 /\ sample[p][f] > loaded[f]
    THEN sample[p][f] - loaded[f] ELSE 0

CloseCheck(p) ==
  /\ pc[p] = "commit"
  /\ EndPush(p)
  /\ LeaveLock
  /\ loaded' = Nothing
  /\ stale' = {}
  /\ UNCHANGED rows

Commit(p) ==
  /\ CloseCheck(p)
  /\ Changed(p) \cap stale = {}
  /\ base' = [f \in Folders |-> IF f \in Changed(p) THEN sample[p][f] ELSE base[f]]
  /\ credit' = [f \in Folders |-> credit[f] - Pushed(p, f)]
  /\ NoFault

\* A row has been deleted (StaleDataError) or the database refuses: nothing is recorded.
Rollback(p) ==
  /\ CloseCheck(p)
  /\ \/ Changed(p) \cap stale # {} /\ NoFault
     \/ Fault
  /\ UNCHANGED <<base, credit>>

-----------------------------------------------------------------------------
(* What the account's owner, other clients and the server do meanwhile.     *)

idleWorld == <<push, pass, gate, due, miscounted>>

Arrive(m) ==
  /\ place[m] = Absent
  /\ \A n \in Mails : n < m /\ Home[n] = Home[m] => place[n] # Absent
  /\ place' = [place EXCEPT ![m] = Home[m]]
  /\ unread' = unread \cup {m}
  /\ credit' = [credit EXCEPT ![Home[m]] = @ + 1]
  /\ bell' = (bell \/ Home[m] = Inbox)
  /\ UNCHANGED <<cached, idleWorld, budget>>

Read(m) ==
  /\ m \in unread /\ m \in Present
  /\ unread' = unread \ {m}
  /\ UNCHANGED <<place, cached, bell, credit, idleWorld, budget>>

MarkUnread(m) ==
  /\ m \in Present \ unread
  /\ flips < MaxFlips /\ Changeable
  /\ flips' = flips + 1
  /\ unread' = unread \cup {m}
  /\ credit' = [credit EXCEPT ![place[m]] = @ + 1]
  /\ UNCHANGED <<place, cached, bell, idleWorld, puts, claims, faults>>

Remove(m) ==
  /\ m \in Present
  /\ Trash({m})
  /\ UNCHANGED <<cached, credit, idleWorld, budget>>

\* A request lists the inbox and so syncs it, without rules and without the lock.
List ==
  /\ cached # In(Inbox)
  /\ cached' = In(Inbox)
  /\ UNCHANGED <<server, bell, credit, idleWorld, budget>>

\* POST rules/apply, without the lock.
UserRules ==
  /\ In(Inbox) \cap Blocked # {}
  /\ Trash(In(Inbox) \cap Blocked)
  /\ UNCHANGED <<cached, credit, idleWorld, budget>>

\* PUT folders: rows of unwanted folders go, new rows start at -1.
Watch(wanted) ==
  /\ wanted # rows
  /\ puts < MaxPuts /\ Changeable
  /\ puts' = puts + 1
  /\ rows' = wanted
  /\ base' = [f \in Folders |-> IF f \in rows \cap wanted THEN base[f] ELSE -1]
  /\ stale' = IF loaded = Nothing THEN {} ELSE stale \cup (rows \ wanted)
  /\ UNCHANGED <<server, cached, bell, loaded, pass, gate, due, history, flips, claims, faults>>

SweepDue ==
  /\ ~ due
  /\ due' = TRUE
  /\ UNCHANGED <<server, cached, bell, push, pass, gate, history, budget>>

\* The process dies and starts again; the database stays.
Crash ==
  /\ Fault
  /\ lock' = "free" /\ pc' = [p \in Passes |-> "off"]
  /\ known' = {} /\ watch' = {}
  /\ new' = [p \in Passes |-> {}]
  /\ sample' = [p \in Passes |-> Nothing]
  /\ loaded' = Nothing /\ stale' = {}
  /\ gate' = "free" /\ due' = TRUE /\ bell' = FALSE
  /\ UNCHANGED <<server, cached, rows, base, history>>

-----------------------------------------------------------------------------
StepOf(p) ==
  \/ Enter(p) \/ ApplyRules(p) \/ RulesFail(p) \/ Sync(p) \/ SyncFails(p)
  \/ Inspect(p) \/ InspectFails(p)
  \/ NoRows(p) \/ Compare(p) \/ Commit(p) \/ Rollback(p)
Round == StepOf("round") \/ Sweep \/ ClaimCounts \/ ReadCounts \/ CountsFail
Idle == StepOf("idle")
Environment ==
  \/ \E m \in Mails : Arrive(m) \/ Read(m) \/ MarkUnread(m) \/ Remove(m)
  \/ List \/ UserRules \/ ClientClaim \/ Crash
  \/ \E wanted \in SUBSET Folders : Watch(wanted)

RoundsNext == Round \/ Idle \/ ClientFinish \/ CoolDown \/ SweepDue \/ Environment

RoundsSpec == RoundsInit /\ [][RoundsNext]_roundsVars

\* The scheduler runs a round again and again, an IDLE notification is answered, a
\* thread that waits for the account lock gets it, time passes and requests end.
FairRounds ==
  /\ RoundsSpec
  /\ WF_roundsVars(Round) /\ WF_roundsVars(Idle)
  /\ WF_roundsVars(ClientFinish) /\ WF_roundsVars(CoolDown) /\ WF_roundsVars(SweepDue)

-----------------------------------------------------------------------------
\* A pass inside its critical section holds the account lock, and the gate is closed by
\* the round only while it counts (scheduler.py "with _konto_sperre", counts_gate).
Exclusive ==
  /\ \A p \in Passes : lock = p <=> pc[p] \in Inside
  /\ gate = "round" <=> pc["round"] = "counting"

\* Outside the inbox, no more pushes are recorded than mails became unread, whatever
\* the owner watches meanwhile, as long as STATUS of the folder has never failed
\* (_push_check, models.py FolderNotify).
SidePushedOnce == \A f \in Folders \ ({Inbox} \cup miscounted) : credit[f] >= 0

\* Once the mailbox rests, the numbers last reported become those of the server: no
\* later arrival is swallowed or reported with another (_push_check).
BaselineSettles == <>[](\A f \in rows : base[f] = Unseen(f))

\* A blocked mail that is left in the inbox or the spam folder is removed at last,
\* though IDLE passes look only above what is cached (sync_inbox_now min_uid).
BlockedRemoved ==
  \A m \in Blocked : place[m] \in {Inbox, Spam} ~> place[m] \notin {Inbox, Spam}
=============================================================================
