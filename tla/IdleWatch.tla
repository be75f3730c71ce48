------------------------------ MODULE IdleWatch ------------------------------
(***************************************************************************)
(* IMAP IDLE watchers (mail/idle_watch.py): one watcher thread per account *)
(* holds a connection of its own in IDLE; a notification triggers a quick  *)
(* pass over the inbox, and notifications during a pass are collected into *)
(* one more.  Every scheduler round brings the watchers in line with the   *)
(* accounts of active users.  What a pass does is in module Rounds.        *)
(***************************************************************************)
EXTENDS Naturals, FiniteSets

CONSTANTS
  Accounts,      \* mail accounts
  Threads,       \* names of watcher threads; a dead thread's name is used again
  NoThread,      \* no watcher registered
  Workers,       \* _DURCHLAUF_POOL: passes at a time
  MaxEdits,      \* bound: edits of accounts and switches of their owners
  MaxMail,       \* bound: changes of a mailbox the server announces
  MaxFailures    \* bound: connections that fail, break or come without IDLE

ASSUME WatchAssumption ==
  /\ Accounts # {}
  /\ NoThread \notin Threads
  /\ Workers \in Nat \ {0}
  /\ MaxEdits \in Nat /\ MaxMail \in Nat /\ MaxFailures \in Nat

VARIABLES
  account,     \* the database: owner active, version of the connection data
  listed,      \* the scheduler's list of accounts, <<>> outside a round
  registered,  \* _waechter: the thread registered for an account
  thread,      \* the watcher threads
  slot,        \* _durchlauf: [laeuft, nochmal] of an account
  job,         \* the account's entry in the pool
  owed,        \* history: accounts triggered since their last pass began
  edits,       \* edits so far
  mail,        \* announcements so far
  failures     \* connection failures so far

watchVars == <<account, listed, registered, thread, slot, job, owed,
          edits, mail, failures>>
watchers == <<registered, thread>>
passes == <<slot, job, owed>>
world == <<account, edits, mail, failures>>

Versions == 0 .. MaxEdits
Rows == [active : BOOLEAN, version : Versions]

\* A watcher in "arm" has just connected, in "start" it is about to enter IDLE, in
\* "idle" it polls, in "pause" it waits to reconnect.
Phases == {"dead", "load", "open", "arm", "start", "idle", "pause"}
Connected == {"arm", "start", "idle"}
Jobs == {"none", "queued", "running", "checking"}

Slots == [running : BOOLEAN, again : BOOLEAN]
Watchers == [phase : Phases, of : Accounts, bound : Versions, stop : BOOLEAN,
             first : BOOLEAN, signal : BOOLEAN, unsupported : BOOLEAN, missed : BOOLEAN]

WatchTypeOK ==
  /\ account \in [Accounts -> Rows]
  /\ listed \in [Accounts -> Rows] \cup {<<>>}
  /\ registered \in [Accounts -> Threads \cup {NoThread}]
  /\ thread \in [Threads -> Watchers]
  /\ slot \in [Accounts -> Slots]
  /\ job \in [Accounts -> Jobs]
  /\ owed \subseteq Accounts
  /\ edits \in 0 .. MaxEdits
  /\ mail \in 0 .. MaxMail
  /\ failures \in 0 .. MaxFailures

Someone == CHOOSE a \in Accounts : TRUE

\* A name no thread has.
Dead(a) == [phase |-> "dead", of |-> a, bound |-> 0, stop |-> FALSE, first |-> TRUE,
            signal |-> FALSE, unsupported |-> FALSE, missed |-> FALSE]
Started(a, v) == [Dead(a) EXCEPT !.phase = "load", !.bound = v]

WatchInit ==
  /\ account = [a \in Accounts |-> [active |-> TRUE, version |-> 0]]
  /\ listed = <<>>
  /\ registered = [a \in Accounts |-> NoThread]
  /\ thread = [t \in Threads |-> Dead(Someone)]
  /\ slot = [a \in Accounts |-> [running |-> FALSE, again |-> FALSE]]
  /\ job = [a \in Accounts |-> "none"]
  /\ owed = {}
  /\ edits = 0
  /\ mail = 0
  /\ failures = 0

-----------------------------------------------------------------------------
(* Passes: trigger, pool, coalescing.                                       *)

\* ausloesen: a trigger while a pass runs or waits is only noted.
Trigger(a) ==
  /\ owed' = owed \cup {a}
  /\ IF slot[a].running
       THEN slot' = [slot EXCEPT ![a].again = TRUE] /\ UNCHANGED job
       ELSE slot' = [slot EXCEPT ![a].running = TRUE] /\ job' = [job EXCEPT ![a] = "queued"]

\* A pass of the account begins: it sees what happened before.
Serve(a) ==
  /\ owed' = owed \ {a}
  /\ thread' = [t \in Threads |-> IF thread[t].of = a THEN [thread[t] EXCEPT !.missed = FALSE]
                                                    ELSE thread[t]]

InPool == {a \in Accounts : job[a] \in {"running", "checking"}}

\* A worker of the pool takes the account and calls the handler.
BeginPass(a) ==
  /\ job[a] = "queued"
  /\ Cardinality(InPool) < Workers
  /\ job' = [job EXCEPT ![a] = "running"]
  /\ Serve(a)
  /\ UNCHANGED <<slot, registered, listed, world>>

\* The handler has returned or raised; the lock is not taken yet.
EndPass(a) ==
  /\ job[a] = "running"
  /\ job' = [job EXCEPT ![a] = "checking"]
  /\ UNCHANGED <<slot, owed, watchers, listed, world>>

\* a note is cleared, and the worker goes
ForgetfulCheckAgain(a) ==
  /\ job[a] = "checking"
  /\ slot' = [slot EXCEPT ![a] = [running |-> FALSE, again |-> FALSE]]
  /\ job' = [job EXCEPT ![a] = "none"]
  /\ UNCHANGED <<owed, watchers, listed, world>>

\* Under the lock: one more pass if something was noted, else the worker is free.
CheckAgain(a) ==
  /\ job[a] = "checking"
  /\ IF slot[a].again
       THEN /\ slot' = [slot EXCEPT ![a].again = FALSE]
            /\ job' = [job EXCEPT ![a] = "running"]
            /\ Serve(a)
       ELSE /\ slot' = [slot EXCEPT ![a].running = FALSE]
            /\ job' = [job EXCEPT ![a] = "none"]
            /\ UNCHANGED <<owed, thread>>
  /\ UNCHANGED <<registered, listed, world>>

-----------------------------------------------------------------------------
(* The watcher thread.                                                      *)

\* A thread that ends leaves which connection data it had.
Finished(t) == [Dead(thread[t].of) EXCEPT !.bound = thread[t].bound]

Go(t, phase) ==
  thread' = [thread EXCEPT ![t] =
              IF phase = "dead" THEN Finished(t) ELSE [@ EXCEPT !.phase = phase, !.signal = FALSE]]

\* The head of the loop: stop, or load the account; a deleted or inactive one ends it.
Load(t) ==
  /\ thread[t].phase = "load"
  /\ Go(t, IF thread[t].stop \/ ~account[thread[t].of].active THEN "dead" ELSE "open")
  /\ UNCHANGED <<registered, passes, listed, world>>

\* The connection is open and the server offers IDLE.
Open(t) ==
  /\ thread[t].phase = "open"
  /\ Go(t, "arm")
  /\ UNCHANGED <<registered, passes, listed, world>>

\* The server, or what it listed after a failed login, has no IDLE: the watcher ends.
NoIdle(t) ==
  /\ thread[t].phase = "open"
  /\ failures < MaxFailures
  /\ failures' = failures + 1
  /\ thread' = [thread EXCEPT ![t] = [Finished(t) EXCEPT !.unsupported = TRUE]]
  /\ UNCHANGED <<registered, passes, listed, account, edits, mail>>

\* no pass after a reconnect
QuietArm(t) ==
  /\ thread[t].phase = "arm"
  /\ thread' = [thread EXCEPT ![t].phase = "start", ![t].first = FALSE]
  /\ UNCHANGED <<registered, passes, listed, world>>

\* After a reconnect something may have arrived meanwhile: trigger a pass.
Arm(t) ==
  /\ thread[t].phase = "arm"
  /\ IF thread[t].first THEN UNCHANGED passes ELSE Trigger(thread[t].of)
  /\ thread' = [thread EXCEPT ![t].phase = "start", ![t].first = FALSE]
  /\ UNCHANGED <<registered, listed, world>>

\* Leaving the loop of _lauschen because of stop ends the thread at the wait.
StartIdle(t) ==
  /\ thread[t].phase = "start"
  /\ Go(t, IF thread[t].stop THEN "dead" ELSE "idle")
  /\ UNCHANGED <<registered, passes, listed, world>>

\* poll returns lines that announce a new or vanished mail.
Poll(t) ==
  /\ thread[t].phase = "idle"
  /\ ~thread[t].stop
  /\ thread[t].signal
  /\ Trigger(thread[t].of)
  /\ thread' = [thread EXCEPT ![t].signal = FALSE]
  /\ UNCHANGED <<registered, listed, world>>

\* poll has returned and the loop sees the stop: what it returned is still handled.
Leave(t) ==
  /\ thread[t].phase = "idle"
  /\ thread[t].stop
  /\ IF thread[t].signal THEN Trigger(thread[t].of) ELSE UNCHANGED passes
  /\ Go(t, "dead")
  /\ UNCHANGED <<registered, listed, world>>

\* IDLE is ended and begun again after _ERNEUERN; an announcement in the exchange
\* of DONE is consumed by the library unread.
Renew(t) ==
  /\ thread[t].phase = "idle"
  /\ ~thread[t].stop
  /\ Go(t, "start")
  /\ UNCHANGED <<registered, passes, listed, world>>

\* The account cannot be read, the connection not opened, or it breaks, or BYE: wait,
\* then connect again.
Break(t) ==
  /\ thread[t].phase \in {"load", "open"} \cup Connected
  /\ failures < MaxFailures
  /\ failures' = failures + 1
  /\ Go(t, "pause")
  /\ UNCHANGED <<registered, passes, listed, account, edits, mail>>

Resume(t) ==
  /\ thread[t].phase = "pause"
  /\ Go(t, IF thread[t].stop THEN "dead" ELSE "load")
  /\ UNCHANGED <<registered, passes, listed, world>>

-----------------------------------------------------------------------------
(* The scheduler round brings the watchers in line with the accounts.       *)

ListAccounts ==
  /\ listed = <<>>
  /\ listed' = account
  /\ UNCHANGED <<watchers, passes, world>>

Registered(a) == thread[registered[a]]

\* connection data are not compared
BlindOutdated(a) == registered[a] # NoThread /\ ~listed[a].active
\* The registered watcher of an account no longer wanted, or of other connection data.
Outdated(a) ==
  /\ registered[a] # NoThread
  /\ ~listed[a].active \/ Registered(a).bound # listed[a].version

\* A watcher that ended by itself is replaced, one without IDLE only after _UNSUPPORTED_RETRY.
Ended(a) == registered[a] # NoThread /\ Registered(a).phase = "dead"

Kept(a) ==
  /\ registered[a] # NoThread
  /\ ~Outdated(a)
  /\ Ended(a) => Registered(a).unsupported

\* a replaced watcher is only forgotten
NoneStopped == {}
Stopped == {registered[a] : a \in {b \in Accounts : Outdated(b)}}
Wanted == {a \in Accounts : listed[a].active /\ ~Kept(a)}
Unused == {t \in Threads : thread[t].phase = "dead" /\ \A a \in Accounts : Kept(a) => registered[a] # t}

\* Names for the new threads; which ones makes no difference.
Names == {new \in [Wanted -> Unused] : \A a, b \in Wanted : new[a] = new[b] => a = b}

\* abgleichen, under _lock: stop, forget and start watchers.
Reconcile ==
  /\ listed # <<>>
  /\ Names # {}
  /\ LET new == CHOOSE f \in Names : TRUE
         Fresh(t) == Started(CHOOSE a \in Wanted : new[a] = t, listed[CHOOSE a \in Wanted : new[a] = t].version)
     IN  /\ registered' = [a \in Accounts |-> IF a \in Wanted THEN new[a]
                                              ELSE IF Kept(a) THEN registered[a] ELSE NoThread]
         /\ thread' = [t \in Threads |->
                        IF \E a \in Wanted : new[a] = t THEN Fresh(t)
                        ELSE IF t \in Unused THEN Dead(Someone)
                        ELSE IF t \in Stopped THEN [thread[t] EXCEPT !.stop = TRUE]
                        ELSE thread[t]]
  /\ listed' = <<>>
  /\ UNCHANGED <<passes, world>>

-----------------------------------------------------------------------------
(* The world.                                                               *)

\* A watcher that was connected before and is not now.
Away(t) == ~thread[t].first /\ thread[t].phase \in {"pause", "load", "open", "arm"}

\* The mailbox changes: the server says so on the connections that are in IDLE.
Announce(a) ==
  /\ mail < MaxMail
  /\ mail' = mail + 1
  /\ thread' = [t \in Threads |->
                 IF thread[t].of # a THEN thread[t]
                 ELSE [thread[t] EXCEPT !.signal = @ \/ thread[t].phase = "idle",
                                        !.missed = @ \/ Away(t)]]
  /\ UNCHANGED <<registered, passes, listed, account, edits, failures>>

Edit(a, row) ==
  /\ edits < MaxEdits
  /\ edits' = edits + 1
  /\ account' = [account EXCEPT ![a] = row]
  /\ UNCHANGED <<watchers, passes, listed, mail, failures>>

\* The user changes host or password of an account.
EditAccount(a) == Edit(a, [account[a] EXCEPT !.version = edits + 1])

\* An administrator locks the owner or lets them in again.
SwitchOwner(a) == Edit(a, [account[a] EXCEPT !.active = ~@])

\* _UNSUPPORTED_RETRY has passed.
RetryUnsupported(t) ==
  /\ thread[t].unsupported
  /\ thread' = [thread EXCEPT ![t].unsupported = FALSE]
  /\ UNCHANGED <<registered, passes, listed, world>>
-----------------------------------------------------------------------------
WatcherStep(t) ==
  Load(t) \/ Open(t) \/ Arm(t) \/ StartIdle(t) \/ Poll(t) \/ Leave(t) \/ Resume(t)
PassStep(a) == BeginPass(a) \/ EndPass(a) \/ CheckAgain(a)

WatchNext ==
  \/ \E t \in Threads : WatcherStep(t) \/ Renew(t) \/ Break(t) \/ NoIdle(t) \/ RetryUnsupported(t)
  \/ \E a \in Accounts : PassStep(a) \/ Announce(a) \/ EditAccount(a) \/ SwitchOwner(a)
  \/ ListAccounts \/ Reconcile

WatchSpec == WatchInit /\ [][WatchNext]_watchVars

\* Threads run, rounds come again and again; nothing makes mail arrive or connections break.
FairWatch ==
  /\ WatchSpec
  /\ \A t \in Threads : WF_watchVars(WatcherStep(t) \/ RetryUnsupported(t))
  /\ \A a \in Accounts : WF_watchVars(PassStep(a))
  /\ WF_watchVars(ListAccounts) /\ WF_watchVars(Reconcile)

-----------------------------------------------------------------------------
(* Properties.                                                              *)

\* The coalescing slot says whether a pass of the account is queued or in the pool;
\* if it said no too early, a trigger would start a second pass beside the first.
SlotTruth == \A a \in Accounts : slot[a].running <=> job[a] # "none"

\* A trigger is never forgotten: until a pass begins after it, one is queued or noted.
\* The comment of idle_watch.py, lines 18-20: nothing is lost, exactly one more runs.
WakeKept == \A a \in owed : job[a] = "queued" \/ slot[a].again

Live(t) == thread[t].phase # "dead"

\* However often accounts change while watchers connect, wait or poll, an account has at
\* most one live watcher that has not been told to stop.
OneListener ==
  \A t, u \in Threads :
    /\ Live(t) /\ Live(u)
    /\ ~thread[t].stop /\ ~thread[u].stop
    /\ thread[t].of = thread[u].of
    => t = u

\* When accounts stop changing, each active one ends up with a
\* watcher in IDLE that has its current data, and the others without a watcher.
WatchersSettle ==
  <>[](\A a \in Accounts :
         IF account[a].active
           THEN /\ registered[a] # NoThread
                /\ Registered(a).bound = account[a].version
                /\ Registered(a).phase \in {"start", "idle"}
           ELSE \A t \in Threads : thread[t].of = a => ~Live(t))

\* What changed while a watcher was disconnected gets a pass after the reconnect, unless
\* the watcher is told to stop (then the round that replaced it looks itself).
MissedIsFetched ==
  \A t \in Threads : thread[t].missed ~> (~thread[t].missed \/ thread[t].stop)

W == INSTANCE Wake WITH busy <- InPool

\* Trigger, queue, handler and recheck keep what Wake promises: passes of an account do
\* not overlap and every trigger is followed by the beginning of a pass.
KeepsWake == W!FairSpec
=============================================================================
