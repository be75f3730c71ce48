------------------------------ MODULE ImapPool ------------------------------
(***************************************************************************)
(* The IMAP connections of one account (mail/imap.py): operations borrow a *)
(* connection, bring it to their folder and give it back; one held for too *)
(* long leaves the pool, one unused for too long is closed by a sweep in   *)
(* the background.  Accounts have lists of their own and share only the    *)
(* lock of the pool and the sweep.                                         *)
(***************************************************************************)
EXTENDS Naturals, Sequences, FiniteSets

CONSTANTS
  Interactive,   \* threads of operations with read_fallback
  Background,    \* threads of all other operations
  Sweeper,       \* the thread of _reap_idle
  Conns,         \* objects of class _Conn; a forgotten one's name is used again
  Folders, Inbox,
  Secrets,       \* what a login depends on: password, TLS, fingerprint
  None,
  PoolSize, PoolExtra,
  MaxAsks,       \* bound: operations begun
  MaxFaults,     \* bound: sessions the server drops
  MaxHung        \* bound: threads that hang at a time

Threads == Interactive \cup Background

ASSUME PoolAssumption ==
  /\ Interactive \cap Background = {} /\ Sweeper \notin Threads
  /\ None \notin Threads \cup {Sweeper} \cup Conns \cup Folders \cup Secrets
  /\ Inbox \in Folders
  /\ PoolSize \in Nat \ {0} /\ PoolExtra \in Nat
  /\ MaxAsks \in Nat /\ MaxFaults \in Nat /\ MaxHung \in Nat

VARIABLES
  pool,     \* _POOL[key]: the account's connections, oldest first
  guard,    \* who sorts out connections under _POOL_LOCK, over several steps
  doomed,   \* haenger: those found stuck by the holder of the guard
  conn,     \* the connections
  task,     \* the operations
  sweep,    \* the sweep: where it is, what it still has to look at
  hung,     \* threads that do not come back from the server
  asks, faults

vars == <<pool, guard, doomed, conn, task, sweep, hung, asks, faults>>

\* A session on the server; a dead one answers no command any more.  Without a
\* selected folder it refuses commands about mails.
Sessions == [selected : Folders \cup {None}, login : Secrets, live : BOOLEAN]

ASSUME SessionAssumption == None \notin Sessions

\* lock and holder as in _Conn; the age of the holder against _STUCK_AFTER, that of
\* last_used against _IDLE_TTL.
Connections ==
  [lock : Threads \cup {Sweeper, None}, box : Sessions \cup {None},
   folder : Folders \cup {None}, binding : Secrets \cup {None},
   expired : BOOLEAN, holder : {"none", "new", "stuck"}]

\* "wait" polls for a connection, "evict" sorts out stuck ones, "renew" is
\* _ensure_box, "use" the body of the operation, "away" that of
\* ensure_default_folders in another folder; "error" is an exception of _greife_zu.
Operations ==
  [at : {"idle", "wait", "evict", "renew", "use", "away", "error"},
   conn : Conns \cup {None}, folder : Folders \cup {None}, secret : Secrets \cup {None}]

Sweeps == [at : {"off", "start", "sweep", "aged", "closing"}, left : Seq(Conns),
           conn : Conns \cup {None}]

Idle == [at |-> "idle", conn |-> None, folder |-> None, secret |-> None]
Resting == [at |-> "off", left |-> <<>>, conn |-> None]
\* last_used begins at zero, so a connection never used counts as expired.
NewConn == [lock |-> None, box |-> None, folder |-> None, binding |-> None,
            expired |-> TRUE, holder |-> "none"]

Elements(s) == {s[i] : i \in 1..Len(s)}

\* Mutant: the whole list of the account goes.
Emptied(s, c) == <<>>

\* list.remove
Without(s, c) ==
  LET k == CHOOSE i \in 1..Len(s) : s[i] = c
  IN  IF c \in Elements(s)
      THEN [i \in 1..(Len(s) - 1) |-> IF i < k THEN s[i] ELSE s[i + 1]]
      ELSE s

Init ==
  /\ pool = <<>> /\ guard = None /\ doomed = {}
  /\ conn = [c \in Conns |-> NewConn]
  /\ task = [t \in Threads |-> Idle]
  /\ sweep = Resting /\ hung = {} /\ asks = 0 /\ faults = 0

-----------------------------------------------------------------------------
(* Borrowing *)

\* Mutant: the background may use the extra places.
LimitOfAll(t) == PoolSize + PoolExtra

Limit(t) == IF t \in Interactive THEN PoolSize + PoolExtra ELSE PoolSize

\* The places an operation may look at, the free ones, those in its folder.
Reach(t) == {i \in 1..Len(pool) : i <= Limit(t)}
Free(t) == {i \in Reach(t) : conn[pool[i]].lock = None}
Fitting(t) == {i \in Free(t) : conn[pool[i]].folder = task[t].folder}
Preferred(t) == IF Fitting(t) # {} THEN Fitting(t) ELSE Free(t)

Room(t) == Len(pool) < Limit(t)
NoPlace(t) == Free(t) = {} /\ ~Room(t)

\* Objects nothing refers to any more.
Unused == {c \in Conns : /\ c \notin Elements(pool) \cup Elements(sweep.left) \cup doomed
                         /\ c # sweep.conn /\ conn[c].lock = None}

\* Mutant: only a connection nobody holds counts as stuck.
StuckWhenFree == {c \in Elements(pool) : conn[c].holder = "stuck" /\ conn[c].lock = None}

Stuck == {c \in Elements(pool) : conn[c].holder = "stuck"}

\* An operation on a folder begins, with the login data the account has by then;
\* the user may change them at any time.
Ask(t, f, s) ==
  /\ task[t].at \in {"idle", "error"} /\ asks < MaxAsks
  /\ task' = [task EXCEPT ![t] = [at |-> "wait", conn |-> None, folder |-> f, secret |-> s]]
  /\ asks' = asks + 1
  /\ UNCHANGED <<pool, guard, doomed, conn, sweep, hung, faults>>

\* _greife_zu finds connections held for too long.
FindStuck(t) ==
  /\ task[t].at = "wait" /\ guard = None /\ Stuck # {}
  /\ guard' = t /\ doomed' = Stuck
  /\ task' = [task EXCEPT ![t].at = "evict"]
  /\ UNCHANGED <<pool, conn, sweep, hung, asks, faults>>

\* It reports the holder of each and takes it out of the pool.
Evict(t) ==
  /\ task[t].at = "evict"
  /\ \E c \in doomed : /\ conn[c].holder # "none"
                       /\ pool' = Without(pool, c) /\ doomed' = doomed \ {c}
  /\ UNCHANGED <<guard, conn, task, sweep, hung, asks, faults>>

\* The holder, read again for the report, has given the connection back meanwhile:
\* the report fails, and the operation with it.
Stumble(t) ==
  /\ task[t].at = "evict" /\ \E c \in doomed : conn[c].holder = "none"
  /\ guard' = None /\ doomed' = {}
  /\ task' = [task EXCEPT ![t] = [Idle EXCEPT !.at = "error"]]
  /\ UNCHANGED <<pool, conn, sweep, hung, asks, faults>>

\* With nothing (more) to sort out it looks for a place.
Looking(t) == \/ task[t].at = "wait" /\ guard = None /\ Stuck = {}
              \/ task[t].at = "evict" /\ doomed = {}

Lend(t, c) == /\ task' = [task EXCEPT ![t].at = "renew", ![t].conn = c]
              /\ guard' = None

\* The first free connection in the folder, or else the first free one.
Reuse(t) ==
  /\ Looking(t)
  /\ \E i \in Preferred(t) :
       /\ \A j \in Preferred(t) : i <= j
       /\ conn' = [conn EXCEPT ![pool[i]].lock = t, ![pool[i]].holder = "new"]
       /\ Lend(t, pool[i])
  /\ UNCHANGED <<pool, doomed, sweep, hung, asks, faults>>

\* None is free, but there is room for one more.
Grow(t) ==
  /\ Looking(t) /\ Free(t) = {} /\ Room(t) /\ Unused # {}
  /\ LET c == CHOOSE x \in Unused : TRUE
     IN  /\ pool' = Append(pool, c)
         /\ conn' = [conn EXCEPT ![c] = [NewConn EXCEPT !.lock = t, !.holder = "new"]]
         /\ Lend(t, c)
  /\ UNCHANGED <<doomed, sweep, hung, asks, faults>>

\* No place: it polls on, or has waited long enough and answers that the account
\* is busy.
Wait(t) ==
  /\ Looking(t) /\ NoPlace(t)
  /\ task' = [task EXCEPT ![t].at = "wait"] /\ guard' = None
  /\ UNCHANGED <<pool, doomed, conn, sweep, hung, asks, faults>>

Busy(t) ==
  /\ Looking(t) /\ NoPlace(t)
  /\ task' = [task EXCEPT ![t] = Idle] /\ guard' = None
  /\ UNCHANGED <<pool, doomed, conn, sweep, hung, asks, faults>>

-----------------------------------------------------------------------------
(* Using *)

Mine(t) == conn[task[t].conn]
Fresh(t) == [selected |-> task[t].folder, login |-> task[t].secret, live |-> TRUE]

\* No session, one unused for too long, or one of an older login.
NeedsLogin(t) ==
  \/ Mine(t).box = None \/ Mine(t).expired
  \/ Mine(t).binding # None /\ Mine(t).binding # task[t].secret

Renewed(t, box, bound) ==
  /\ conn' = [conn EXCEPT ![task[t].conn] =
                [@ EXCEPT !.box = box, !.binding = bound, !.folder = task[t].folder]]
  /\ task' = [task EXCEPT ![t].at = "use"]

\* _ensure_box sends nothing where the folder is the right one,
Keep(t) ==
  /\ task[t].at = "renew" /\ ~NeedsLogin(t) /\ Mine(t).folder = task[t].folder
  /\ task' = [task EXCEPT ![t].at = "use"]
  /\ UNCHANGED <<pool, guard, doomed, conn, sweep, hung, asks, faults>>

\* selects another folder on the session there is,
Select(t) ==
  /\ task[t].at = "renew" /\ ~NeedsLogin(t) /\ Mine(t).folder # task[t].folder
  /\ Mine(t).box.live
  /\ Renewed(t, [Mine(t).box EXCEPT !.selected = task[t].folder], Mine(t).binding)
  /\ UNCHANGED <<pool, guard, doomed, sweep, hung, asks, faults>>

\* or closes the session, also after a SELECT that failed, and logs in again.
Connecting(t) == task[t].at = "renew" /\ (NeedsLogin(t) \/ Mine(t).folder # task[t].folder)

Connect(t) ==
  /\ Connecting(t)
  /\ Renewed(t, Fresh(t), task[t].secret)
  /\ UNCHANGED <<pool, guard, doomed, sweep, hung, asks, faults>>

\* What follows the use of a connection: it is free, and a sweep may be due.
GiveBack(t, c) ==
  /\ conn' = [conn EXCEPT ![task[t].conn] = [c EXCEPT !.lock = None, !.holder = "none"]]
  /\ task' = [task EXCEPT ![t] = Idle]
  /\ \/ UNCHANGED sweep
     \/ sweep = Resting /\ sweep' = [Resting EXCEPT !.at = "start"]
  /\ hung' = hung \ {t}
  /\ UNCHANGED <<pool, guard, doomed, asks, faults>>

\* The operation is over.  Some catch failures of the server themselves
\* (_status_of, hole), so the session may be dead.
Return(t) ==
  /\ task[t].at = "use"
  /\ GiveBack(t, [Mine(t) EXCEPT !.expired = FALSE])

\* The operation, the login or a step in between failed: the session is closed.
Fail(t) ==
  /\ task[t].at = "use" \/ Connecting(t)
  /\ GiveBack(t, [Mine(t) EXCEPT !.box = None, !.folder = None])

InSession(t, f, at) ==
  /\ conn' = [conn EXCEPT ![task[t].conn] = [@ EXCEPT !.box.selected = f]]
  /\ task' = [task EXCEPT ![t].at = at]
  /\ UNCHANGED <<pool, guard, doomed, sweep, hung, asks, faults>>

\* ensure_default_folders empties another folder in the course of its work
Leave(t, f) ==
  /\ task[t].at = "use" /\ t \in Background /\ task[t].folder = Inbox
  /\ f # Inbox /\ Mine(t).box.live
  /\ InSession(t, f, "away")

\* Mutant: the other folder stays selected.
StayAway(t) == task[t].at = "away" /\ InSession(t, Mine(t).box.selected, "use")

\* and returns to the inbox; a server that refuses leaves no folder selected.  A
\* failure to return is not reported.
Back(t) ==
  /\ task[t].at = "away"
  /\ \E f \in IF Mine(t).box.live THEN {Inbox, None} ELSE {Mine(t).box.selected} :
       InSession(t, f, "use")

-----------------------------------------------------------------------------
(* The sweep *)

\* _reap_idle looks at the connections there are when it comes to this account,
SweepList ==
  /\ sweep.at = "start" /\ guard = None
  /\ sweep' = [sweep EXCEPT !.at = "sweep", !.left = pool]
  /\ UNCHANGED <<pool, guard, doomed, conn, task, hung, asks, faults>>

\* one by one, whether they have been unused for too long;
SweepNext ==
  /\ sweep.at = "sweep" /\ sweep.left # <<>>
  /\ sweep' = IF conn[Head(sweep.left)].expired
              THEN [at |-> "aged", left |-> Tail(sweep.left), conn |-> Head(sweep.left)]
              ELSE [sweep EXCEPT !.left = Tail(@)]
  /\ UNCHANGED <<pool, guard, doomed, conn, task, hung, asks, faults>>

\* Mutant: it is not asked again whether somebody has the connection.
AnyAged == conn[sweep.conn].expired

Closable == conn[sweep.conn].lock = None /\ conn[sweep.conn].expired

\* takes one that nobody holds and is still that old and closes its session, while
\* it stays locked and counted;
SweepClose ==
  /\ sweep.at = "aged"
  /\ IF Closable
     THEN /\ conn' = [conn EXCEPT ![sweep.conn] =
                        [@ EXCEPT !.lock = Sweeper, !.box = None, !.folder = None]]
          /\ sweep' = [sweep EXCEPT !.at = "closing"]
     ELSE /\ sweep' = [sweep EXCEPT !.at = "sweep", !.conn = None]
          /\ UNCHANGED conn
  /\ UNCHANGED <<pool, guard, doomed, task, hung, asks, faults>>

\* and removes this one from the list as it is by then.
SweepRemove ==
  /\ sweep.at = "closing" /\ guard = None
  /\ pool' = Without(pool, sweep.conn)
  /\ conn' = [conn EXCEPT ![sweep.conn].lock = None]
  /\ sweep' = [sweep EXCEPT !.at = "sweep", !.conn = None]
  /\ UNCHANGED <<guard, doomed, task, hung, asks, faults>>

SweepEnd ==
  /\ sweep.at = "sweep" /\ sweep.left = <<>>
  /\ sweep' = Resting
  /\ UNCHANGED <<pool, guard, doomed, conn, task, hung, asks, faults>>

Sweep == SweepList \/ SweepNext \/ SweepClose \/ SweepRemove \/ SweepEnd

-----------------------------------------------------------------------------
(* Time and the server *)

\* A connection has not been used for _IDLE_TTL.
Expire(c) ==
  /\ c \in Elements(pool) /\ conn[c].lock = None /\ ~conn[c].expired
  /\ conn' = [conn EXCEPT ![c].expired = TRUE]
  /\ UNCHANGED <<pool, guard, doomed, task, sweep, hung, asks, faults>>

\* An operation has held it for _STUCK_AFTER.
Overdue(c) ==
  /\ conn[c].holder = "new"
  /\ conn' = [conn EXCEPT ![c].holder = "stuck"]
  /\ UNCHANGED <<pool, guard, doomed, task, sweep, hung, asks, faults>>

\* A read from the server that no timeout ends.
Hang(t) ==
  /\ task[t].at \in {"renew", "use", "away"} /\ t \notin hung /\ Cardinality(hung) < MaxHung
  /\ hung' = hung \cup {t}
  /\ UNCHANGED <<pool, guard, doomed, conn, task, sweep, asks, faults>>

Drop(c) ==
  /\ conn[c].box # None /\ conn[c].box.live /\ faults < MaxFaults
  /\ conn' = [conn EXCEPT ![c] = [@ EXCEPT !.box.live = FALSE]]
  /\ faults' = faults + 1
  /\ UNCHANGED <<pool, guard, doomed, task, sweep, hung, asks>>

Borrow(t) == FindStuck(t) \/ Evict(t) \/ Stumble(t) \/ Reuse(t) \/ Grow(t)
Renew(t) == Keep(t) \/ Select(t) \/ Connect(t)
Finish(t) == Return(t) \/ Fail(t)

Next ==
  \/ \E t \in Threads :
       \/ \E f \in Folders, s \in Secrets : Ask(t, f, s)
       \/ \E f \in Folders : Leave(t, f)
       \/ Borrow(t) \/ Wait(t) \/ Busy(t)
       \/ Renew(t) \/ Finish(t) \/ Back(t) \/ Hang(t)
  \/ Sweep
  \/ \E c \in Conns : Expire(c) \/ Overdue(c) \/ Drop(c)

Spec == Init /\ [][Next]_vars

\* Every thread goes on unless it hangs, time passes, and socket timeouts end the
\* LOGOUT of a sweep.
FairSpec ==
  /\ Spec
  /\ \A t \in Threads : /\ WF_vars(Borrow(t)) /\ WF_vars(Wait(t))
                        /\ WF_vars(t \notin hung /\ Renew(t))
                        /\ WF_vars(t \notin hung /\ (Finish(t) \/ Back(t)))
  /\ \A c \in Conns : WF_vars(Overdue(c))
  /\ WF_vars(Sweep)

-----------------------------------------------------------------------------
(* Properties *)

TypeOK ==
  /\ pool \in Seq(Conns) /\ Len(pool) <= PoolSize + PoolExtra
  /\ guard \in Threads \cup {None} /\ doomed \subseteq Conns
  /\ conn \in [Conns -> Connections] /\ task \in [Threads -> Operations]
  /\ sweep \in Sweeps /\ hung \subseteq Threads
  /\ asks \in 0..MaxAsks /\ faults \in 0..MaxFaults

Holds(t) == task[t].at \in {"renew", "use", "away"}
Using(t) == task[t].at = "use" /\ Mine(t).box # None /\ Mine(t).box.live

\* Whoever works with a connection holds it alone and nobody closes its session:
\* neither another operation that took it, nor the sweep that looked at it before.
OwnSession ==
  \A t \in Threads :
    Holds(t) => Mine(t).lock = t /\ (task[t].at # "renew" => Mine(t).box # None)

\* No operation works in a folder other than its own, although its session was
\* left by another one and no command checks where it is.
RightFolder == \A t \in Threads : Using(t) => Mine(t).box.selected \in {task[t].folder, None}

\* No operation works in a session of other login data than it was given.
RightLogin == \A t \in Threads : Using(t) => Mine(t).box.login = task[t].secret

\* Both: nobody works on other mails, or with other rights, than he was given.
RightSession == RightFolder /\ RightLogin

\* However places are taken, given back, evicted and swept, an operation of the
\* user finds no place only if others of his, or the sweep, hold all extra ones:
\* never because of the background.
UsersFindPlace ==
  Len(pool) = PoolSize + PoolExtra /\ (\A c \in Elements(pool) : conn[c].lock # None) =>
    \A i \in PoolSize + 1 .. PoolSize + PoolExtra : conn[pool[i]].lock \in Interactive \cup {Sweeper}

\* A connection in use leaves the pool only after being held for too long, and is
\* counted until then: no sweep writes back an older list.
UsedIsPooled ==
  \A c \in Conns : conn[c].lock \in Threads /\ conn[c].holder # "stuck" => c \in Elements(pool)

\* As long as one thread hangs, however long, the others get their place: nobody
\* waits for ever, even if he would never give up.
HungBlockNobody == \A t \in Threads : task[t].at \in {"wait", "evict"} ~> task[t].at \notin {"wait", "evict"}
=============================================================================
