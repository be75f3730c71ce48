--------------------------- MODULE ImapPool_proofs ---------------------------
(* The IMAP connections of an account for any threads, folders, logins and     *)
(* sizes of the pool: who works with a session does so alone, in his folder    *)
(* and with his login, and the background leaves the extra places to the user. *)
EXTENDS ImapPool, SequenceTheorems, TLAPS

-----------------------------------------------------------------------------
(* The list of connections *)

Distinct(s) == \A i, j \in 1..Len(s) : s[i] = s[j] => i = j

\* Removing a connection from a list keeps the others in order: each stays where
\* it was or moves one place to the front.
LEMMA WithoutIs ==
  ASSUME NEW s \in Seq(Conns), NEW c \in Conns, Distinct(s)
  PROVE  /\ Without(s, c) \in Seq(Conns)
         /\ Len(Without(s, c)) <= Len(s)
         /\ Distinct(Without(s, c))
         /\ Elements(Without(s, c)) = Elements(s) \ {c}
         /\ \A i \in 1..Len(Without(s, c)) : \E j \in 1..Len(s) : i <= j /\ Without(s, c)[i] = s[j]
<1>1. CASE c \notin Elements(s)
  <2>1. Without(s, c) = s
    BY <1>1 DEF Without
  <2> QED
    BY <1>1, <2>1 DEF Elements
<1>2. CASE c \in Elements(s)
  <2> DEFINE k == CHOOSE i \in 1..Len(s) : s[i] = c
             n == Len(s) - 1
             w == [i \in 1..n |-> IF i < k THEN s[i] ELSE s[i + 1]]
  <2>1. k \in 1..Len(s) /\ s[k] = c
    BY <1>2 DEF Elements
  <2>2. Without(s, c) = w
    BY <1>2 DEF Without
  <2> HIDE DEF k
  <2>3. Len(s) \in Nat /\ n \in Nat
    BY <2>1
  <2>4. w \in [1..n -> Conns]
    BY <2>1, <2>3
  <2>5. w \in Seq(Conns) /\ Len(w) = n
    BY <2>3, <2>4, SeqDef
  <2>6. \A i \in 1..n : w[i] = IF i < k THEN s[i] ELSE s[i + 1]
    OBVIOUS
  <2> HIDE DEF w
  <2>7. Distinct(w)
    BY <2>1, <2>3, <2>5, <2>6 DEF Distinct
  <2>8. Elements(w) = Elements(s) \ {c}
    <3>1. ASSUME NEW x \in Elements(w) PROVE x \in Elements(s) \ {c}
      <4>1. PICK i \in 1..n : x = w[i]
        BY <2>5 DEF Elements
      <4>2. PICK j \in 1..Len(s) : j # k /\ x = s[j]
        <5>1. CASE i < k
          BY <2>1, <2>3, <2>6, <4>1, <5>1
        <5>2. CASE ~(i < k)
          <6>1. i + 1 \in 1..Len(s) /\ i + 1 # k /\ x = s[i + 1]
            BY <2>1, <2>3, <2>6, <4>1, <5>2
          <6> QED
            BY <6>1
        <5> QED
          BY <5>1, <5>2
      <4> QED
        BY <2>1, <4>2 DEF Elements, Distinct
    <3>2. ASSUME NEW x \in Elements(s) \ {c} PROVE x \in Elements(w)
      <4>1. PICK j \in 1..Len(s) : x = s[j]
        BY DEF Elements
      <4>2. j # k
        BY <2>1, <4>1
      <4>3. CASE j < k
        <5>1. j \in 1..n /\ w[j] = x
          BY <2>1, <2>3, <2>6, <4>1, <4>3
        <5> QED
          BY <2>5, <5>1 DEF Elements
      <4>4. CASE j > k
        <5>1. j - 1 \in 1..n /\ w[j - 1] = x
          BY <2>1, <2>3, <2>6, <4>1, <4>4
        <5> QED
          BY <2>5, <5>1 DEF Elements
      <4> QED
        BY <2>1, <4>2, <4>3, <4>4
    <3> QED
      BY <3>1, <3>2
  <2>9. \A i \in 1..n : \E j \in 1..Len(s) : i <= j /\ w[i] = s[j]
    <3> TAKE i \in 1..n
    <3>1. CASE i < k
      BY <2>1, <2>3, <2>6, <3>1
    <3>2. CASE ~(i < k)
      <4>1. i + 1 \in 1..Len(s) /\ i <= i + 1 /\ w[i] = s[i + 1]
        BY <2>1, <2>3, <2>6, <3>2
      <4> QED
        BY <4>1
    <3> QED
      BY <3>1, <3>2
  <2> QED
    BY <2>2, <2>3, <2>5, <2>7, <2>8, <2>9
<1> QED
  BY <1>1, <1>2

\* A new connection comes last.
LEMMA AppendIs ==
  ASSUME NEW s \in Seq(Conns), NEW c \in Conns, c \notin Elements(s), Distinct(s)
  PROVE  /\ Append(s, c) \in Seq(Conns)
         /\ Len(Append(s, c)) = Len(s) + 1
         /\ Distinct(Append(s, c))
         /\ Elements(Append(s, c)) = Elements(s) \cup {c}
         /\ \A i \in 1..Len(s) : Append(s, c)[i] = s[i]
         /\ Append(s, c)[Len(s) + 1] = c
<1> DEFINE a == Append(s, c)
<1>1. /\ a \in Seq(Conns) /\ Len(a) = Len(s) + 1 /\ Len(s) \in Nat
      /\ \A i \in 1..Len(s) : a[i] = s[i]
      /\ a[Len(s) + 1] = c
  OBVIOUS
<1> HIDE DEF a
<1>2. Distinct(a)
  BY <1>1 DEF Distinct, Elements
<1>3. Elements(a) = Elements(s) \cup {c}
  <2>1. ASSUME NEW x \in Elements(a) PROVE x \in Elements(s) \cup {c}
    BY <1>1 DEF Elements
  <2>2. ASSUME NEW x \in Elements(s) PROVE x \in Elements(a)
    BY <1>1 DEF Elements
  <2>3. c \in Elements(a)
    BY <1>1 DEF Elements
  <2> QED
    BY <2>1, <2>2, <2>3
<1> QED
  BY <1>1, <1>2, <1>3 DEF a

-----------------------------------------------------------------------------
(* Types *)

\* The kinds of state but for the bounds of the pool.
Typed ==
  /\ pool \in Seq(Conns)
  /\ guard \in Threads \cup {None} /\ doomed \subseteq Conns
  /\ conn \in [Conns -> Connections] /\ task \in [Threads -> Operations]
  /\ sweep \in Sweeps /\ hung \subseteq Threads

\* Who holds a connection has one; an operation begun has a folder and a login.
Placed == /\ \A t \in Threads : Holds(t) => task[t].conn \in Conns
          /\ \A t \in Threads : task[t].at \notin {"idle", "error"} =>
                                   task[t].folder \in Folders /\ task[t].secret \in Secrets
          /\ sweep.at \in {"aged", "closing"} => sweep.conn \in Conns

LEMMA TypedInit == Init => Typed /\ Placed
<1> SUFFICES ASSUME Init PROVE Typed /\ Placed
  OBVIOUS
<1>1. NewConn \in Connections
  BY DEF NewConn, Connections
<1>2. Idle \in Operations
  BY DEF Idle, Operations
<1>3. Resting \in Sweeps /\ pool \in Seq(Conns)
  BY DEF Init, Resting, Sweeps
<1> QED
  BY <1>1, <1>2, <1>3 DEF Init, Typed, Placed, Holds, Idle, Resting

\* What a new session, a session used and a connection changed are.
LEMMA ConnectionsTyped ==
  ASSUME NEW k \in Connections
  PROVE  /\ \A l \in Threads \cup {Sweeper, None}, h \in {"none", "new", "stuck"} :
              [k EXCEPT !.lock = l, !.holder = h] \in Connections
         /\ \A b \in Sessions \cup {None}, s \in Secrets \cup {None}, f \in Folders \cup {None} :
              [k EXCEPT !.box = b, !.binding = s, !.folder = f] \in Connections
         /\ \A b \in Sessions \cup {None} : [k EXCEPT !.box = b] \in Connections
         /\ \A l \in Threads \cup {Sweeper, None} : [k EXCEPT !.lock = l] \in Connections
         /\ \A e \in BOOLEAN : [k EXCEPT !.expired = e] \in Connections
         /\ \A h \in {"none", "new", "stuck"} : [k EXCEPT !.holder = h] \in Connections
         /\ [k EXCEPT !.box = None, !.folder = None] \in Connections
         /\ [k EXCEPT !.lock = Sweeper, !.box = None, !.folder = None] \in Connections
BY DEF Connections

\* One connection changes, or one operation.
OnConn(c) == \A d \in Conns : d # c => conn'[d] = conn[d]
OnTask(t) == \A u \in Threads : u # t => task'[u] = task[u]

\* Another connection is lent: it was free and within reach.
LEMMA ReuseIs ==
  ASSUME Typed, Placed, NEW t \in Threads, Reuse(t)
  PROVE  /\ UNCHANGED <<pool, doomed, sweep, hung>> /\ guard' = None
         /\ Looking(t)
         /\ task' \in [Threads -> Operations] /\ OnTask(t)
         /\ task'[t].at = "renew"
         /\ task'[t].folder = task[t].folder /\ task'[t].secret = task[t].secret
         /\ \E i \in 1..Len(pool) :
              LET c == pool[i]
              IN  /\ i <= Limit(t) /\ c \in Conns /\ conn[c].lock = None
                  /\ task'[t].conn = c
                  /\ conn' \in [Conns -> Connections] /\ OnConn(c)
                  /\ conn'[c].lock = t /\ conn'[c].holder = "new"
                  /\ conn'[c].box = conn[c].box /\ conn'[c].folder = conn[c].folder
                  /\ conn'[c].binding = conn[c].binding
<1>1. PICK i \in Preferred(t) :
        /\ conn' = [conn EXCEPT ![pool[i]].lock = t, ![pool[i]].holder = "new"]
        /\ Lend(t, pool[i])
  BY DEF Reuse
<1>2. i \in 1..Len(pool) /\ i <= Limit(t) /\ conn[pool[i]].lock = None
  BY DEF Preferred, Fitting, Free, Reach
<1> DEFINE c == pool[i]
<1>3. c \in Conns
  BY <1>2 DEF Typed
<1>4. conn' = [conn EXCEPT ![c] = [conn[c] EXCEPT !.lock = t, !.holder = "new"]]
  BY <1>1, <1>3 DEF Typed
<1>5. /\ task' \in [Threads -> Operations] /\ OnTask(t)
      /\ task'[t].at = "renew" /\ task'[t].conn = c
      /\ task'[t].folder = task[t].folder /\ task'[t].secret = task[t].secret
  BY <1>1, <1>3 DEF Typed, Operations, OnTask, Lend
<1> HIDE DEF c
<1>6. /\ conn' \in [Conns -> Connections] /\ OnConn(c)
      /\ conn'[c] = [conn[c] EXCEPT !.lock = t, !.holder = "new"]
  BY <1>3, <1>4, ConnectionsTyped DEF Typed, OnConn
<1>7. /\ conn'[c].lock = t /\ conn'[c].holder = "new"
      /\ conn'[c].box = conn[c].box /\ conn'[c].folder = conn[c].folder
      /\ conn'[c].binding = conn[c].binding
  BY <1>3, <1>6 DEF Typed, Connections
<1> QED
  BY <1>1, <1>2, <1>3, <1>5, <1>6, <1>7 DEF c, Reuse, Lend

\* A new connection is lent, and the list has room for it.
LEMMA GrowIs ==
  ASSUME Typed, Placed, NEW t \in Threads, Grow(t)
  PROVE  /\ UNCHANGED <<doomed, sweep, hung>> /\ guard' = None
         /\ Looking(t) /\ Len(pool) < Limit(t)
         /\ task' \in [Threads -> Operations] /\ OnTask(t)
         /\ task'[t].at = "renew"
         /\ task'[t].folder = task[t].folder /\ task'[t].secret = task[t].secret
         /\ \E c \in Unused :
              /\ pool' = Append(pool, c) /\ task'[t].conn = c
              /\ conn' \in [Conns -> Connections] /\ OnConn(c)
              /\ conn'[c].lock = t /\ conn'[c].holder = "new" /\ conn'[c].box = None
<1> DEFINE c == CHOOSE x \in Unused : TRUE
           n == [NewConn EXCEPT !.lock = t, !.holder = "new"]
<1>1. c \in Unused /\ c \in Conns
  BY DEF Grow, Unused
<1>2. pool' = Append(pool, c) /\ conn' = [conn EXCEPT ![c] = n] /\ Lend(t, c)
  BY DEF Grow
<1> HIDE DEF c
<1>3. n \in Connections /\ n.lock = t /\ n.holder = "new" /\ n.box = None
  <2>1. NewConn \in Connections /\ NewConn.box = None
    BY DEF NewConn, Connections
  <2>2. n \in Connections
    BY <2>1, ConnectionsTyped
  <2> QED
    BY <2>1, <2>2 DEF Connections
<1> HIDE DEF n
<1>4. /\ task' \in [Threads -> Operations] /\ OnTask(t)
      /\ task'[t].at = "renew" /\ task'[t].conn = c
      /\ task'[t].folder = task[t].folder /\ task'[t].secret = task[t].secret
  BY <1>1, <1>2 DEF Typed, Operations, OnTask, Lend
<1>5. conn' \in [Conns -> Connections] /\ OnConn(c) /\ conn'[c] = n
  BY <1>1, <1>2, <1>3 DEF Typed, OnConn
<1>6. /\ UNCHANGED <<doomed, sweep, hung>> /\ guard' = None
      /\ Looking(t) /\ Len(pool) < Limit(t)
  BY <1>2 DEF Grow, Lend, Room
<1> QED
  BY <1>1, <1>2, <1>3, <1>4, <1>5, <1>6

\* The session of a connection changes in the hands of its operation.
LEMMA RenewedIs ==
  ASSUME Typed, Placed, NEW t \in Threads, task[t].at = "renew",
         NEW b \in Sessions, NEW s \in Secrets \cup {None}, Renewed(t, b, s)
  PROVE  LET c == task[t].conn
         IN  /\ c \in Conns /\ OnConn(c) /\ OnTask(t)
             /\ conn' \in [Conns -> Connections] /\ task' \in [Threads -> Operations]
             /\ conn'[c].lock = conn[c].lock /\ conn'[c].holder = conn[c].holder
             /\ conn'[c].box = b /\ conn'[c].binding = s
             /\ conn'[c].folder = task[t].folder
             /\ task'[t].at = "use" /\ task'[t].conn = c
             /\ task'[t].folder = task[t].folder /\ task'[t].secret = task[t].secret
<1> DEFINE c == task[t].conn
           n == [conn[c] EXCEPT !.box = b, !.binding = s, !.folder = task[t].folder]
<1>1. c \in Conns
  BY DEF Placed, Holds
<1>2. /\ task' \in [Threads -> Operations] /\ OnTask(t)
      /\ task'[t].at = "use" /\ task'[t].conn = c
      /\ task'[t].folder = task[t].folder /\ task'[t].secret = task[t].secret
  BY DEF Renewed, Typed, Operations, OnTask
<1>3. conn' = [conn EXCEPT ![c] = n]
  BY DEF Renewed
<1>4. /\ n \in Connections /\ n.lock = conn[c].lock /\ n.holder = conn[c].holder
      /\ n.box = b /\ n.binding = s /\ n.folder = task[t].folder
  <2>1. conn[c] \in Connections /\ task[t].folder \in Folders
    BY <1>1 DEF Typed, Placed
  <2>2. n \in Connections
    BY <2>1, ConnectionsTyped
  <2> QED
    BY <2>1, <2>2 DEF Connections
<1> HIDE DEF c, n
<1>5. conn' \in [Conns -> Connections] /\ OnConn(c) /\ conn'[c] = n
  BY <1>1, <1>3, <1>4 DEF Typed, OnConn
<1> QED
  BY <1>1, <1>2, <1>4, <1>5 DEF c

\* A connection is given back: free, with its session closed after a failure.
LEMMA GiveBackIs ==
  ASSUME Typed, Placed, NEW t \in Threads, Finish(t)
  PROVE  LET c == task[t].conn
         IN  /\ UNCHANGED <<pool, guard, doomed>> /\ hung' \subseteq Threads
             /\ Holds(t) /\ c \in Conns /\ OnConn(c) /\ OnTask(t)
             /\ conn' \in [Conns -> Connections] /\ task' \in [Threads -> Operations]
             /\ conn'[c].lock = None /\ conn'[c].holder = "none"
             /\ \/ /\ task[t].at = "use" /\ conn'[c].box = conn[c].box
                   /\ conn'[c].folder = conn[c].folder /\ conn'[c].binding = conn[c].binding
                \/ conn'[c].box = None
             /\ task'[t].at = "idle"
             /\ \/ UNCHANGED sweep
                \/ sweep = Resting /\ sweep' = [Resting EXCEPT !.at = "start"]
<1> DEFINE c == task[t].conn
           n(k) == [k EXCEPT !.lock = None, !.holder = "none"]
<1>1. Holds(t) /\ c \in Conns /\ conn[c] \in Connections
  BY DEF Finish, Return, Fail, Connecting, Placed, Holds, Typed
<1>2. PICK k : /\ GiveBack(t, k)
               /\ \/ task[t].at = "use" /\ k = [conn[c] EXCEPT !.expired = FALSE]
                  \/ k = [conn[c] EXCEPT !.box = None, !.folder = None]
  BY DEF Finish, Return, Fail, Mine
<1>3. /\ k \in Connections
      /\ \/ /\ task[t].at = "use" /\ k.box = conn[c].box
            /\ k.folder = conn[c].folder /\ k.binding = conn[c].binding
         \/ k.box = None
  <2>1. CASE task[t].at = "use" /\ k = [conn[c] EXCEPT !.expired = FALSE]
    <3>1. k \in Connections
      BY <1>1, <2>1, ConnectionsTyped
    <3> QED
      BY <1>1, <2>1, <3>1 DEF Connections
  <2>2. CASE k = [conn[c] EXCEPT !.box = None, !.folder = None]
    <3>1. k \in Connections
      BY <1>1, <2>2, ConnectionsTyped
    <3> QED
      BY <1>1, <2>2, <3>1 DEF Connections
  <2> QED
    BY <1>2, <2>1, <2>2
<1>4. /\ n(k) \in Connections /\ n(k).lock = None /\ n(k).holder = "none"
      /\ n(k).box = k.box /\ n(k).folder = k.folder /\ n(k).binding = k.binding
  <2>1. n(k) \in Connections
    BY <1>3, ConnectionsTyped
  <2> QED
    BY <1>3, <2>1 DEF Connections
<1>5. conn' = [conn EXCEPT ![c] = n(k)]
  BY <1>2 DEF GiveBack
<1> HIDE DEF n
<1>6. conn' \in [Conns -> Connections] /\ OnConn(c) /\ conn'[c] = n(k)
  BY <1>1, <1>4, <1>5 DEF Typed, OnConn
<1>7. task' \in [Threads -> Operations] /\ OnTask(t) /\ task'[t].at = "idle"
  BY <1>2 DEF GiveBack, Typed, Operations, OnTask, Idle
<1>8. \/ UNCHANGED sweep
      \/ sweep = Resting /\ sweep' = [Resting EXCEPT !.at = "start"]
  BY <1>2 DEF GiveBack
<1>9. UNCHANGED <<pool, guard, doomed>> /\ hung' \subseteq Threads
  BY <1>2 DEF GiveBack, Typed
<1> QED
  BY <1>1, <1>3, <1>4, <1>6, <1>7, <1>8, <1>9

\* Another folder is selected in a session.
LEMMA InSessionIs ==
  ASSUME Typed, Placed, NEW t \in Threads, Holds(t), NEW f \in Folders \cup {None},
         NEW at \in {"use", "away"}, InSession(t, f, at), conn[task[t].conn].box # None
  PROVE  LET c == task[t].conn
         IN  /\ c \in Conns /\ OnConn(c) /\ OnTask(t)
             /\ conn' \in [Conns -> Connections] /\ task' \in [Threads -> Operations]
             /\ conn'[c].lock = conn[c].lock /\ conn'[c].holder = conn[c].holder
             /\ conn'[c].folder = conn[c].folder /\ conn'[c].binding = conn[c].binding
             /\ conn'[c].box # None
             /\ conn'[c].box.selected = f /\ conn'[c].box.login = conn[c].box.login
             /\ conn'[c].box.live = conn[c].box.live
             /\ task'[t].at = at /\ task'[t].conn = c
             /\ task'[t].folder = task[t].folder /\ task'[t].secret = task[t].secret
<1> DEFINE c == task[t].conn
           b == [conn[c].box EXCEPT !.selected = f]
           n == [conn[c] EXCEPT !.box = b]
<1>1. c \in Conns /\ conn[c] \in Connections
  BY DEF Placed, Holds, Typed
<1>2. conn[c].box \in Sessions
  BY <1>1 DEF Connections
<1>3. b \in Sessions /\ b.selected = f /\ b.login = conn[c].box.login /\ b.live = conn[c].box.live
  BY <1>2 DEF Sessions
<1>4. b # None
  BY <1>3, SessionAssumption
<1>5. conn' = [conn EXCEPT ![c] = n]
  BY DEF InSession
<1> HIDE DEF b
<1>6. /\ n \in Connections /\ n.box = b /\ n.lock = conn[c].lock
      /\ n.holder = conn[c].holder /\ n.folder = conn[c].folder /\ n.binding = conn[c].binding
  <2>1. n \in Connections
    BY <1>1, <1>3, ConnectionsTyped
  <2> QED
    BY <1>1, <2>1 DEF Connections
<1> HIDE DEF n
<1>7. conn' \in [Conns -> Connections] /\ OnConn(c) /\ conn'[c] = n
  BY <1>1, <1>5, <1>6 DEF Typed, OnConn
<1>8. /\ task' \in [Threads -> Operations] /\ OnTask(t)
      /\ task'[t].at = at /\ task'[t].conn = c
      /\ task'[t].folder = task[t].folder /\ task'[t].secret = task[t].secret
  BY DEF InSession, Typed, Operations, OnTask
<1> QED
  BY <1>1, <1>3, <1>4, <1>6, <1>7, <1>8

\* The sweep looks around, or takes a connection nobody holds, or lets it go.
LEMMA SweepIs ==
  ASSUME Typed, Placed, Sweep
  PROVE  /\ UNCHANGED <<guard, doomed, task, hung>> /\ sweep' \in Sweeps
         /\ sweep'.at \in {"aged", "closing"} => sweep'.conn \in Conns
         /\ \/ /\ UNCHANGED <<conn, pool>>
               /\ sweep.at # "closing" /\ sweep'.at # "closing"
            \/ LET c == sweep.conn
               IN  /\ UNCHANGED pool /\ c \in Conns /\ sweep.at = "aged" /\ conn[c].lock = None
                   /\ conn' \in [Conns -> Connections] /\ OnConn(c)
                   /\ conn'[c].lock = Sweeper /\ conn'[c].box = None
                   /\ sweep'.at = "closing" /\ sweep'.conn = c
            \/ LET c == sweep.conn
               IN  /\ guard = None /\ c \in Conns /\ pool' = Without(pool, c)
                   /\ conn' \in [Conns -> Connections] /\ OnConn(c)
                   /\ conn'[c] = [conn[c] EXCEPT !.lock = None]
                   /\ sweep.at = "closing" /\ sweep'.at # "closing"
<1>1. CASE SweepList
  BY <1>1 DEF SweepList, Typed, Placed, Sweeps
<1>2. CASE SweepNext
  <2>1. Head(sweep.left) \in Conns /\ Tail(sweep.left) \in Seq(Conns)
    BY <1>2, HeadTailProperties DEF SweepNext, Typed, Sweeps
  <2>2. CASE conn[Head(sweep.left)].expired
    BY <1>2, <2>1, <2>2 DEF SweepNext, Typed, Placed, Sweeps
  <2>3. CASE ~conn[Head(sweep.left)].expired
    <3>1. sweep' = [sweep EXCEPT !.left = Tail(sweep.left)]
      BY <1>2, <2>3 DEF SweepNext
    <3> QED
      BY <1>2, <2>1, <3>1 DEF SweepNext, Typed, Placed, Sweeps
  <2> QED
    BY <2>2, <2>3
<1>3. CASE SweepClose
  <2> DEFINE c == sweep.conn
             n == [conn[c] EXCEPT !.lock = Sweeper, !.box = None, !.folder = None]
  <2>1. c \in Conns /\ conn[c] \in Connections
    BY <1>3 DEF SweepClose, Placed, Typed
  <2>2. CASE conn[c].lock = None /\ conn[c].expired
    <3>1. conn' = [conn EXCEPT ![c] = n] /\ sweep' = [sweep EXCEPT !.at = "closing"]
      BY <1>3, <2>2 DEF SweepClose, Closable
    <3>2. n \in Connections /\ n.lock = Sweeper /\ n.box = None
      <4>1. n \in Connections
        BY <2>1, ConnectionsTyped
      <4> QED
        BY <2>1 DEF Connections
    <3> HIDE DEF n
    <3>3. conn' \in [Conns -> Connections] /\ OnConn(c) /\ conn'[c] = n
      BY <2>1, <3>1, <3>2 DEF Typed, OnConn
    <3> QED
      BY <1>3, <2>1, <2>2, <3>1, <3>2, <3>3 DEF SweepClose, Typed, Sweeps
  <2>3. CASE ~(conn[c].lock = None /\ conn[c].expired)
    <3>1. conn' = conn /\ sweep' = [sweep EXCEPT !.at = "sweep", !.conn = None]
      BY <1>3, <2>3 DEF SweepClose, Closable
    <3> QED
      BY <1>3, <3>1 DEF SweepClose, Typed, Sweeps
  <2> QED
    BY <2>2, <2>3
<1>4. CASE SweepRemove
  <2> DEFINE c == sweep.conn
             n == [conn[c] EXCEPT !.lock = None]
  <2>1. c \in Conns /\ conn[c] \in Connections
    BY <1>4 DEF SweepRemove, Placed, Typed
  <2>2. conn' = [conn EXCEPT ![c] = n] /\ sweep' = [sweep EXCEPT !.at = "sweep", !.conn = None]
    BY <1>4, <2>1 DEF SweepRemove, Typed
  <2>3. n \in Connections
    BY <2>1, ConnectionsTyped
  <2>4. conn' \in [Conns -> Connections] /\ OnConn(c) /\ conn'[c] = n
    <3> HIDE DEF n
    <3> QED
      BY <2>1, <2>2, <2>3 DEF Typed, OnConn
  <2> QED
    BY <1>4, <2>1, <2>2, <2>4 DEF SweepRemove, Typed, Sweeps
<1>5. CASE SweepEnd
  BY <1>5 DEF SweepEnd, Typed, Placed, Sweeps, Resting
<1> QED
  BY <1>1, <1>2, <1>3, <1>4, <1>5 DEF Sweep

\* Time passes, or the server drops a session: nobody gets or loses a connection.
LEMMA PassingIs ==
  ASSUME Typed, Placed, NEW c \in Conns, Expire(c) \/ Overdue(c) \/ Drop(c)
  PROVE  /\ UNCHANGED <<pool, guard, doomed, task, sweep, hung>>
         /\ conn' \in [Conns -> Connections] /\ OnConn(c)
         /\ conn'[c].lock = conn[c].lock
         /\ \/ conn'[c].holder = conn[c].holder
            \/ conn[c].holder = "new" /\ conn'[c].holder = "stuck"
         /\ conn'[c].folder = conn[c].folder /\ conn'[c].binding = conn[c].binding
         /\ \/ conn'[c].box = conn[c].box
            \/ /\ conn[c].box # None /\ conn'[c].box # None
               /\ conn'[c].box.login = conn[c].box.login /\ ~conn'[c].box.live
<1>0. conn[c] \in Connections
  BY DEF Typed
<1>1. CASE Expire(c)
  <2> DEFINE n == [conn[c] EXCEPT !.expired = TRUE]
  <2>1. conn' = [conn EXCEPT ![c] = n]
    BY <1>1 DEF Expire, Typed
  <2>2. n \in Connections
    BY <1>0, ConnectionsTyped
  <2>3. conn' \in [Conns -> Connections] /\ OnConn(c) /\ conn'[c] = n
    BY <2>1, <2>2 DEF Typed, OnConn
  <2> QED
    BY <1>0, <1>1, <2>2, <2>3 DEF Expire, Connections
<1>2. CASE Overdue(c)
  <2> DEFINE n == [conn[c] EXCEPT !.holder = "stuck"]
  <2>1. conn' = [conn EXCEPT ![c] = n]
    BY <1>2 DEF Overdue, Typed
  <2>2. n \in Connections
    BY <1>0, ConnectionsTyped
  <2>3. conn' \in [Conns -> Connections] /\ OnConn(c) /\ conn'[c] = n
    BY <2>1, <2>2 DEF Typed, OnConn
  <2> QED
    BY <1>0, <1>2, <2>2, <2>3 DEF Overdue, Connections
<1>3. CASE Drop(c)
  <2> DEFINE b == [conn[c].box EXCEPT !.live = FALSE]
             n == [conn[c] EXCEPT !.box = b]
  <2>1. conn' = [conn EXCEPT ![c] = n]
    BY <1>3 DEF Drop, Typed
  <2>2. b \in Sessions /\ b.login = conn[c].box.login /\ ~b.live
    BY <1>0, <1>3 DEF Drop, Connections, Sessions
  <2>3. b # None
    BY <2>2, SessionAssumption
  <2> HIDE DEF b
  <2>4. n \in Connections
    BY <1>0, <2>2, ConnectionsTyped
  <2>5. n.box = b /\ n.lock = conn[c].lock /\ n.holder = conn[c].holder
        /\ n.folder = conn[c].folder /\ n.binding = conn[c].binding
    BY <1>0, <2>4 DEF Connections
  <2> HIDE DEF n
  <2>6. conn' \in [Conns -> Connections] /\ OnConn(c) /\ conn'[c] = n
    BY <2>1, <2>4 DEF Typed, OnConn
  <2> QED
    BY <1>3, <2>2, <2>3, <2>5, <2>6 DEF Drop
<1> QED
  BY <1>1, <1>2, <1>3

\* Looking for a connection without finding one touches none.
LEMMA QuietIs ==
  ASSUME Typed, Placed, NEW t \in Threads,
         \/ \E f \in Folders, s \in Secrets : Ask(t, f, s)
         \/ FindStuck(t) \/ Evict(t) \/ Stumble(t) \/ Wait(t) \/ Busy(t)
  PROVE  /\ UNCHANGED <<conn, sweep, hung>>
         /\ task' \in [Threads -> Operations] /\ OnTask(t)
         /\ task[t].at \in {"idle", "error", "wait", "evict"}
         /\ task'[t].at \in {"idle", "error", "wait", "evict"}
         /\ task'[t].at \in {"wait", "evict"} =>
              task'[t].folder \in Folders /\ task'[t].secret \in Secrets
<1>0. task[t] \in Operations /\ Idle \in Operations /\ Idle.at = "idle"
  BY DEF Typed, Idle, Operations
<1>1. CASE \E f \in Folders, s \in Secrets : Ask(t, f, s)
  BY <1>1 DEF Ask, Typed, Operations, OnTask
<1>2. CASE FindStuck(t)
  BY <1>0, <1>2 DEF FindStuck, Typed, Placed, Operations, OnTask
<1>3. CASE Evict(t)
  BY <1>0, <1>3 DEF Evict, Typed, Placed, OnTask
<1>4. CASE Stumble(t)
  <2> DEFINE e == [Idle EXCEPT !.at = "error"]
  <2>1. e \in Operations /\ e.at = "error"
    BY DEF Idle, Operations
  <2>2. task' = [task EXCEPT ![t] = e]
    BY <1>4 DEF Stumble
  <2> HIDE DEF e
  <2> QED
    BY <1>4, <2>1, <2>2 DEF Stumble, Typed, OnTask
<1>5. CASE Wait(t)
  BY <1>0, <1>5 DEF Wait, Looking, Typed, Placed, Operations, OnTask
<1>6. CASE Busy(t)
  BY <1>0, <1>6 DEF Busy, Looking, Typed, OnTask
<1> QED
  BY <1>1, <1>2, <1>3, <1>4, <1>5, <1>6

\* An operation has the session it needs: its own login, a SELECT on a session of
\* the same login, or one that was in the folder already.
LEMMA RenewIs ==
  ASSUME Typed, Placed, NEW t \in Threads, Renew(t)
  PROVE  LET c == task[t].conn
         IN  /\ UNCHANGED <<pool, guard, doomed, sweep, hung>>
             /\ task[t].at = "renew" /\ c \in Conns /\ OnConn(c) /\ OnTask(t)
             /\ conn' \in [Conns -> Connections] /\ task' \in [Threads -> Operations]
             /\ conn'[c].lock = conn[c].lock /\ conn'[c].holder = conn[c].holder
             /\ conn'[c].box # None /\ conn'[c].folder = task[t].folder
             /\ \/ /\ conn'[c].box.login = task[t].secret /\ conn'[c].binding = task[t].secret
                   /\ conn'[c].box.selected = task[t].folder
                \/ /\ conn[c].box # None /\ conn'[c].binding = conn[c].binding
                   /\ conn[c].binding \in {None, task[t].secret}
                   /\ conn'[c].box.login = conn[c].box.login
                   /\ \/ conn'[c].box = conn[c].box /\ conn[c].folder = task[t].folder
                      \/ conn'[c].box.selected = task[t].folder
             /\ task'[t].at = "use" /\ task'[t].conn = c
             /\ task'[t].folder = task[t].folder /\ task'[t].secret = task[t].secret
<1> DEFINE c == task[t].conn
<1>1. /\ task[t].at = "renew" /\ c \in Conns /\ conn[c] \in Connections
      /\ task[t].folder \in Folders /\ task[t].secret \in Secrets
  BY DEF Renew, Keep, Select, Connect, Connecting, Placed, Holds, Typed
<1>2. CASE Keep(t)
  <2>1. /\ task' \in [Threads -> Operations] /\ OnTask(t)
        /\ task'[t].at = "use" /\ task'[t].conn = c
        /\ task'[t].folder = task[t].folder /\ task'[t].secret = task[t].secret
    BY <1>2 DEF Keep, Typed, Operations, OnTask
  <2>2. conn[c].box # None /\ conn[c].binding \in {None, task[t].secret} /\ conn[c].folder = task[t].folder
    BY <1>2 DEF Keep, NeedsLogin, Mine
  <2>3. UNCHANGED <<pool, guard, doomed, conn, sweep, hung>>
    BY <1>2 DEF Keep
  <2> QED
    BY <1>1, <2>1, <2>2, <2>3 DEF OnConn, Typed
<1>3. CASE Select(t)
  <2> DEFINE b == [conn[c].box EXCEPT !.selected = task[t].folder]
  <2>1. conn[c].box # None /\ conn[c].binding \in {None, task[t].secret}
    BY <1>3 DEF Select, NeedsLogin, Mine
  <2>2. b \in Sessions /\ b.selected = task[t].folder /\ b.login = conn[c].box.login
    BY <1>1, <2>1 DEF Connections, Sessions
  <2>3. Renewed(t, b, conn[c].binding) /\ conn[c].binding \in Secrets \cup {None}
    BY <1>1, <1>3 DEF Select, Mine, Connections
  <2>4. UNCHANGED <<pool, guard, doomed, sweep, hung>>
    BY <1>3 DEF Select
  <2>5. b # None
    BY <2>2, SessionAssumption
  <2> HIDE DEF b
  <2> QED
    BY <1>1, <2>1, <2>2, <2>3, <2>4, <2>5, RenewedIs
<1>4. CASE Connect(t)
  <2> DEFINE b == Fresh(t)
  <2>1. b \in Sessions /\ b.selected = task[t].folder /\ b.login = task[t].secret
    BY <1>1 DEF Fresh, Sessions
  <2>2. Renewed(t, b, task[t].secret) /\ UNCHANGED <<pool, guard, doomed, sweep, hung>>
    BY <1>4 DEF Connect
  <2>3. b # None
    BY <2>1, SessionAssumption
  <2> HIDE DEF b
  <2> QED
    BY <1>1, <2>1, <2>2, <2>3, RenewedIs
<1> QED
  BY <1>2, <1>3, <1>4 DEF Renew

\* A session is led to another folder and back, or found dead on the way back.
LEMMA MoveIs ==
  ASSUME Typed, Placed, OwnSession, NEW t \in Threads,
         Back(t) \/ \E f \in Folders : Leave(t, f)
  PROVE  LET c == task[t].conn
         IN  /\ UNCHANGED <<pool, guard, doomed, sweep, hung>>
             /\ task[t].at \in {"use", "away"} /\ c \in Conns /\ OnConn(c) /\ OnTask(t)
             /\ conn' \in [Conns -> Connections] /\ task' \in [Threads -> Operations]
             /\ conn'[c].lock = conn[c].lock /\ conn'[c].holder = conn[c].holder
             /\ conn[c].box # None /\ conn'[c].box # None
             /\ conn'[c].folder = conn[c].folder /\ conn'[c].binding = conn[c].binding
             /\ conn'[c].box.login = conn[c].box.login
             /\ \/ task'[t].at = "away" /\ task[t].folder = Inbox
                \/ /\ task'[t].at = "use" /\ task[t].at = "away"
                   /\ ~conn'[c].box.live \/ conn'[c].box.selected \in {Inbox, None}
             /\ task'[t].conn = c
             /\ task'[t].folder = task[t].folder /\ task'[t].secret = task[t].secret
<1> DEFINE c == task[t].conn
<1>1. /\ task[t].at \in {"use", "away"} /\ Holds(t)
      /\ c \in Conns /\ conn[c] \in Connections /\ conn[c].box # None
  BY DEF Back, Leave, Placed, Holds, Typed, OwnSession, Mine
<1>2. conn[c].box \in Sessions
  BY <1>1 DEF Connections
<1>3. CASE \E f \in Folders : Leave(t, f)
  <2>1. PICK f \in Folders : Leave(t, f)
    BY <1>3
  <2>2. InSession(t, f, "away") /\ task[t].folder = Inbox
    BY <2>1 DEF Leave
  <2>3. UNCHANGED <<pool, guard, doomed, sweep, hung>>
    BY <2>2 DEF InSession
  <2> QED
    BY <1>1, <2>2, <2>3, InSessionIs
<1>4. CASE Back(t)
  <2>1. PICK f : /\ f \in IF conn[c].box.live THEN {Inbox, None} ELSE {conn[c].box.selected}
                 /\ InSession(t, f, "use")
    BY <1>4 DEF Back, Mine
  <2>2. f \in Folders \cup {None} /\ task[t].at = "away"
    BY <1>2, <1>4, <2>1, PoolAssumption DEF Back, Sessions
  <2>3. UNCHANGED <<pool, guard, doomed, sweep, hung>>
    BY <2>1 DEF InSession
  <2>4. ~conn[c].box.live \/ f \in {Inbox, None}
    BY <2>1
  <2> QED
    BY <1>1, <2>1, <2>2, <2>3, <2>4, InSessionIs
<1> QED
  BY <1>3, <1>4

-----------------------------------------------------------------------------
(* Who holds a connection *)

\* A lock and its owner know each other; the sweep closes only what it locked.
Locks ==
  /\ OwnSession
  /\ \A c \in Conns, t \in Threads : conn[c].lock = t => Holds(t) /\ task[t].conn = c
  /\ \A c \in Conns : conn[c].lock = Sweeper => sweep.at = "closing" /\ sweep.conn = c
  /\ sweep.at = "closing" => conn[sweep.conn].lock = Sweeper

Owned == Typed /\ Placed /\ Locks /\ Distinct(pool)

LEMMA OwnedInit == Init => Owned
<1> SUFFICES ASSUME Init PROVE Owned
  OBVIOUS
<1>1. Typed /\ Placed
  BY TypedInit
<1>2. Distinct(pool)
  BY DEF Init, Distinct
<1>3. \A t \in Threads : ~Holds(t)
  BY DEF Init, Idle, Holds
<1>4. \A c \in Conns : conn[c].lock = None
  BY DEF Init, NewConn
<1>5. sweep.at # "closing"
  BY DEF Init, Resting
<1> QED
  BY <1>1, <1>2, <1>3, <1>4, <1>5, PoolAssumption DEF Owned, Locks, OwnSession

\* A connection is lent to an operation that held none.
LEMMA LentIs ==
  ASSUME Owned, NEW t \in Threads, Reuse(t) \/ Grow(t)
  PROVE  /\ UNCHANGED <<doomed, sweep, hung>> /\ guard' = None /\ Looking(t) /\ ~Holds(t)
         /\ task' \in [Threads -> Operations] /\ OnTask(t)
         /\ task'[t].at = "renew"
         /\ task'[t].folder = task[t].folder /\ task'[t].secret = task[t].secret
         /\ \E c \in Conns :
              /\ conn' \in [Conns -> Connections] /\ OnConn(c)
              /\ conn[c].lock = None /\ task'[t].conn = c /\ conn'[c].lock = t
              /\ conn'[c].holder = "new"
              /\ \/ conn'[c].box = None
                 \/ /\ conn'[c].box = conn[c].box /\ conn'[c].folder = conn[c].folder
                    /\ conn'[c].binding = conn[c].binding
              /\ \/ pool' = pool /\ \E i \in 1..Len(pool) : i <= Limit(t) /\ c = pool[i]
                 \/ pool' = Append(pool, c) /\ c \notin Elements(pool) /\ Len(pool) < Limit(t)
<1>1. Typed /\ Placed
  BY DEF Owned
<1>2. ASSUME Looking(t) PROVE ~Holds(t)
  BY <1>2 DEF Looking, Holds
<1>3. CASE Reuse(t)
  BY <1>1, <1>2, <1>3, ReuseIs
<1>4. CASE Grow(t)
  <2>1. \A c \in Unused : c \in Conns /\ c \notin Elements(pool) /\ conn[c].lock = None
    BY DEF Unused
  <2> QED
    BY <1>1, <1>2, <1>4, <2>1, GrowIs
<1> QED
  BY <1>3, <1>4

Touching(t) == Renew(t) \/ Finish(t) \/ Back(t) \/ \E f \in Folders : Leave(t, f)
Looks(t) == \/ \E f \in Folders, s \in Secrets : Ask(t, f, s)
            \/ FindStuck(t) \/ Evict(t) \/ Stumble(t) \/ Wait(t) \/ Busy(t)
Passing(c) == Expire(c) \/ Overdue(c) \/ Drop(c)

\* The kinds of step the proofs tell apart.
LEMMA Kinds ==
  ASSUME [Next]_vars
  PROVE  \/ \E t \in Threads : Looks(t)
         \/ \E t \in Threads : Reuse(t) \/ Grow(t)
         \/ \E t \in Threads : Renew(t)
         \/ \E t \in Threads : Finish(t)
         \/ \E t \in Threads : Back(t) \/ \E f \in Folders : Leave(t, f)
         \/ Sweep
         \/ \E c \in Conns : Passing(c)
         \/ UNCHANGED <<pool, guard, doomed, conn, task, sweep>> /\ hung' \subseteq hung \cup Threads
<1>1. CASE UNCHANGED vars
  BY <1>1 DEF vars
<1>2. CASE \E t \in Threads : Hang(t)
  BY <1>2 DEF Hang
<1> QED
  BY <1>1, <1>2 DEF Next, Borrow, Looks, Passing

\* The list stays one without doubles.
LEMMA ListNext ==
  ASSUME Owned, [Next]_vars
  PROVE  /\ pool' \in Seq(Conns) /\ Distinct(pool')
         /\ guard' \in Threads \cup {None} /\ doomed' \subseteq Conns /\ hung' \subseteq Threads
<1> USE DEF Owned
<1>1. ASSUME NEW t \in Threads, Looks(t) PROVE
        /\ pool' \in Seq(Conns) /\ Distinct(pool')
        /\ guard' \in Threads \cup {None} /\ doomed' \subseteq Conns /\ hung' \subseteq Threads
  <2>1. CASE Evict(t)
    <3>1. PICK c \in doomed : pool' = Without(pool, c) /\ doomed' = doomed \ {c}
      BY <2>1 DEF Evict
    <3> QED
      BY <2>1, <3>1, WithoutIs DEF Evict, Typed
  <2>2. CASE FindStuck(t)
    <3>1. Stuck \subseteq Conns
      BY DEF Stuck, Elements, Typed
    <3> QED
      BY <2>2, <3>1 DEF FindStuck, Typed
  <2>3. CASE ~Evict(t) /\ ~FindStuck(t)
    BY <1>1, <2>3 DEF Looks, Ask, Stumble, Wait, Busy, Typed
  <2> QED
    BY <2>1, <2>2, <2>3
<1>2. ASSUME NEW t \in Threads, Reuse(t) \/ Grow(t) PROVE
        /\ pool' \in Seq(Conns) /\ Distinct(pool')
        /\ guard' \in Threads \cup {None} /\ doomed' \subseteq Conns /\ hung' \subseteq Threads
  <2>1. PICK c \in Conns : pool' = pool \/ (pool' = Append(pool, c) /\ c \notin Elements(pool))
    BY <1>2, LentIs
  <2>2. UNCHANGED <<doomed, hung>> /\ guard' = None
    BY <1>2, LentIs
  <2> QED
    BY <2>1, <2>2, AppendIs DEF Typed
<1>3. ASSUME NEW t \in Threads, Renew(t) PROVE UNCHANGED <<pool, guard, doomed, hung>>
  BY <1>3, RenewIs
<1>4. ASSUME NEW t \in Threads, Finish(t)
      PROVE  UNCHANGED <<pool, guard, doomed>> /\ hung' \subseteq Threads
  BY <1>4, GiveBackIs
<1>5. ASSUME NEW t \in Threads, Back(t) \/ \E f \in Folders : Leave(t, f)
      PROVE  UNCHANGED <<pool, guard, doomed, hung>>
  BY <1>5, MoveIs DEF Locks
<1>6. ASSUME Sweep PROVE
        /\ pool' \in Seq(Conns) /\ Distinct(pool')
        /\ UNCHANGED <<guard, doomed, hung>>
  BY <1>6, SweepIs, WithoutIs DEF Typed
<1>7. ASSUME NEW c \in Conns, Passing(c) PROVE UNCHANGED <<pool, guard, doomed, hung>>
  BY <1>7, PassingIs DEF Passing
<1> QED
  BY <1>1, <1>2, <1>3, <1>4, <1>5, <1>6, <1>7, Kinds DEF Typed

\* The types and places after a step, from what it does to connections and operations.
LEMMA TypedNext ==
  ASSUME Owned, [Next]_vars
  PROVE  Typed' /\ Placed'
<1> USE DEF Owned
<1>0. /\ pool' \in Seq(Conns)
      /\ guard' \in Threads \cup {None} /\ doomed' \subseteq Conns /\ hung' \subseteq Threads
  BY ListNext
<1>1. ASSUME NEW t \in Threads, Looks(t) PROVE Typed' /\ Placed'
  BY <1>0, <1>1, QuietIs DEF Looks, Typed, Placed, Holds, OnTask
<1>2. ASSUME NEW t \in Threads, Reuse(t) \/ Grow(t) PROVE Typed' /\ Placed'
  <2>1. task[t].folder \in Folders /\ task[t].secret \in Secrets
    BY <1>2, LentIs DEF Looking, Placed
  <2>2. /\ task' \in [Threads -> Operations] /\ OnTask(t)
        /\ conn' \in [Conns -> Connections] /\ UNCHANGED sweep
        /\ task'[t].conn \in Conns
        /\ task'[t].folder = task[t].folder /\ task'[t].secret = task[t].secret
    BY <1>2, LentIs
  <2>3. Typed'
    BY <1>0, <2>2 DEF Typed
  <2>4. \A u \in Threads : Holds(u)' => task'[u].conn \in Conns
    BY <2>2 DEF Placed, Holds, OnTask
  <2>5. \A u \in Threads : task'[u].at \notin {"idle", "error"} =>
                              task'[u].folder \in Folders /\ task'[u].secret \in Secrets
    BY <2>1, <2>2 DEF Placed, OnTask
  <2> QED
    BY <2>2, <2>3, <2>4, <2>5 DEF Placed
<1>3. ASSUME NEW t \in Threads, Renew(t) PROVE Typed' /\ Placed'
  <2>1. /\ task[t].at = "renew" /\ OnTask(t) /\ UNCHANGED sweep
        /\ conn' \in [Conns -> Connections] /\ task' \in [Threads -> Operations]
        /\ task'[t].conn \in Conns
        /\ task'[t].folder = task[t].folder /\ task'[t].secret = task[t].secret
    BY <1>3, RenewIs
  <2>2. Typed'
    BY <1>0, <2>1 DEF Typed
  <2> QED
    BY <2>1, <2>2 DEF Placed, Holds, OnTask
<1>4. ASSUME NEW t \in Threads, Finish(t) PROVE Typed' /\ Placed'
  <2>1. sweep' \in Sweeps /\ (sweep'.at \in {"aged", "closing"} => sweep'.conn \in Conns)
    BY <1>4, GiveBackIs DEF Typed, Placed, Sweeps, Resting
  <2> QED
    BY <1>0, <1>4, <2>1, GiveBackIs DEF Typed, Placed, Holds, OnTask
<1>5. ASSUME NEW t \in Threads, Back(t) \/ \E f \in Folders : Leave(t, f) PROVE Typed' /\ Placed'
  <2>1. /\ task[t].at \in {"use", "away"} /\ task[t].conn \in Conns /\ UNCHANGED sweep
        /\ task' \in [Threads -> Operations] /\ conn' \in [Conns -> Connections] /\ OnTask(t)
        /\ task'[t].at \in {"use", "away"} /\ task'[t].conn = task[t].conn
        /\ task'[t].folder = task[t].folder /\ task'[t].secret = task[t].secret
    BY <1>5, MoveIs DEF Locks
  <2> QED
    BY <1>0, <2>1 DEF Typed, Placed, Holds, OnTask
<1>6. ASSUME Sweep PROVE Typed' /\ Placed'
  BY <1>0, <1>6, SweepIs DEF Typed, Placed, Holds
<1>7. ASSUME NEW c \in Conns, Passing(c) PROVE Typed' /\ Placed'
  BY <1>0, <1>7, PassingIs DEF Passing, Typed, Placed, Holds
<1>8. ASSUME UNCHANGED <<pool, guard, doomed, conn, task, sweep>> PROVE Typed' /\ Placed'
  BY <1>0, <1>8 DEF Typed, Placed, Holds
<1> QED
  BY <1>1, <1>2, <1>3, <1>4, <1>5, <1>6, <1>7, <1>8, Kinds

\* Locks and owners still know each other after every step.
LEMMA LocksNext ==
  ASSUME Owned, [Next]_vars
  PROVE  Locks'
<1> USE DEF Owned
<1>0. Sweeper # None /\ \A t \in Threads : t # None /\ t # Sweeper
  BY PoolAssumption DEF Threads
<1>1. ASSUME NEW t \in Threads, Looks(t) PROVE Locks'
  <2>1. UNCHANGED <<conn, sweep>> /\ OnTask(t) /\ ~Holds(t) /\ ~Holds(t)'
    BY <1>1, QuietIs DEF Looks, Holds
  <2> QED
    BY <2>1 DEF Locks, OwnSession, Mine, OnTask, Holds
<1>2. ASSUME NEW t \in Threads, Reuse(t) \/ Grow(t) PROVE Locks'
  <2>1. PICK c \in Conns : /\ OnConn(c) /\ conn[c].lock = None
                           /\ task'[t].conn = c /\ conn'[c].lock = t
    BY <1>2, LentIs
  <2>2. OnTask(t) /\ ~Holds(t) /\ task'[t].at = "renew" /\ UNCHANGED sweep
    BY <1>2, LentIs
  <2>3. OwnSession'
    BY <1>0, <2>1, <2>2 DEF Locks, OwnSession, Mine, OnTask, OnConn, Holds, Placed
  <2> QED
    BY <1>0, <2>1, <2>2, <2>3 DEF Locks, OnTask, OnConn, Holds, Placed
<1>3. ASSUME NEW t \in Threads, Touching(t), ~Finish(t) PROVE Locks'
  <2> DEFINE c == task[t].conn
  <2>1. /\ c \in Conns /\ OnConn(c) /\ OnTask(t) /\ UNCHANGED sweep
        /\ Holds(t) /\ task'[t].conn = c /\ task'[t].at \in {"use", "away"}
        /\ conn'[c].lock = conn[c].lock /\ conn'[c].box # None
    <3>1. CASE Renew(t)
      BY <3>1, RenewIs DEF Holds
    <3>2. CASE Back(t) \/ \E f \in Folders : Leave(t, f)
      BY <3>2, MoveIs DEF Holds, Locks
    <3> QED
      BY <1>3, <3>1, <3>2 DEF Touching
  <2> HIDE DEF c
  <2>2. OwnSession'
    <3>1. conn[c].lock = t
      BY <2>1 DEF Locks, OwnSession, Mine, c
    <3> QED
      BY <2>1, <3>1 DEF Locks, OwnSession, Mine, OnTask, OnConn, Holds, Placed, c
  <2> QED
    BY <1>0, <2>1, <2>2 DEF Locks, OnTask, OnConn, Holds, Placed, c
<1>4. ASSUME NEW t \in Threads, Finish(t) PROVE Locks'
  <2> DEFINE c == task[t].conn
  <2>1. /\ c \in Conns /\ OnConn(c) /\ OnTask(t) /\ Holds(t)
        /\ task'[t].at = "idle" /\ conn'[c].lock = None
        /\ UNCHANGED sweep \/ (sweep.at # "closing" /\ sweep'.at # "closing")
    BY <1>4, GiveBackIs DEF Resting
  <2>2. conn[c].lock = t
    BY <2>1 DEF Locks, OwnSession, Mine
  <2> HIDE DEF c
  <2>3. OwnSession'
    BY <2>1, <2>2 DEF Locks, OwnSession, Mine, OnTask, OnConn, Holds, Placed
  <2> QED
    BY <1>0, <2>1, <2>2, <2>3 DEF Locks, OnTask, OnConn, Holds, Placed
<1>5. ASSUME Sweep PROVE Locks'
  <2>1. UNCHANGED task
    BY <1>5, SweepIs
  <2>2. CASE UNCHANGED conn /\ sweep.at # "closing" /\ sweep'.at # "closing"
    BY <2>1, <2>2 DEF Locks, OwnSession, Mine, Holds
  <2>3. ASSUME NEW c \in Conns, c = sweep.conn, OnConn(c),
               \/ /\ sweep.at = "aged" /\ conn[c].lock = None
                  /\ conn'[c].lock = Sweeper /\ sweep'.at = "closing" /\ sweep'.conn = c
               \/ conn'[c] = [conn[c] EXCEPT !.lock = None] /\ sweep.at = "closing" /\ sweep'.at # "closing"
        PROVE  Locks'
    <3>1. conn[c].lock \in {None, Sweeper} /\ conn'[c].lock \in {None, Sweeper}
      BY <2>3 DEF Locks, Typed, Connections
    <3>2. OwnSession'
      BY <1>0, <2>1, <2>3, <3>1 DEF Locks, OwnSession, Mine, OnConn, Holds, Placed
    <3>3. \A d \in Conns, t \in Threads : conn'[d].lock = t => Holds(t)' /\ task'[t].conn = d
      BY <1>0, <2>1, <2>3, <3>1 DEF Locks, OnConn, Holds
    <3>4. \A d \in Conns : conn'[d].lock = Sweeper => sweep'.at = "closing" /\ sweep'.conn = d
      <4>1. ASSUME NEW d \in Conns, conn'[d].lock = Sweeper, d # c PROVE FALSE
        BY <2>3, <4>1 DEF Locks, OnConn
      <4>2. sweep'.at # "closing" => conn'[c].lock = None
        BY <2>3 DEF Typed, Connections
      <4> QED
        BY <1>0, <2>3, <4>1, <4>2
    <3>5. sweep'.at = "closing" => conn'[sweep'.conn].lock = Sweeper
      BY <2>3
    <3> QED
      BY <3>2, <3>3, <3>4, <3>5 DEF Locks
  <2> QED
    BY <1>5, <2>2, <2>3, SweepIs
<1>6. ASSUME NEW c \in Conns, Passing(c) PROVE Locks'
  <2>1. /\ UNCHANGED <<task, sweep>> /\ OnConn(c) /\ conn'[c].lock = conn[c].lock
        /\ conn[c].box # None => conn'[c].box # None
    BY <1>6, PassingIs DEF Passing
  <2>2. OwnSession'
    BY <2>1 DEF Locks, OwnSession, Mine, OnConn, Holds, Placed
  <2> QED
    BY <2>1, <2>2 DEF Locks, OnConn, Holds, Placed
<1>7. ASSUME UNCHANGED <<pool, guard, doomed, conn, task, sweep>> PROVE Locks'
  BY <1>7 DEF Locks, OwnSession, Mine, Holds
<1> QED
  BY <1>1, <1>2, <1>3, <1>4, <1>5, <1>6, <1>7, Kinds DEF Touching

LEMMA OwnedNext == Owned /\ [Next]_vars => Owned'
BY TypedNext, LocksNext, ListNext DEF Owned

-----------------------------------------------------------------------------
(* Folder and login *)

\* The folder noted for a connection is the one its session is in, as long as it
\* lives and nobody works elsewhere meanwhile; what an operation works with is noted
\* for its folder.
Selected ==
  /\ \A c \in Conns : /\ conn[c].box # None /\ conn[c].box.live
                      /\ \A t \in Threads : task[t].at = "away" => task[t].conn # c
                      => conn[c].box.selected \in {conn[c].folder, None}
  /\ \A t \in Threads : task[t].at \in {"use", "away"} => Mine(t).folder = task[t].folder
  /\ \A t \in Threads : task[t].at = "away" => task[t].folder = Inbox

\* The login noted for a connection is that of its session.
Logins ==
  /\ \A c \in Conns : conn[c].box # None => conn[c].binding = conn[c].box.login
  /\ \A t \in Threads : task[t].at \in {"use", "away"} => Mine(t).binding = task[t].secret

LEMMA SessionsInit == Init => Selected /\ Logins
BY DEF Init, NewConn, Idle, Selected, Logins

LEMMA SessionsNext ==
  ASSUME Owned, Owned', Selected, Logins, [Next]_vars
  PROVE  Selected' /\ Logins'
<1> USE DEF Owned
<1>0. Sweeper # None /\ \A t \in Threads : t # None /\ t # Sweeper
  BY PoolAssumption DEF Threads
<1>1. ASSUME NEW t \in Threads, Looks(t) PROVE Selected' /\ Logins'
  <2>1. UNCHANGED conn /\ OnTask(t) /\ ~Holds(t) /\ ~Holds(t)'
    BY <1>1, QuietIs DEF Looks, Holds
  <2> QED
    BY <2>1 DEF Selected, Logins, Mine, OnTask, Holds
<1>2. ASSUME NEW t \in Threads, Reuse(t) \/ Grow(t) PROVE Selected' /\ Logins'
  <2>1. PICK c \in Conns : /\ OnConn(c) /\ conn[c].lock = None
                           /\ \/ conn'[c].box = None
                              \/ /\ conn'[c].box = conn[c].box /\ conn'[c].folder = conn[c].folder
                                 /\ conn'[c].binding = conn[c].binding
    BY <1>2, LentIs
  <2>2. OnTask(t) /\ ~Holds(t) /\ task'[t].at = "renew"
    BY <1>2, LentIs
  <2>3. \A u \in Threads : Holds(u) => task[u].conn # c
    BY <1>0, <2>1 DEF Locks, OwnSession, Mine
  <2>4. Selected'
    BY <2>1, <2>2, <2>3 DEF Selected, Mine, OnTask, OnConn, Holds, Placed
  <2> QED
    BY <2>1, <2>2, <2>3, <2>4 DEF Logins, Mine, OnTask, OnConn, Holds, Placed
<1>3. ASSUME NEW t \in Threads, Renew(t) PROVE Selected' /\ Logins'
  <2> DEFINE c == task[t].conn
  <2>1. /\ task[t].at = "renew" /\ c \in Conns /\ OnConn(c) /\ OnTask(t)
        /\ conn'[c].box # None /\ conn'[c].folder = task[t].folder
        /\ task'[t].at = "use" /\ task'[t].conn = c
        /\ task'[t].folder = task[t].folder /\ task'[t].secret = task[t].secret
    BY <1>3, RenewIs
  <2>2. conn'[c].binding = conn'[c].box.login /\ conn'[c].binding = task[t].secret
    <3>1. CASE conn'[c].box.login = task[t].secret /\ conn'[c].binding = task[t].secret
      BY <3>1
    <3>2. CASE /\ conn[c].box # None /\ conn'[c].binding = conn[c].binding
               /\ conn[c].binding \in {None, task[t].secret}
               /\ conn'[c].box.login = conn[c].box.login
      <4>1. conn[c].binding = conn[c].box.login /\ conn[c].box \in Sessions
        BY <2>1, <3>2 DEF Logins, Typed, Connections
      <4>2. conn[c].binding # None
        BY <4>1, PoolAssumption DEF Sessions
      <4> QED
        BY <3>2, <4>1, <4>2
    <3> QED
      BY <1>3, <3>1, <3>2, RenewIs
  <2>3. conn'[c].box.live => conn'[c].box.selected \in {conn'[c].folder, None}
    <3>1. \A u \in Threads : task[u].at = "away" => task[u].conn # c
      <4> TAKE u \in Threads
      <4>1. CASE task[u].at = "away" /\ task[u].conn = c
        BY <2>1, <4>1 DEF Locks, OwnSession, Mine, Holds
      <4> QED
        BY <4>1
    <3>2. CASE conn'[c].box.selected = task[t].folder
      BY <2>1, <3>2
    <3>3. CASE /\ conn[c].box # None /\ conn'[c].box = conn[c].box
               /\ conn[c].folder = task[t].folder
      BY <2>1, <3>1, <3>3 DEF Selected
    <3> QED
      BY <1>3, <3>2, <3>3, RenewIs
  <2>4. \A u \in Threads : u # t /\ Holds(u) => task[u].conn # c
    BY <2>1 DEF Locks, OwnSession, Mine, Holds
  <2> HIDE DEF c
  <2>5. Selected'
    BY <2>1, <2>3, <2>4 DEF Selected, Mine, OnTask, OnConn, Holds, Placed
  <2>6. \A d \in Conns : conn'[d].box # None => conn'[d].binding = conn'[d].box.login
    BY <2>1, <2>2 DEF Logins, OnConn
  <2>7. \A u \in Threads : task'[u].at \in {"use", "away"} => Mine(u)'.binding = task'[u].secret
    BY <2>1, <2>2, <2>4 DEF Logins, Mine, OnTask, OnConn, Holds, Placed
  <2> QED
    BY <2>5, <2>6, <2>7 DEF Logins
<1>4. ASSUME NEW t \in Threads, Finish(t) PROVE Selected' /\ Logins'
  <2> DEFINE c == task[t].conn
  <2>1. /\ c \in Conns /\ OnConn(c) /\ OnTask(t) /\ Holds(t) /\ task'[t].at = "idle"
        /\ \/ /\ task[t].at = "use" /\ conn'[c].box = conn[c].box
              /\ conn'[c].folder = conn[c].folder /\ conn'[c].binding = conn[c].binding
           \/ conn'[c].box = None
    BY <1>4, GiveBackIs
  <2>2. \A u \in Threads : u # t /\ Holds(u) => task[u].conn # c
    BY <2>1 DEF Locks, OwnSession, Mine, Holds
  <2> HIDE DEF c
  <2>3. Selected'
    BY <2>1, <2>2 DEF Selected, Mine, OnTask, OnConn, Holds, Placed, c
  <2> QED
    BY <2>1, <2>2, <2>3 DEF Logins, Mine, OnTask, OnConn, Holds, Placed, c
<1>5. ASSUME NEW t \in Threads, Back(t) \/ \E f \in Folders : Leave(t, f)
      PROVE  Selected' /\ Logins'
  <2> DEFINE c == task[t].conn
  <2>1. /\ task[t].at \in {"use", "away"} /\ c \in Conns /\ OnConn(c) /\ OnTask(t)
        /\ conn[c].box # None /\ conn'[c].folder = conn[c].folder
        /\ conn'[c].binding = conn[c].binding /\ conn'[c].box.login = conn[c].box.login
        /\ \/ task'[t].at = "away" /\ task[t].folder = Inbox
           \/ /\ task'[t].at = "use" /\ task[t].at = "away"
              /\ ~conn'[c].box.live \/ conn'[c].box.selected \in {Inbox, None}
        /\ task'[t].conn = c
        /\ task'[t].folder = task[t].folder /\ task'[t].secret = task[t].secret
    BY <1>5, MoveIs DEF Locks
  <2>2. \A u \in Threads : u # t /\ Holds(u) => task[u].conn # c
    BY <2>1 DEF Locks, OwnSession, Mine, Holds
  <2>3. conn[c].folder = task[t].folder /\ conn[c].binding = task[t].secret
    BY <2>1 DEF Selected, Logins, Mine
  <2>4. task'[t].at = "away" \/ ~conn'[c].box.live \/ conn'[c].box.selected \in {conn'[c].folder, None}
    BY <2>1, <2>3 DEF Selected
  <2> HIDE DEF c
  <2>5. Selected'
    BY <2>1, <2>2, <2>3, <2>4 DEF Selected, Mine, OnTask, OnConn, Holds, Placed, c
  <2>6. \A d \in Conns : conn'[d].box # None => conn'[d].binding = conn'[d].box.login
    BY <2>1 DEF Logins, OnConn
  <2>7. \A u \in Threads : task'[u].at \in {"use", "away"} => Mine(u)'.binding = task'[u].secret
    <3>1. ASSUME NEW u \in Threads, u # t, task'[u].at \in {"use", "away"}
          PROVE  Mine(u)'.binding = task'[u].secret
      BY <2>2, <2>1, <3>1 DEF Logins, Mine, OnTask, OnConn, Holds, Placed
    <3> QED
      BY <2>1, <2>3, <3>1 DEF Mine, c
  <2> QED
    BY <2>5, <2>6, <2>7 DEF Logins
<1>6. ASSUME Sweep PROVE Selected' /\ Logins'
  <2>1. UNCHANGED task
    BY <1>6, SweepIs
  <2>2. CASE UNCHANGED conn
    BY <2>1, <2>2 DEF Selected, Logins, Mine
  <2>3. ASSUME NEW c \in Conns, c = sweep.conn, OnConn(c),
               \/ /\ conn[c].lock = None /\ conn'[c].lock = Sweeper /\ conn'[c].box = None
               \/ conn'[c] = [conn[c] EXCEPT !.lock = None] /\ sweep.at = "closing"
        PROVE  Selected' /\ Logins'
    <3>1. conn[c].lock \in {None, Sweeper}
      BY <2>3 DEF Locks
    <3>2. \A u \in Threads : Holds(u) => task[u].conn # c
      BY <1>0, <3>1 DEF Locks, OwnSession, Mine
    <3>3. \/ conn'[c].box = None
          \/ /\ conn'[c].box = conn[c].box /\ conn'[c].folder = conn[c].folder
             /\ conn'[c].binding = conn[c].binding
      BY <2>3 DEF Typed, Connections
    <3>4. Selected'
      BY <2>1, <2>3, <3>2, <3>3 DEF Selected, Mine, OnConn, Holds, Placed
    <3> QED
      BY <2>1, <2>3, <3>2, <3>3, <3>4 DEF Logins, Mine, OnConn, Holds, Placed
  <2> QED
    BY <1>6, <2>2, <2>3, SweepIs
<1>7. ASSUME NEW c \in Conns, Passing(c) PROVE Selected' /\ Logins'
  <2>1. /\ UNCHANGED task /\ OnConn(c)
        /\ conn'[c].folder = conn[c].folder /\ conn'[c].binding = conn[c].binding
        /\ \/ conn'[c].box = conn[c].box
           \/ /\ conn[c].box # None /\ conn'[c].box # None
              /\ conn'[c].box.login = conn[c].box.login /\ ~conn'[c].box.live
    BY <1>7, PassingIs DEF Passing
  <2>2. Selected'
    BY <2>1 DEF Selected, Mine, OnConn, Holds, Placed
  <2> QED
    BY <2>1, <2>2 DEF Logins, Mine, OnConn, Holds, Placed
<1>8. ASSUME UNCHANGED <<pool, guard, doomed, conn, task, sweep>> PROVE Selected' /\ Logins'
  BY <1>8 DEF Selected, Logins, Mine
<1> QED
  BY <1>1, <1>2, <1>3, <1>4, <1>5, <1>6, <1>7, <1>8, Kinds

-----------------------------------------------------------------------------
(* The places *)

\* Only connections held for too long are sorted out, under the lock of the pool.
Guards ==
  /\ guard = None => doomed = {}
  /\ \A c \in doomed : conn[c].holder # "new"

\* An operation in the background has one of the first places.
Places ==
  /\ Len(pool) <= PoolSize + PoolExtra
  /\ \A i \in 1..Len(pool) : conn[pool[i]].lock \in Background => i <= PoolSize

Bounds == asks \in 0..MaxAsks /\ faults \in 0..MaxFaults

Listed == Guards /\ Places /\ UsedIsPooled /\ Bounds

LEMMA ListedInit == Init => Listed
<1> SUFFICES ASSUME Init PROVE Listed
  OBVIOUS
<1>1. Len(pool) = 0 /\ \A c \in Conns : conn[c].lock = None
  BY DEF Init, NewConn
<1>2. None \notin Threads
  BY PoolAssumption
<1> QED
  BY <1>1, <1>2, PoolAssumption DEF Init, Listed, Guards, Places, UsedIsPooled, Bounds

\* The steps that leave the list alone let go of a connection, or leave it held as
\* before, at most for too long now.
LEMMA SettledNext ==
  ASSUME Owned, NEW t \in Threads \cup Conns,
         \/ t \in Threads /\ Touching(t)
         \/ t \in Conns /\ Passing(t)
  PROVE  /\ UNCHANGED <<pool, guard, doomed>>
         /\ \A c \in Conns : /\ conn'[c].lock \in {conn[c].lock, None}
                             /\ \/ conn'[c].holder = conn[c].holder
                                \/ conn'[c].lock = None /\ conn'[c].holder = "none"
                                \/ conn'[c].holder = "stuck"
<1> USE DEF Owned
<1>1. CASE t \in Threads /\ Renew(t)
  BY <1>1, RenewIs DEF OnConn
<1>2. CASE t \in Threads /\ Finish(t)
  BY <1>2, GiveBackIs DEF OnConn
<1>3. CASE t \in Threads /\ (Back(t) \/ \E f \in Folders : Leave(t, f))
  BY <1>3, MoveIs DEF OnConn, Locks
<1>4. CASE t \in Conns /\ Passing(t)
  BY <1>4, PassingIs DEF OnConn, Passing
<1> QED
  BY <1>1, <1>2, <1>3, <1>4 DEF Touching

LEMMA ListedNext ==
  ASSUME Owned, Listed, [Next]_vars
  PROVE  Guards' /\ Places' /\ UsedIsPooled'
<1> USE DEF Owned
<1>0. /\ PoolSize \in Nat /\ PoolExtra \in Nat /\ Background \subseteq Threads
      /\ None \notin Threads /\ Sweeper \notin Threads /\ Interactive \cap Background = {}
      /\ Len(pool) \in Nat /\ \A i \in 1..Len(pool) : pool[i] \in Conns
  BY PoolAssumption DEF Threads, Typed
<1>1. ASSUME NEW t \in Threads, Looks(t) PROVE Guards' /\ Places' /\ UsedIsPooled'
  <2>1. UNCHANGED conn
    BY <1>1, QuietIs DEF Looks
  <2>2. CASE Evict(t)
    <3>1. PICK c \in doomed : /\ conn[c].holder # "none" /\ pool' = Without(pool, c)
                              /\ doomed' = doomed \ {c} /\ UNCHANGED guard
      BY <2>2 DEF Evict
    <3>2. c \in Conns /\ conn[c].holder = "stuck"
      BY <3>1 DEF Typed, Connections, Listed, Guards
    <3>3. /\ Len(pool') \in Nat /\ Len(pool') <= Len(pool)
          /\ Elements(pool') = Elements(pool) \ {c}
          /\ \A i \in 1..Len(pool') : \E j \in 1..Len(pool) : i <= j /\ pool'[i] = pool[j]
      <4>1. pool \in Seq(Conns) /\ Distinct(pool) /\ pool' = Without(pool, c)
        BY <3>1 DEF Typed
      <4> HIDE DEF Owned
      <4>2. /\ pool' \in Seq(Conns) /\ Len(pool') <= Len(pool)
            /\ Elements(pool') = Elements(pool) \ {c}
            /\ \A i \in 1..Len(pool') : \E j \in 1..Len(pool) : i <= j /\ pool'[i] = pool[j]
        BY <3>2, <4>1, WithoutIs
      <4> QED
        BY <4>2
    <3>4. Guards'
      BY <2>1, <3>1 DEF Listed, Guards
    <3>5. Places'
      BY <1>0, <2>1, <3>3 DEF Listed, Places
    <3>6. UsedIsPooled'
      BY <2>1, <3>2, <3>3 DEF Listed, UsedIsPooled
    <3> QED
      BY <3>4, <3>5, <3>6
  <2>3. CASE ~Evict(t)
    <3>1. UNCHANGED pool
      BY <1>1, <2>3 DEF Looks, Ask, FindStuck, Stumble, Wait, Busy
    <3>2. Guards'
      <4>1. CASE FindStuck(t)
        <5>1. \A c \in Stuck : conn[c].holder = "stuck"
          BY DEF Stuck
        <5> QED
          BY <1>0, <2>1, <4>1, <5>1 DEF FindStuck, Guards
      <4>2. CASE ~FindStuck(t)
        BY <1>1, <2>1, <2>3, <4>2 DEF Looks, Ask, Stumble, Wait, Busy, Looking, Listed, Guards
      <4> QED
        BY <4>1, <4>2
    <3> QED
      BY <2>1, <3>1, <3>2 DEF Listed, Places, UsedIsPooled
  <2> QED
    BY <2>2, <2>3
<1>2. ASSUME NEW t \in Threads, Reuse(t) \/ Grow(t) PROVE Guards' /\ Places' /\ UsedIsPooled'
  <2>1. PICK c \in Conns :
          /\ OnConn(c) /\ conn'[c].lock = t
          /\ \/ pool' = pool /\ \E i \in 1..Len(pool) : i <= Limit(t) /\ c = pool[i]
             \/ pool' = Append(pool, c) /\ c \notin Elements(pool) /\ Len(pool) < Limit(t)
    BY <1>2, LentIs
  <2>2. Guards'
    BY <1>2, LentIs DEF Looking, Listed, Guards
  <2>3. Limit(t) \in Nat /\ Limit(t) <= PoolSize + PoolExtra
        /\ (t \in Background => Limit(t) = PoolSize)
    BY <1>0 DEF Limit
  <2>4. CASE pool' = pool /\ \E i \in 1..Len(pool) : i <= Limit(t) /\ c = pool[i]
    <3>1. PICK i \in 1..Len(pool) : i <= Limit(t) /\ c = pool[i]
      BY <2>4
    <3>2. \A j \in 1..Len(pool) : pool[j] = c => j = i
      BY <3>1 DEF Distinct
    <3>3. Places'
      BY <1>0, <2>1, <2>3, <2>4, <3>1, <3>2 DEF Listed, Places, OnConn
    <3>4. c \in Elements(pool')
      BY <2>4, <3>1 DEF Elements
    <3>5. UsedIsPooled'
      BY <2>1, <2>4, <3>4 DEF Listed, UsedIsPooled, OnConn
    <3> QED
      BY <2>2, <3>3, <3>5
  <2>5. CASE pool' = Append(pool, c) /\ c \notin Elements(pool) /\ Len(pool) < Limit(t)
    <3>1. /\ Len(pool') = Len(pool) + 1 /\ Elements(pool') = Elements(pool) \cup {c}
          /\ \A i \in 1..Len(pool) : pool'[i] = pool[i]
          /\ pool'[Len(pool) + 1] = c
      BY <2>5, AppendIs DEF Typed
    <3>2. \A i \in 1..Len(pool) : pool[i] # c
      BY <2>5 DEF Elements
    <3>3. ASSUME NEW i \in 1..Len(pool'), conn'[pool'[i]].lock \in Background PROVE i <= PoolSize
      <4>1. CASE i = Len(pool) + 1
        BY <1>0, <2>1, <2>3, <2>5, <3>1, <3>3, <4>1
      <4>2. CASE i \in 1..Len(pool)
        BY <1>0, <2>1, <3>1, <3>2, <3>3, <4>2 DEF Listed, Places, OnConn
      <4> QED
        BY <1>0, <3>1, <4>1, <4>2
    <3>4. Places'
      BY <1>0, <2>3, <2>5, <3>1, <3>3 DEF Places
    <3>5. UsedIsPooled'
      BY <2>1, <3>1 DEF Listed, UsedIsPooled, OnConn
    <3> QED
      BY <2>2, <3>4, <3>5
  <2> QED
    BY <2>1, <2>4, <2>5
<1>3. ASSUME NEW x \in Threads \cup Conns,
             (x \in Threads /\ Touching(x)) \/ (x \in Conns /\ Passing(x))
      PROVE  Guards' /\ Places' /\ UsedIsPooled'
  <2>1. /\ UNCHANGED <<pool, guard, doomed>>
        /\ \A c \in Conns : /\ conn'[c].lock \in {conn[c].lock, None}
                            /\ \/ conn'[c].holder = conn[c].holder
                               \/ conn'[c].lock = None /\ conn'[c].holder = "none"
                               \/ conn'[c].holder = "stuck"
    BY <1>3, SettledNext
  <2>2. Guards'
    BY <2>1 DEF Listed, Guards, Typed
  <2>3. Places'
    BY <1>0, <2>1 DEF Listed, Places
  <2>4. UsedIsPooled'
    BY <1>0, <2>1 DEF Listed, UsedIsPooled
  <2> QED
    BY <2>2, <2>3, <2>4
<1>4. ASSUME Sweep PROVE Guards' /\ Places' /\ UsedIsPooled'
  <2>1. UNCHANGED <<guard, doomed>>
    BY <1>4, SweepIs
  <2>2. CASE UNCHANGED <<conn, pool>>
    BY <2>1, <2>2 DEF Listed, Guards, Places, UsedIsPooled
  <2>3. CASE SweepClose /\ ~UNCHANGED <<conn, pool>>
    <3> DEFINE c == sweep.conn
               n == [conn[c] EXCEPT !.lock = Sweeper, !.box = None, !.folder = None]
    <3>1. c \in Conns /\ conn' = [conn EXCEPT ![c] = n] /\ UNCHANGED pool
      BY <2>3 DEF SweepClose, Placed
    <3>2. n.lock = Sweeper /\ n.holder = conn[c].holder
      BY <3>1 DEF Typed, Connections
    <3> HIDE DEF c, n
    <3>3. OnConn(c) /\ conn'[c].lock = Sweeper /\ conn'[c].holder = conn[c].holder
      BY <3>1, <3>2 DEF Typed, OnConn
    <3>4. Guards'
      BY <2>1, <3>1, <3>3 DEF Listed, Guards, OnConn, Typed
    <3>5. Places'
      BY <1>0, <3>1, <3>3 DEF Listed, Places, OnConn
    <3>6. UsedIsPooled'
      BY <1>0, <3>1, <3>3 DEF Listed, UsedIsPooled, OnConn
    <3> QED
      BY <3>4, <3>5, <3>6
  <2>4. CASE SweepRemove
    <3> DEFINE c == sweep.conn
    <3>1. /\ c \in Conns /\ pool' = Without(pool, c) /\ OnConn(c)
          /\ conn'[c] = [conn[c] EXCEPT !.lock = None]
      BY <2>4 DEF SweepRemove, Placed, OnConn, Typed
    <3>2. conn'[c].lock = None /\ conn'[c].holder = conn[c].holder
      BY <3>1 DEF Typed, Connections
    <3> HIDE DEF c
    <3>3. /\ Len(pool') \in Nat /\ Len(pool') <= Len(pool)
          /\ Elements(pool') = Elements(pool) \ {c}
          /\ \A i \in 1..Len(pool') : \E j \in 1..Len(pool) : i <= j /\ pool'[i] = pool[j]
      <4>1. /\ pool' \in Seq(Conns) /\ Len(pool') <= Len(pool)
            /\ Elements(pool') = Elements(pool) \ {c}
            /\ \A i \in 1..Len(pool') : \E j \in 1..Len(pool) : i <= j /\ pool'[i] = pool[j]
        <5>1. c \in Conns /\ pool' = Without(pool, c) /\ pool \in Seq(Conns) /\ Distinct(pool)
          BY <3>1 DEF Typed
        <5> HIDE DEF Owned
        <5> QED
          BY <5>1, WithoutIs
      <4> QED
        BY <4>1
    <3>4. Guards'
      BY <2>1, <3>1, <3>2 DEF Listed, Guards, OnConn, Typed
    <3>5. Places'
      <4>1. \A d \in Conns : conn'[d].lock \in Background => conn[d].lock \in Background
        BY <1>0, <3>1, <3>2 DEF OnConn
      <4> QED
        BY <1>0, <3>3, <4>1 DEF Listed, Places
    <3>6. UsedIsPooled'
      BY <1>0, <3>1, <3>2, <3>3 DEF Listed, UsedIsPooled, OnConn
    <3> QED
      BY <3>4, <3>5, <3>6
  <2> QED
    BY <1>4, <2>2, <2>3, <2>4 DEF Sweep, SweepList, SweepNext, SweepEnd
<1>5. ASSUME UNCHANGED <<pool, guard, doomed, conn, task, sweep>>
      PROVE  Guards' /\ Places' /\ UsedIsPooled'
  BY <1>5 DEF Listed, Guards, Places, UsedIsPooled
<1> QED
  BY <1>1, <1>2, <1>3, <1>4, <1>5, Kinds DEF Touching

LEMMA BoundsNext ==
  ASSUME Bounds, [Next]_vars
  PROVE  Bounds'
<1>0. MaxAsks \in Nat /\ MaxFaults \in Nat
  BY PoolAssumption
<1>1. CASE \E t \in Threads, f \in Folders, s \in Secrets : Ask(t, f, s)
  BY <1>0, <1>1 DEF Ask, Bounds
<1>2. CASE \E c \in Conns : Drop(c)
  BY <1>0, <1>2 DEF Drop, Bounds
<1>3. CASE UNCHANGED <<asks, faults>>
  BY <1>3 DEF Bounds
<1>4. ASSUME NEW t \in Threads,
             \/ \E f \in Folders : Leave(t, f)
             \/ Borrow(t) \/ Wait(t) \/ Busy(t)
             \/ Renew(t) \/ Finish(t) \/ Back(t) \/ Hang(t)
      PROVE  UNCHANGED <<asks, faults>>
  <2>1. CASE Borrow(t) \/ Wait(t) \/ Busy(t) \/ Hang(t)
    BY <2>1 DEF Borrow, FindStuck, Evict, Stumble, Reuse, Grow, Wait, Busy, Hang
  <2>2. CASE Renew(t) \/ Finish(t)
    BY <2>2 DEF Renew, Keep, Select, Connect, Finish, Return, Fail, GiveBack
  <2>3. CASE Back(t) \/ \E f \in Folders : Leave(t, f)
    BY <2>3 DEF Back, Leave, InSession
  <2> QED
    BY <1>4, <2>1, <2>2, <2>3
<1>5. ASSUME Sweep PROVE UNCHANGED <<asks, faults>>
  BY <1>5 DEF Sweep, SweepList, SweepNext, SweepClose, SweepRemove, SweepEnd
<1>6. ASSUME NEW c \in Conns, Expire(c) \/ Overdue(c) PROVE UNCHANGED <<asks, faults>>
  BY <1>6 DEF Expire, Overdue
<1>7. CASE UNCHANGED vars
  BY <1>7 DEF vars, Bounds
<1> QED
  BY <1>1, <1>2, <1>3, <1>4, <1>5, <1>6, <1>7 DEF Next

-----------------------------------------------------------------------------
(* The theorems *)

\* The inductive invariant.
Inv == Owned /\ Selected /\ Logins /\ Listed

THEOREM InvAlways == Spec => []Inv
<1>1. Init => Inv
  BY OwnedInit, SessionsInit, ListedInit DEF Inv
<1>2. Inv /\ [Next]_vars => Inv'
  BY OwnedNext, SessionsNext, ListedNext, BoundsNext DEF Inv, Listed
<1> QED
  BY <1>1, <1>2, PTL DEF Spec

\* The kinds of state of the pool, and its bounds: never more connections than
\* _POOL_SIZE and _POOL_EXTRA allow together.
THEOREM PoolTypeSafe == Spec => []TypeOK
<1>1. Inv => TypeOK
  BY DEF Inv, Owned, Typed, Listed, Places, Bounds, TypeOK
<1> QED
  BY <1>1, InvAlways, PTL

\* Whoever works with a connection holds it alone and has its session to himself,
\* whatever _greife_zu, the finally of _mailbox and _reap_idle do meanwhile.
THEOREM OwnSessionSafe == Spec => []OwnSession
<1>1. Inv => OwnSession
  BY DEF Inv, Owned, Locks
<1> QED
  BY <1>1, InvAlways, PTL

\* An operation works in its own folder, although _ensure_box trusts the folder it
\* noted last and ensure_default_folders goes elsewhere in between.
THEOREM RightFolderSafe == Spec => []RightFolder
<1>1. Inv => RightFolder
  <2> SUFFICES ASSUME Inv, NEW t \in Threads, Using(t)
               PROVE  Mine(t).box.selected \in {task[t].folder, None}
    BY DEF RightFolder
  <2> DEFINE c == task[t].conn
  <2>1. c \in Conns /\ conn[c].lock = t
    BY DEF Inv, Owned, Locks, OwnSession, Placed, Holds, Using, Mine
  <2>2. \A u \in Threads : task[u].at = "away" => task[u].conn # c
    <3> SUFFICES ASSUME NEW u \in Threads, task[u].at = "away", task[u].conn = c PROVE FALSE
      OBVIOUS
    <3>1. conn[c].lock = u
      BY DEF Inv, Owned, Locks, OwnSession, Holds, Mine
    <3> QED
      BY <2>1, <3>1 DEF Using
  <2> QED
    BY <2>1, <2>2 DEF Inv, Selected, Using, Mine
<1> QED
  BY <1>1, InvAlways, PTL

\* A changed password or fingerprint ends the use of older sessions: the binding
\* _ensure_box compares is always that of the session.
THEOREM RightLoginSafe == Spec => []RightLogin
<1>1. Inv => RightLogin
  BY DEF Inv, Owned, Placed, Holds, Logins, Using, Mine, RightLogin
<1> QED
  BY <1>1, InvAlways, PTL

\* Both together (imap.py _ensure_box and what goes on after it).
THEOREM RightSessionSafe == Spec => []RightSession
BY RightFolderSafe, RightLoginSafe, PTL DEF RightSession

\* Of a full pool the extra places are in the hands of the user or of the sweep: the
\* limit of _greife_zu keeps the background out of them also when places move up.
THEOREM UsersFindPlaceSafe == Spec => []UsersFindPlace
<1>1. Inv => UsersFindPlace
  <2> SUFFICES ASSUME Inv, Len(pool) = PoolSize + PoolExtra,
                      \A c \in Elements(pool) : conn[c].lock # None,
                      NEW i \in PoolSize + 1 .. PoolSize + PoolExtra
               PROVE  conn[pool[i]].lock \in Interactive \cup {Sweeper}
    BY DEF UsersFindPlace
  <2>1. i \in 1..Len(pool) /\ ~(i <= PoolSize)
    BY PoolAssumption
  <2>2. pool[i] \in Elements(pool) /\ pool[i] \in Conns
    BY <2>1 DEF Elements, Inv, Owned, Typed
  <2>3. conn[pool[i]].lock \in Threads \cup {Sweeper}
    BY <2>2 DEF Inv, Owned, Typed, Connections
  <2>4. conn[pool[i]].lock \notin Background
    BY <2>1 DEF Inv, Listed, Places
  <2> QED
    BY <2>3, <2>4 DEF Threads
<1> QED
  BY <1>1, InvAlways, PTL

\* A connection in use is counted until it is held for too long: neither the list
\* of the sweep nor that of _greife_zu writes back an older one.
THEOREM UsedIsPooledSafe == Spec => []UsedIsPooled
<1>1. Inv => UsedIsPooled
  BY DEF Inv, Listed
<1> QED
  BY <1>1, InvAlways, PTL
=============================================================================
