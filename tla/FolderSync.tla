----------------------------- MODULE FolderSync -----------------------------
(***************************************************************************)
(* One cached folder (mail/cache.py): the IMAP server, the rows of         *)
(* CachedMessage, the FolderSync record, the delta sync that runs under    *)
(* the folder's lock, and the requests of users, which change the server   *)
(* first and the cache afterwards without taking that lock.                *)
(*                                                                         *)
(* The sync is cut where it talks to somebody: Begin (SELECT, STATUS, load *)
(* the rows), Search (UID SEARCH, prune, fetch new headers), Flags         *)
(* (CHANGEDSINCE and the periodic full check), Commit (one transaction).   *)
(* It works on ORM objects loaded in Begin: the commit writes the          *)
(* attributes that differ from that snapshot, and no others.               *)
(***************************************************************************)
EXTENDS Naturals, FiniteSets

CONSTANTS
  NoRow,        \* a UID that is not cached
  MaxUid,       \* bound: UIDs are 1 .. MaxUid
  MaxGen,       \* bound: UIDVALIDITY takes the values 1 .. MaxGen
  MaxModseq,    \* bound: changes the server makes
  MissLimit,    \* _MISS_LIMIT
  Window,       \* _FLAG_WINDOW
  Condstore,    \* the server reports HIGHESTMODSEQ
  Wants,        \* what users ask for: see WantKinds
  Faults        \* what may go wrong: see FaultKinds

WantKinds == {"read", "unread", "delete"}
FaultKinds == {"status", "partial", "changedsince", "zombie", "abort", "crash"}

ASSUME BoundsAssumption ==
  /\ MaxUid \in Nat /\ MaxGen \in Nat \ {0} /\ MaxModseq \in Nat \ {0}
  /\ MissLimit \in Nat \ {0} /\ Window \in Nat
  /\ Condstore \in BOOLEAN /\ Wants \subseteq WantKinds /\ Faults \subseteq FaultKinds

Uids == 1 .. MaxUid
Gens == 1 .. MaxGen

\* hidden: "active" while the tombstone is younger than _HIDDEN_SECS.
\* sticky: the user's decision is younger than _STICKY_SECS.
Row == [gen : 0 .. MaxGen, seen : BOOLEAN, sticky : BOOLEAN,
        hidden : {"no", "active", "expired"}, miss : 0 .. MissLimit]

ASSUME NoRowAssumption == NoRow \notin Row

VARIABLES
  (* the server *)
  gen, msgs, seen,      \* UIDVALIDITY, UIDs listed, those with \Seen
  uidnext,              \* UIDs below were given in this generation
  modseq, changedAt,    \* its change counter, and when each mail last changed
  (* the database *)
  rows,                 \* the cached messages, by UID (the UNIQUE index)
  fs,                   \* FolderSync: uidvalidity, highest_modseq, last_sync
  (* the process *)
  fullDue,              \* _voller_abgleich_faellig
  pc,                   \* where the sync of this folder stands
  flags,                \* its parameter: FALSE for a pass woken by IDLE
  sgen, total,          \* what STATUS said, zeros when it failed
  mod,                  \* HIGHESTMODSEQ of this connection's last SELECT
  reset, fsReset,       \* generation_reset, and the record reset with it
  snap, work,           \* the rows as loaded, and as the sync wants them
  reliable, recent,     \* trust in the view; the newest of it already cached
  advance,              \* whether "flags" is truthy at the end
  req,                  \* the user request in flight
  found, caught         \* mails to be inspected, and those found to be spam

server == <<gen, msgs, seen, uidnext, modseq, changedAt>>
local  == <<flags, sgen, total, mod, reset, fsReset, snap, work, reliable,
            recent, advance>>
protection == <<found, caught>>
cacheVars == <<gen, msgs, seen, uidnext, modseq, changedAt, rows, fs, fullDue, pc,
          flags, sgen, total, mod, reset, fsReset, snap, work, reliable,
          recent, advance, req, found, caught>>

EmptyTable == [u \in Uids |-> NoRow]
NoReq == [step |-> "none", uid |-> 0, gen |-> 0, want |-> "read"]

CacheInit ==
  /\ gen = 1 /\ msgs = {} /\ seen = {} /\ uidnext = 1
  /\ modseq = 1 /\ changedAt = [u \in Uids |-> 0]
  /\ rows = EmptyTable
  /\ fs = [uidv |-> 0, modseq |-> 0, last |-> "none"]
  /\ fullDue = TRUE
  /\ pc = "idle" /\ flags = FALSE /\ sgen = 0 /\ total = 0 /\ mod = 0
  /\ reset = FALSE /\ fsReset = FALSE /\ snap = EmptyTable /\ work = EmptyTable
  /\ reliable = FALSE /\ recent = {} /\ advance = FALSE
  /\ req = NoReq /\ found = {} /\ caught = {}

Cached(u) == rows[u] # NoRow

\* the sync is over: its lock, connection and session are given back
Drop ==
  /\ pc' = "idle" /\ flags' = FALSE /\ sgen' = 0 /\ total' = 0 /\ mod' = 0
  /\ reset' = FALSE /\ fsReset' = FALSE /\ snap' = EmptyTable /\ work' = EmptyTable
  /\ reliable' = FALSE /\ recent' = {} /\ advance' = FALSE

-----------------------------------------------------------------------------
(* The server, and other clients of the mailbox. *)

\* A server with CONDSTORE counts every change of the mails us, its clients'
\* commands included.
Bump(us) ==
  IF ~ Condstore THEN UNCHANGED <<modseq, changedAt>>
  ELSE /\ modseq < MaxModseq
       /\ modseq' = modseq + 1
       /\ changedAt' = [u \in Uids |-> IF u \in us THEN modseq + 1 ELSE changedAt[u]]

Deliver ==
  /\ uidnext \in Uids
  /\ msgs' = msgs \cup {uidnext} /\ uidnext' = uidnext + 1
  /\ Bump({uidnext})
  /\ UNCHANGED <<local, gen, seen, rows, fs, fullDue, pc, req, protection>>

Reflag(u) ==
  /\ u \in msgs
  /\ seen' = IF u \in seen THEN seen \ {u} ELSE seen \cup {u}
  /\ Bump({u})
  /\ UNCHANGED <<local, gen, msgs, uidnext, rows, fs, fullDue, pc, req, protection>>

Expunge(u) ==
  /\ u \in msgs
  /\ msgs' = msgs \ {u} /\ seen' = seen \ {u}
  /\ UNCHANGED <<local, gen, uidnext, modseq, changedAt, rows, fs, fullDue, pc, req, protection>>

\* A new UIDVALIDITY: every UID is renumbered.  A server that does this ends
\* the sessions that have the mailbox selected, so the sync and a request on
\* the way to the server fail.
Regenerate ==
  /\ gen < MaxGen
  /\ gen' = gen + 1
  /\ \E n \in 0 .. Cardinality(msgs) : msgs' = 1 .. n /\ uidnext' = n + 1
  /\ \E s \in SUBSET msgs' : seen' = s
  /\ Bump(Uids)
  /\ Drop
  /\ req' = IF req.step = "asked" THEN NoReq ELSE req
  /\ UNCHANGED <<rows, fs, fullDue, protection>>

-----------------------------------------------------------------------------
(* Time. *)

StickyExpires(u) ==
  /\ Cached(u) /\ rows[u].sticky
  /\ rows' = [rows EXCEPT ![u].sticky = FALSE]
  /\ UNCHANGED <<server, local, fs, fullDue, pc, req, protection>>

TombstoneExpires(u) ==
  /\ Cached(u) /\ rows[u].hidden = "active"
  /\ rows' = [rows EXCEPT ![u].hidden = "expired"]
  /\ UNCHANGED <<server, local, fs, fullDue, pc, req, protection>>

\* _flag_intervall since last_sync; rounds are far enough apart for it to pass
\* between two of them.
IntervalPasses ==
  /\ pc = "idle" /\ fs.last = "recent"
  /\ fs' = [fs EXCEPT !.last = "old"]
  /\ UNCHANGED <<server, local, rows, fullDue, pc, req, protection>>

\* _FLAG_FULL_SECS since the last full check
FullCheckDue ==
  /\ pc = "idle" /\ ~ fullDue
  /\ fullDue' = TRUE
  /\ UNCHANGED <<server, local, rows, fs, pc, req, protection>>

-----------------------------------------------------------------------------
(* The sync, under the folder's lock. *)

\* a row of another UIDVALIDITY is in the cache
OtherGeneration(g) == g # 0 /\ \E u \in Uids : Cached(u) /\ rows[u].gen # g
RecordOutdated(g) == OtherGeneration(g) \/ (g # 0 /\ fs.uidv # g)

\* Which HIGHESTMODSEQ a pooled connection remembers depends on when it last
\* selected the folder: any earlier state of this mailbox.  A pass without
\* flags has no use for it.
Begin(f) ==
  /\ pc = "idle" /\ pc' = "search"
  /\ flags' = f
  /\ mod' \in IF Condstore /\ f THEN 1 .. modseq ELSE {0}
  /\ \/ sgen' = gen /\ total' = Cardinality(msgs)
     \/ "status" \in Faults /\ sgen' = 0 /\ total' = 0
  /\ reset' = OtherGeneration(sgen')
  /\ fsReset' = RecordOutdated(sgen')
  /\ snap' = IF reset' THEN EmptyTable ELSE rows
  /\ work' = snap'
  /\ fullDue' = (fullDue \/ reset')
  /\ UNCHANGED <<server, rows, fs, reliable, recent, advance, req, protection>>

\* STATUS counts less than twice what the search lists, or counts nothing
Trusted(view) == total = 0 \/ 2 * Cardinality(view) >= total

\* a miss that is not counted
StuckPruned(row, listed, trust) ==
  IF listed /\ row.hidden = "expired" THEN [row EXCEPT !.hidden = "no"] ELSE row
\* a tombstone lifted at once
HastyPruned(row, listed, trust) ==
  IF listed THEN [row EXCEPT !.hidden = "no"] ELSE row

\* what becomes of a cached row, listed or not in a trusted view or not
Pruned(row, listed, trust) ==
  IF listed
  THEN [row EXCEPT !.miss = 0,
                   !.hidden = IF @ = "expired" /\ trust THEN "no" ELSE @]
  ELSE IF ~ trust THEN row
  ELSE IF row.miss + 1 >= MissLimit THEN NoRow
  ELSE [row EXCEPT !.miss = @ + 1]

NewRow(u) == [gen |-> sgen, seen |-> u \in seen, sticky |-> FALSE,
              hidden |-> "no", miss |-> 0]

Newest(view) == {u \in view : Cardinality({v \in view : v > u}) < Window}

\* Headers of unknown UIDs are fetched newest first until the deadline cuts off
\* the oldest.
Search ==
  /\ pc = "search" /\ pc' = "flags"
  /\ \E view \in {msgs} \cup (IF "partial" \in Faults THEN SUBSET msgs ELSE {}),
        oldest \in 1 .. MaxUid + 1 :
       LET kept == [u \in Uids |-> IF snap[u] = NoRow THEN NoRow
                                   ELSE Pruned(snap[u], u \in view, Trusted(view))]
           unknown == {u \in view : kept[u] = NoRow}
           fetched == {u \in unknown : u >= oldest}
       IN /\ unknown # {} => fetched # {}
          /\ reliable' = Trusted(view)
          /\ recent' = {u \in Newest(view) : kept[u] # NoRow}
          /\ work' = [u \in Uids |-> IF u \in fetched THEN NewRow(u) ELSE kept[u]]
  /\ UNCHANGED <<server, rows, fs, fullDue, flags, sgen, total, mod, reset,
                 fsReset, snap, advance, req, protection>>

Since == IF fsReset THEN 0 ELSE fs.modseq
Elapsed == fsReset \/ fs.last # "recent"
Changed == {u \in msgs : changedAt[u] > Since}

BadFromServer(row, u) == [row EXCEPT !.seen = u \in seen]
FromServer(row, u) == IF row.sticky THEN row ELSE [row EXCEPT !.seen = u \in seen]

UseCondstore ==
  flags /\ reliable /\ mod > 0 /\ Since > 0 /\ mod >= Since

\* the loop over the changes rebinds "flags" to the last change's flag set
Rebound == IF Changed = {} THEN {TRUE}
           ELSE {b \in BOOLEAN : \E u \in Changed : b <=> u \in seen}

\* whether the newest headers are read as well
QuickOnlyFullRead(quick) == reliable /\ ~ quick /\ flags /\ Elapsed
FullRead(quick) == reliable /\ (IF quick THEN fullDue ELSE flags /\ Elapsed)

CheckFlags ==
  /\ pc = "flags" /\ pc' = "commit"
  /\ \E quick \in {UseCondstore} \cup
                  (IF "changedsince" \in Faults THEN {FALSE} ELSE {}) :
       LET full == FullRead(quick)
           known == {u \in Uids : snap[u] # NoRow /\ work[u] # NoRow}
           read == (IF quick THEN Changed \cap known ELSE {})
                     \cup (IF full THEN recent \cap msgs ELSE {})
       IN /\ work' = [u \in Uids |-> IF u \in read THEN FromServer(work[u], u)
                                     ELSE work[u]]
          /\ fullDue' = (fullDue /\ ~ full)
          /\ advance' \in IF quick THEN Rebound ELSE {flags}
  /\ UNCHANGED <<server, rows, fs, flags, sgen, total, mod, reset, fsReset,
                 snap, reliable, recent, req, protection>>

Inserted(u) == snap[u] = NoRow /\ work[u] # NoRow
Deleted(u)  == snap[u] # NoRow /\ work[u] = NoRow
Dirty(u)    == snap[u] # NoRow /\ work[u] # NoRow /\ work[u] # snap[u]

BadLeft(u) == Cached(u)
\* what DELETE ... WHERE uidvalidity != sgen leaves of the table
Left(u) == Cached(u) /\ ~ (reset /\ rows[u].gen # sgen)

Collides == \E u \in Uids : Inserted(u) /\ Left(u)     \* IntegrityError
Missing  == \E u \in Uids : Dirty(u) /\ ~ Cached(u)    \* StaleDataError

\* UPDATE sets the attributes that differ from the snapshot
Merged(u) ==
  [rows[u] EXCEPT
     !.seen   = IF work[u].seen # snap[u].seen THEN work[u].seen ELSE @,
     !.hidden = IF work[u].hidden # snap[u].hidden THEN work[u].hidden ELSE @,
     !.miss   = work[u].miss]

NewRecord ==
  [uidv   |-> IF sgen # 0 THEN sgen ELSE fs.uidv,
   modseq |-> IF mod > 0 /\ advance THEN mod ELSE Since,
   last   |-> IF advance \/ fsReset \/ fs.last = "none" THEN "recent" ELSE fs.last]

Commit ==
  /\ pc = "commit"
  /\ ~ Collides /\ ~ Missing
  /\ rows' = [u \in Uids |-> IF Inserted(u) THEN work[u]
                             ELSE IF ~ Left(u) \/ Deleted(u) THEN NoRow
                             ELSE IF Dirty(u) THEN Merged(u)
                             ELSE rows[u]]
  /\ fs' = NewRecord
  /\ \/ found = {} /\ caught = {} /\ found' = {u \in Uids : Inserted(u)}
     \/ UNCHANGED found           \* a sync that a client asked for
  /\ Drop
  /\ UNCHANGED <<server, fullDue, req, caught>>

\* the commit raises: nothing of this sync is stored
Rollback ==
  /\ pc = "commit"
  /\ Collides \/ Missing
  /\ Drop
  /\ UNCHANGED <<server, rows, fs, fullDue, req, protection>>

\* the connection fails somewhere on the way
Abort ==
  /\ "abort" \in Faults /\ pc # "idle"
  /\ Drop
  /\ UNCHANGED <<server, rows, fs, fullDue, req, protection>>

Crash ==
  /\ "crash" \in Faults
  /\ Drop
  /\ req' = NoReq
  /\ fullDue' = TRUE
  /\ found' = {} /\ caught' = {}
  /\ UNCHANGED <<server, rows, fs>>

-----------------------------------------------------------------------------
(* Requests of users: the server first, then the cache. *)

Visible(u) == Cached(u) /\ rows[u].hidden = "no"

\* _generation_args: the generation shown must be known and the stored one
Accepted(u) == rows[u].gen # 0 /\ fs.uidv \in {0, rows[u].gen}

Ask(u, want) ==
  /\ req = NoReq
  /\ Visible(u) /\ Accepted(u)
  /\ req' = [step |-> "asked", uid |-> u, gen |-> rows[u].gen, want |-> want]
  /\ UNCHANGED <<server, local, rows, fs, fullDue, pc, protection>>

\* mailbox_generation on the connection that stores: 409 for another one
Refused ==
  /\ req.step = "asked" /\ req.gen # gen
  /\ req' = NoReq
  /\ UNCHANGED <<server, local, rows, fs, fullDue, pc, protection>>

StoreGuard == req.step = "asked" /\ req.gen = gen

StoreSeen ==
  /\ StoreGuard /\ req.want # "delete"
  /\ seen' = IF req.uid \notin msgs THEN seen
             ELSE IF req.want = "read" THEN seen \cup {req.uid} ELSE seen \ {req.uid}
  /\ IF seen' = seen THEN UNCHANGED <<modseq, changedAt>>
     ELSE Bump({req.uid})
  /\ req' = [req EXCEPT !.step = "stored"]
  /\ UNCHANGED <<local, gen, msgs, uidnext, rows, fs, fullDue, pc, protection>>

\* delete and move; a server may go on listing what it acknowledged
Remove ==
  /\ StoreGuard /\ req.want = "delete"
  /\ \/ msgs' = msgs \ {req.uid} /\ seen' = seen \ {req.uid}
     \/ "zombie" \in Faults /\ UNCHANGED <<msgs, seen>>
  /\ req' = [req EXCEPT !.step = "stored"]
  /\ UNCHANGED <<local, gen, uidnext, modseq, changedAt, rows, fs, fullDue, pc, protection>>

Decided(row) ==
  IF req.want = "delete" THEN [row EXCEPT !.hidden = "active"]
  ELSE [row EXCEPT !.seen = req.want = "read", !.sticky = TRUE]

\* set_flags_bulk and hide_uids, WHERE uid = .. AND uidvalidity = ..
Record ==
  /\ req.step = "stored"
  /\ rows' = IF Cached(req.uid) /\ rows[req.uid].gen = req.gen
             THEN [rows EXCEPT ![req.uid] = Decided(@)] ELSE rows
  /\ req' = NoReq
  /\ UNCHANGED <<server, local, fs, fullDue, pc, protection>>

-----------------------------------------------------------------------------
(* Spam and virus protection looks at what a background sync has found.     *)

\* inspect_new moves what it catches out of the folder ...
Inspect ==
  /\ found # {} /\ found' = {}
  /\ caught' \in SUBSET (found \cap msgs)
  /\ msgs' = msgs \ caught' /\ seen' = seen \ caught'
  /\ UNCHANGED <<local, gen, uidnext, modseq, changedAt, rows, fs, fullDue, pc, req>>

\* ... and remove_uids deletes its rows, without a look at their generation and
\* without the folder's lock.
Forget ==
  /\ caught # {} /\ caught' = {}
  /\ rows' = [u \in Uids |-> IF u \in caught THEN NoRow ELSE rows[u]]
  /\ UNCHANGED <<server, local, fs, fullDue, pc, req, found>>

-----------------------------------------------------------------------------
Environment ==
  \/ Deliver \/ Regenerate
  \/ \E u \in Uids : Reflag(u) \/ Expunge(u)

CacheTimers ==
  \/ \E u \in Uids : StickyExpires(u) \/ TombstoneExpires(u)
  \/ IntervalPasses \/ FullCheckDue

Sync == Search \/ CheckFlags \/ Commit \/ Rollback

Request ==
  \/ \E u \in Uids, want \in Wants : Ask(u, want)
  \/ Refused \/ StoreSeen \/ Remove \/ Record

CacheNext ==
  \/ Environment \/ CacheTimers \/ Sync \/ Request \/ Inspect \/ Forget
  \/ Abort \/ Crash
  \/ \E f \in BOOLEAN : Begin(f)

CacheSpec == CacheInit /\ [][CacheNext]_cacheVars

\* The regular round comes every _INTERVAL seconds and gets the lock in the end,
\* however many IDLE passes there are; time passes; requests are answered.
FairCache ==
  /\ CacheSpec
  /\ WF_cacheVars(Sync) /\ SF_cacheVars(Begin(TRUE))
  /\ SF_cacheVars(IntervalPasses) /\ SF_cacheVars(FullCheckDue)
  /\ \A u \in 1 .. MaxUid : WF_cacheVars(StickyExpires(u)) /\ WF_cacheVars(TombstoneExpires(u))
  /\ WF_cacheVars(Refused \/ StoreSeen \/ Remove \/ Record)
  /\ WF_cacheVars(Inspect \/ Forget)

-----------------------------------------------------------------------------
(* Properties. *)

CacheTypeOK ==
  /\ gen \in Gens /\ msgs \in SUBSET Uids /\ seen \in SUBSET Uids
  /\ uidnext \in 1 .. MaxUid + 1
  /\ modseq \in 1 .. MaxModseq /\ changedAt \in [Uids -> 0 .. MaxModseq]
  /\ rows \in [Uids -> Row \cup {NoRow}]
  /\ fs \in [uidv : 0 .. MaxGen, modseq : 0 .. MaxModseq, last : {"none", "recent", "old"}]
  /\ fullDue \in BOOLEAN
  /\ pc \in {"idle", "search", "flags", "commit"}
  /\ flags \in BOOLEAN /\ sgen \in 0 .. MaxGen /\ total \in 0 .. MaxUid
  /\ mod \in 0 .. MaxModseq
  /\ reset \in BOOLEAN /\ fsReset \in BOOLEAN
  /\ snap \in [Uids -> Row \cup {NoRow}] /\ work \in [Uids -> Row \cup {NoRow}]
  /\ reliable \in BOOLEAN /\ recent \in SUBSET Uids /\ advance \in BOOLEAN
  /\ pc \in {"flags", "commit"} => \A u \in recent : work[u] # NoRow
  /\ req \in [step : {"none", "asked", "stored"}, uid : 0 .. MaxUid,
              gen : 0 .. MaxGen, want : WantKinds]
  /\ found \in SUBSET Uids /\ caught \in SUBSET Uids

\* Inductive with CacheTypeOK: how the rows a sync works on differ from the rows it
\* loaded, and what requests may do to the table meanwhile.
LoadedInv ==
  /\ \A u \in Uids : Inserted(u) => work[u].gen = sgen /\ work[u].hidden = "no"
  /\ \A u \in Uids : snap[u] # NoRow /\ work[u] # NoRow =>
       /\ work[u].sticky = snap[u].sticky
       /\ snap[u].sticky => work[u].seen = snap[u].seen
       /\ work[u].hidden # snap[u].hidden => snap[u].hidden = "expired" /\ work[u].hidden = "no"
  /\ \A u \in Uids : Cached(u) /\ snap[u] # NoRow /\ snap[u].hidden = "expired"
       => rows[u].hidden = "expired"
  /\ req.step # "none" =>
       req.uid \in Uids /\ (Cached(req.uid) => rows[req.uid].hidden = "no")

\* The list never mixes UIDs of two generations, and the generation a client is
\* checked against is the one of the rows it is shown.
OneGeneration == \A u \in Uids : Cached(u) => rows[u].gen = fs.uidv

\* Inductive with CacheTypeOK as long as STATUS never fails: a running sync has the
\* server's generation; it loaded every row there is, or all of them are old.
GenerationInv ==
  /\ OneGeneration
  /\ pc # "idle" =>
       /\ sgen = gen
       /\ \A u \in Uids : Inserted(u) => work[u].gen = sgen
       /\ \A u \in Uids : Cached(u) =>
            IF reset THEN rows[u].gen # sgen ELSE rows[u].gen = sgen /\ snap[u] # NoRow

\* DELETE + INSERT of a new generation, and the INSERT of what a sync found
\* unknown, never meet the UNIQUE index, whatever was done meanwhile.
NeverCollides == pc = "commit" => ~ Collides

\* A decision of the user that the sync saw when it loaded the rows is not
\* overwritten by it, whether the row changes again before the commit or not.
StickyRespected ==
  [][ \A u \in Uids :
        Commit /\ snap[u] # NoRow /\ snap[u].sticky /\ rows'[u] # NoRow
          => rows'[u].seen = rows[u].seen ]_cacheVars

\* A tombstone younger than its limit is lifted by no step, whatever the sync
\* loaded before it was set; only a new UIDVALIDITY puts another mail there.
TombstoneHolds ==
  [][ \A u \in Uids :
        Cached(u) /\ rows[u].hidden = "active"
          /\ rows'[u] # NoRow /\ rows'[u].gen = rows[u].gen
        => rows'[u].hidden # "no" ]_cacheVars

\* When the mailbox comes to rest, the cache lists its mails, and only those.
ListConverges == <>[](\A u \in Uids : Cached(u) <=> u \in msgs)

\* ... with the server's read flags.
FlagsConverge ==
  <>[](\A u \in msgs : Cached(u) => (rows[u].seen <=> u \in seen))

\* While a user's decision is fresh no sync changes the read flag it set.
ClickSurvives ==
  [][ \A u \in Uids : Commit /\ Cached(u) /\ rows[u].sticky /\ rows'[u] # NoRow
        => rows'[u].seen = rows[u].seen ]_cacheVars
=============================================================================
