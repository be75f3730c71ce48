---------------------------- MODULE Lists_proofs ----------------------------
(* The list of mails, kept in the cache and shown by the client.  What the     *)
(* delta sync of a folder guarantees for every number of mails, generations,   *)
(* changes and misses, whatever the size of the window; then, for any folders, *)
(* mails, texts and numbers of requests, that what is in the client's list     *)
(* answers the screen and a mail being deleted is not in it.                   *)
EXTENDS FolderSync, MailList, FiniteSetTheorems, TLAPS

-----------------------------------------------------------------------------
(* FolderSync: the cache of a folder                                           *)

USE DEF server, local, protection

-----------------------------------------------------------------------------
(* Types. *)

\* The mails of a folder are at most MaxUid many.
LEMMA CountBound ==
  ASSUME NEW S \in SUBSET Uids
  PROVE  IsFiniteSet(S) /\ Cardinality(S) \in 0 .. MaxUid
<1>1. IsFiniteSet(Uids) /\ Cardinality(Uids) = MaxUid
  BY BoundsAssumption, FS_Interval DEF Uids
<1>2. IsFiniteSet(S) /\ Cardinality(S) <= MaxUid
  BY <1>1, FS_Subset
<1> QED
  BY <1>2, FS_CardinalityType, BoundsAssumption

\* What a sync may make of a row it loaded: nothing, or a row of the same
\* generation with the same flag and decision, an expired tombstone lifted.
Keeps(p, row) ==
  /\ p \in Row \cup {NoRow}
  /\ p # NoRow => /\ p.gen = row.gen /\ p.seen = row.seen /\ p.sticky = row.sticky
                  /\ p.hidden # row.hidden => row.hidden = "expired" /\ p.hidden = "no"

\* Pruning keeps to that, and forgets nothing that is listed.
LEMMA PrunedKeeps ==
  ASSUME NEW row \in Row, NEW u \in Uids, NEW view \in SUBSET Uids
  PROVE  /\ Keeps(Pruned(row, u \in view, Trusted(view)), row)
         /\ u \in view => Pruned(row, u \in view, Trusted(view)) # NoRow
<1> DEFINE p == Pruned(row, u \in view, Trusted(view))
<1> USE BoundsAssumption, NoRowAssumption
<1>1. CASE u \in view
  <2>1. p = [row EXCEPT !.miss = 0,
                        !.hidden = IF row.hidden = "expired" /\ Trusted(view) THEN "no" ELSE row.hidden]
    BY <1>1 DEF Pruned
  <2>2. p \in Row
    <3>1. row.hidden \in {"no", "active", "expired"}
      BY DEF Row
    <3>2. PICK h \in {"no", "active", "expired"} : p = [row EXCEPT !.miss = 0, !.hidden = h]
      BY <2>1, <3>1
    <3> HIDE DEF p
    <3>3. [row EXCEPT !.miss = 0] \in Row
      BY DEF Row
    <3>4. [[row EXCEPT !.miss = 0] EXCEPT !.hidden = h] \in Row
      BY <3>3 DEF Row
    <3>5. [row EXCEPT !.miss = 0, !.hidden = h] = [[row EXCEPT !.miss = 0] EXCEPT !.hidden = h]
      OBVIOUS
    <3> QED
      BY <3>2, <3>4, <3>5
  <2>3. p.gen = row.gen /\ p.seen = row.seen /\ p.sticky = row.sticky
    BY <2>1 DEF Row
  <2>4. p.hidden = IF row.hidden = "expired" /\ Trusted(view) THEN "no" ELSE row.hidden
    BY <2>1 DEF Row
  <2> QED
    BY <2>2, <2>3, <2>4 DEF Keeps
<1>2. CASE u \notin view
  <2>1. p \in {row, NoRow} \/ (p = [row EXCEPT !.miss = row.miss + 1] /\ row.miss + 1 < MissLimit)
    BY <1>2 DEF Pruned, Row
  <2>2. ASSUME p = [row EXCEPT !.miss = row.miss + 1], row.miss + 1 < MissLimit
        PROVE  /\ p \in Row /\ p.gen = row.gen /\ p.seen = row.seen
               /\ p.sticky = row.sticky /\ p.hidden = row.hidden
    BY <2>2 DEF Row
  <2> QED
    BY <1>2, <2>1, <2>2 DEF Keeps
<1> QED
  BY <1>1, <1>2
\* A commit writes read flag, tombstone and misses into the row it finds.
LEMMA MergedIs ==
  ASSUME CacheTypeOK, NEW u \in Uids, Cached(u), snap[u] # NoRow, work[u] # NoRow
  PROVE  /\ Merged(u) \in Row
         /\ Merged(u).gen = rows[u].gen
         /\ Merged(u).seen = IF work[u].seen # snap[u].seen THEN work[u].seen ELSE rows[u].seen
         /\ Merged(u).hidden = IF work[u].hidden # snap[u].hidden THEN work[u].hidden
                                                               ELSE rows[u].hidden
<1>1. rows[u] \in Row /\ work[u] \in Row
  BY DEF CacheTypeOK, Cached
<1> DEFINE s == IF work[u].seen # snap[u].seen THEN work[u].seen ELSE rows[u].seen
           h == IF work[u].hidden # snap[u].hidden THEN work[u].hidden ELSE rows[u].hidden
           n == work[u].miss
<1>2. s \in BOOLEAN /\ h \in {"no", "active", "expired"} /\ n \in 0 .. MissLimit
  BY <1>1 DEF Row
<1>3. Merged(u) = [rows[u] EXCEPT !.seen = s, !.hidden = h, !.miss = n]
  BY DEF Merged
<1> HIDE DEF s, h, n
<1>4. [rows[u] EXCEPT !.seen = s] \in Row
  BY <1>1, <1>2 DEF Row
<1>5. [[rows[u] EXCEPT !.seen = s] EXCEPT !.hidden = h] \in Row
  BY <1>2, <1>4 DEF Row
<1>6. [[[rows[u] EXCEPT !.seen = s] EXCEPT !.hidden = h] EXCEPT !.miss = n] \in Row
  BY <1>2, <1>5 DEF Row
<1>7. [rows[u] EXCEPT !.seen = s, !.hidden = h, !.miss = n]
        = [[[rows[u] EXCEPT !.seen = s] EXCEPT !.hidden = h] EXCEPT !.miss = n]
  OBVIOUS
<1>8. Merged(u).gen = rows[u].gen /\ Merged(u).seen = s /\ Merged(u).hidden = h
  BY <1>1, <1>3 DEF Row
<1> QED
  BY <1>3, <1>6, <1>7, <1>8 DEF s, h

\* The server's counter and its marks stay within their bound.
LEMMA BumpType ==
  ASSUME CacheTypeOK, NEW us, Bump(us)
  PROVE  modseq' \in 1 .. MaxModseq /\ changedAt' \in [Uids -> 0 .. MaxModseq]
  BY BoundsAssumption DEF CacheTypeOK, Bump

\* A sync that is over leaves nothing behind.
LEMMA DropType ==
  ASSUME Drop
  PROVE  /\ pc' = "idle"
         /\ flags' \in BOOLEAN /\ sgen' \in 0 .. MaxGen /\ total' \in 0 .. MaxUid
         /\ mod' \in 0 .. MaxModseq
         /\ reset' \in BOOLEAN /\ fsReset' \in BOOLEAN
         /\ snap' \in [Uids -> Row \cup {NoRow}] /\ work' \in [Uids -> Row \cup {NoRow}]
         /\ reliable' \in BOOLEAN /\ recent' \in SUBSET Uids /\ advance' \in BOOLEAN
<1>1. snap' \in [Uids -> Row \cup {NoRow}] /\ work' \in [Uids -> Row \cup {NoRow}]
  BY DEF Drop, EmptyTable
<1>2. sgen' \in 0 .. MaxGen /\ total' \in 0 .. MaxUid /\ mod' \in 0 .. MaxModseq
  BY BoundsAssumption DEF Drop
<1>3. /\ pc' = "idle" /\ flags' = FALSE /\ reset' = FALSE /\ fsReset' = FALSE
      /\ reliable' = FALSE /\ recent' = {} /\ advance' = FALSE
  BY DEF Drop
<1> QED
  BY <1>1, <1>2, <1>3

\* Nothing cached, nothing running: well typed.
LEMMA TypeInit == CacheInit => CacheTypeOK
<1> USE BoundsAssumption
<1> SUFFICES ASSUME CacheInit PROVE CacheTypeOK
  OBVIOUS
<1>1. /\ gen \in Gens /\ msgs \in SUBSET Uids /\ seen \in SUBSET Uids
      /\ uidnext \in 1 .. MaxUid + 1 /\ modseq \in 1 .. MaxModseq
      /\ changedAt \in [Uids -> 0 .. MaxModseq]
  BY DEF CacheInit, Gens
<1>2. /\ rows \in [Uids -> Row \cup {NoRow}] /\ snap \in [Uids -> Row \cup {NoRow}]
      /\ work \in [Uids -> Row \cup {NoRow}]
  BY DEF CacheInit, EmptyTable
<1>3. fs \in [uidv : 0 .. MaxGen, modseq : 0 .. MaxModseq, last : {"none", "recent", "old"}]
  BY DEF CacheInit
<1>4. req \in [step : {"none", "asked", "stored"}, uid : 0 .. MaxUid,
                gen : 0 .. MaxGen, want : WantKinds]
  BY DEF CacheInit, NoReq, WantKinds
<1>5. sgen \in 0 .. MaxGen /\ total \in 0 .. MaxUid /\ mod \in 0 .. MaxModseq
  BY DEF CacheInit
<1>6. /\ fullDue = TRUE /\ pc = "idle" /\ flags = FALSE /\ reset = FALSE /\ fsReset = FALSE
      /\ reliable = FALSE /\ recent = {} /\ advance = FALSE /\ found = {} /\ caught = {}
  BY DEF CacheInit
<1> QED
  BY <1>1, <1>2, <1>3, <1>4, <1>5, <1>6 DEF CacheTypeOK

\* A search changes cached rows by pruning only and adds rows of its own
\* generation, unhidden, where nothing was loaded.
LEMMA SearchRows ==
  ASSUME CacheTypeOK, Search
  PROVE  /\ work' \in [Uids -> Row \cup {NoRow}]
         /\ reliable' \in BOOLEAN /\ recent' \in SUBSET Uids
         /\ \A u \in recent' : work'[u] # NoRow
         /\ \A u \in Uids : work'[u] # NoRow =>
              IF snap[u] = NoRow THEN work'[u].gen = sgen /\ work'[u].hidden = "no"
              ELSE Keeps(work'[u], snap[u])
<1> DEFINE Kept(view) == [u \in Uids |-> IF snap[u] = NoRow THEN NoRow
                                        ELSE Pruned(snap[u], u \in view, Trusted(view))]
<1>1. PICK view \in {msgs} \cup (IF "partial" \in Faults THEN SUBSET msgs ELSE {}),
           oldest \in 1 .. MaxUid + 1 :
        LET unknown == {u \in view : Kept(view)[u] = NoRow}
            fetched == {u \in unknown : u >= oldest}
        IN /\ reliable' = Trusted(view)
           /\ recent' = {u \in Newest(view) : Kept(view)[u] # NoRow}
           /\ work' = [u \in Uids |-> IF u \in fetched THEN NewRow(u) ELSE Kept(view)[u]]
  BY DEF Search
<1>2. view \in SUBSET Uids
  BY <1>1 DEF CacheTypeOK
<1> DEFINE fetched == {u \in view : Kept(view)[u] = NoRow /\ u >= oldest}
<1>3. work' = [u \in Uids |-> IF u \in fetched THEN NewRow(u) ELSE Kept(view)[u]]
  <2>1. fetched = {u \in {v \in view : Kept(view)[v] = NoRow} : u >= oldest}
    OBVIOUS
  <2> QED
    BY <1>1, <2>1
<1>4. reliable' \in BOOLEAN /\ recent' \in SUBSET Uids
  BY <1>1, <1>2 DEF Trusted, Newest
<1>6. ASSUME NEW u \in recent' PROVE work'[u] # NoRow
  <2>1. u \in Uids /\ Kept(view)[u] # NoRow
    BY <1>1, <1>4
  <2> QED
    BY <1>3, <2>1
<1>5. ASSUME NEW u \in Uids
      PROVE  /\ work'[u] \in Row \cup {NoRow}
             /\ work'[u] # NoRow =>
                  IF snap[u] = NoRow THEN work'[u].gen = sgen /\ work'[u].hidden = "no"
                  ELSE Keeps(work'[u], snap[u])
  <2> DEFINE p == Pruned(snap[u], u \in view, Trusted(view))
  <2>1. CASE snap[u] = NoRow
    <3>1. work'[u] = NewRow(u) \/ work'[u] = NoRow
      BY <1>3, <2>1
    <3>2. NewRow(u) \in Row /\ NewRow(u).gen = sgen /\ NewRow(u).hidden = "no"
      BY BoundsAssumption DEF NewRow, Row, CacheTypeOK
    <3> QED
      BY <2>1, <3>1, <3>2
  <2>2. CASE snap[u] # NoRow
    <3>1. snap[u] \in Row
      BY <2>2 DEF CacheTypeOK
    <3>2. Keeps(p, snap[u]) /\ (u \in view => p # NoRow)
      BY <1>2, <3>1, PrunedKeeps
    <3>3. Kept(view)[u] = p
      BY <2>2
    <3>4. u \notin fetched
      BY <3>2, <3>3
    <3>5. work'[u] = p
      BY <1>3, <3>3, <3>4
    <3> HIDE DEF p
    <3>6. Keeps(work'[u], snap[u])
      BY <3>2, <3>5
    <3> QED
      BY <2>2, <3>6 DEF Keeps
  <2> QED
    BY <2>1, <2>2
<1> QED
  BY <1>3, <1>4, <1>5, <1>6

\* The flag check changes nothing but read flags, and none that a fresh
\* decision of the user protects.
LEMMA CheckFlagsRows ==
  ASSUME CacheTypeOK, CheckFlags
  PROVE  /\ work' \in [Uids -> Row \cup {NoRow}]
         /\ pc' = "commit" /\ fullDue' \in BOOLEAN /\ advance' \in BOOLEAN
         /\ \A u \in Uids : work[u] = NoRow => work'[u] = NoRow
         /\ \A u \in Uids : work[u] # NoRow =>
              /\ work'[u] # NoRow /\ work'[u].gen = work[u].gen
              /\ work'[u].sticky = work[u].sticky /\ work'[u].hidden = work[u].hidden
              /\ work[u].sticky => work'[u].seen = work[u].seen
<1>1. PICK quick \in {UseCondstore} \cup (IF "changedsince" \in Faults THEN {FALSE} ELSE {}) :
        LET full == FullRead(quick)
            known == {u \in Uids : snap[u] # NoRow /\ work[u] # NoRow}
            read == (IF quick THEN Changed \cap known ELSE {})
                      \cup (IF full THEN recent \cap msgs ELSE {})
        IN /\ work' = [u \in Uids |-> IF u \in read THEN FromServer(work[u], u) ELSE work[u]]
           /\ fullDue' = (fullDue /\ ~ full)
           /\ advance' \in IF quick THEN Rebound ELSE {flags}
  BY DEF CheckFlags
<1> DEFINE known == {u \in Uids : snap[u] # NoRow /\ work[u] # NoRow}
           read == (IF quick THEN Changed \cap known ELSE {})
                     \cup (IF FullRead(quick) THEN recent \cap msgs ELSE {})
<1>2. work' = [u \in Uids |-> IF u \in read THEN FromServer(work[u], u) ELSE work[u]]
  BY <1>1
<1>3. \A u \in read : work[u] # NoRow
  BY DEF CheckFlags, CacheTypeOK
<1>4. fullDue' \in BOOLEAN /\ advance' \in BOOLEAN /\ pc' = "commit"
  <2>1. fullDue' \in BOOLEAN
    BY <1>1
  <2>2. Rebound \in SUBSET BOOLEAN
    BY DEF Rebound
  <2>3. flags \in BOOLEAN
    BY DEF CacheTypeOK
  <2>4. advance' \in BOOLEAN
    BY <1>1, <2>2, <2>3
  <2>5. pc' = "commit"
    BY DEF CheckFlags
  <2> QED
    BY <2>1, <2>4, <2>5
<1>5. ASSUME NEW row \in Row, NEW u \in Uids
      PROVE  LET r == FromServer(row, u)
             IN /\ r \in Row /\ r.gen = row.gen /\ r.sticky = row.sticky
                /\ r.hidden = row.hidden /\ (row.sticky => r.seen = row.seen)
  <2>1. CASE row.sticky
    BY <2>1 DEF FromServer
  <2>2. CASE ~ row.sticky
    <3>1. FromServer(row, u) = [row EXCEPT !.seen = u \in seen]
      BY <2>2 DEF FromServer
    <3>2. [row EXCEPT !.seen = u \in seen] \in Row
      <4>1. (u \in seen) \in BOOLEAN
        OBVIOUS
      <4> QED
        BY <4>1 DEF Row
    <3>3. /\ FromServer(row, u).gen = row.gen /\ FromServer(row, u).sticky = row.sticky
          /\ FromServer(row, u).hidden = row.hidden
      BY <3>1 DEF Row
    <3> QED
      BY <2>2, <3>1, <3>2, <3>3
  <2> QED
    BY <2>1, <2>2
<1>6. ASSUME NEW u \in Uids
      PROVE  /\ work'[u] \in Row \cup {NoRow}
             /\ work[u] = NoRow => work'[u] = NoRow
             /\ work[u] # NoRow =>
                  /\ work'[u] # NoRow /\ work'[u].gen = work[u].gen
                  /\ work'[u].sticky = work[u].sticky /\ work'[u].hidden = work[u].hidden
                  /\ work[u].sticky => work'[u].seen = work[u].seen
  <2>1. CASE u \in read
    <3>1. work[u] # NoRow /\ work[u] \in Row
      BY <1>3, <2>1 DEF CacheTypeOK
    <3>2. work'[u] = FromServer(work[u], u)
      BY <1>2, <2>1
    <3> QED
      BY <1>5, <3>1, <3>2, NoRowAssumption
  <2>2. CASE u \notin read
    BY <1>2, <2>2 DEF CacheTypeOK
  <2> QED
    BY <2>1, <2>2
<1> QED
  BY <1>2, <1>4, <1>6

\* What a commit leaves in each row of the table.
LEMMA CommitRows ==
  ASSUME CacheTypeOK, Commit
  PROVE  /\ rows' \in [Uids -> Row \cup {NoRow}]
         /\ \A u \in Uids : rows'[u] # NoRow =>
              \/ Inserted(u) /\ rows'[u] = work[u] /\ ~ Left(u)
              \/ Left(u) /\ rows'[u] = rows[u] /\ ~ Dirty(u) /\ ~ Inserted(u)
              \/ Left(u) /\ rows'[u] = Merged(u) /\ Dirty(u)
<1>1. ASSUME NEW u \in Uids, rows'[u] # NoRow
      PROVE  \/ Inserted(u) /\ rows'[u] = work[u] /\ ~ Left(u)
             \/ Left(u) /\ rows'[u] = rows[u] /\ ~ Dirty(u) /\ ~ Inserted(u)
             \/ Left(u) /\ rows'[u] = Merged(u) /\ Dirty(u)
  BY <1>1 DEF Commit, Collides
<1>2. ASSUME NEW u \in Uids PROVE rows'[u] \in Row \cup {NoRow}
  <2>1. CASE Dirty(u) /\ Left(u)
    BY <1>1, <2>1, MergedIs DEF Dirty, Left, Cached, CacheTypeOK
  <2>2. CASE ~ (Dirty(u) /\ Left(u))
    BY <1>1, <2>2 DEF CacheTypeOK
  <2> QED
    BY <2>1, <2>2
<1>3. rows' = [u \in Uids |-> rows'[u]]
  BY DEF Commit
<1> QED
  BY <1>1, <1>2, <1>3

\* A request that ends changes the row it was asked for, and only if that row
\* is still of the generation it was asked in.
LEMMA RecordRows ==
  ASSUME CacheTypeOK, Record
  PROVE  /\ rows' \in [Uids -> Row \cup {NoRow}]
         /\ \A u \in Uids : rows'[u] # NoRow <=> rows[u] # NoRow
         /\ \A u \in Uids : rows[u] # NoRow => rows'[u].gen = rows[u].gen
         /\ \A u \in Uids : u # req.uid => rows'[u] = rows[u]
<1>1. CASE Cached(req.uid) /\ rows[req.uid].gen = req.gen /\ req.uid \in Uids
  <2>1. rows[req.uid] \in Row
    BY <1>1 DEF CacheTypeOK, Cached
  <2>2. ASSUME NEW row \in Row PROVE Decided(row) \in Row /\ Decided(row).gen = row.gen
    BY DEF Decided, Row
  <2>3. rows' = [rows EXCEPT ![req.uid] = Decided(rows[req.uid])]
    BY <1>1 DEF Record
  <2>4. Decided(rows[req.uid]) \in Row /\ Decided(rows[req.uid]).gen = rows[req.uid].gen
    BY <2>1, <2>2
  <2> HIDE DEF Decided
  <2> QED
    BY <1>1, <2>1, <2>3, <2>4, NoRowAssumption DEF CacheTypeOK
<1>2. CASE ~ (Cached(req.uid) /\ rows[req.uid].gen = req.gen)
  BY <1>2 DEF Record, CacheTypeOK
<1>3. CASE req.uid \notin Uids
  BY <1>3 DEF Record, CacheTypeOK
<1> QED
  BY <1>1, <1>2, <1>3

\* No step of the server, a timer, the sync, a request or the spam protection
\* leaves the types.
LEMMA TypeStep == CacheTypeOK /\ [CacheNext]_cacheVars => CacheTypeOK'
<1> USE BoundsAssumption, NoRowAssumption
<1> SUFFICES ASSUME CacheTypeOK, [CacheNext]_cacheVars PROVE CacheTypeOK'
  OBVIOUS
<1>1. CASE Deliver
  <2>1. modseq' \in 1 .. MaxModseq /\ changedAt' \in [Uids -> 0 .. MaxModseq]
    BY <1>1, BumpType DEF Deliver
  <2>2. msgs' \in SUBSET Uids /\ uidnext' \in 1 .. MaxUid + 1
    BY <1>1 DEF Deliver, CacheTypeOK, Uids
  <2> QED
    BY <1>1, <2>1, <2>2 DEF Deliver, CacheTypeOK
<1>2. ASSUME NEW u \in Uids, Reflag(u) PROVE CacheTypeOK'
  <2>1. modseq' \in 1 .. MaxModseq /\ changedAt' \in [Uids -> 0 .. MaxModseq]
    BY <1>2, BumpType DEF Reflag
  <2>2. seen' \in SUBSET Uids
    BY <1>2 DEF Reflag, CacheTypeOK
  <2> QED
    BY <1>2, <2>1, <2>2 DEF Reflag, CacheTypeOK
<1>3. ASSUME NEW u \in Uids, Expunge(u) PROVE CacheTypeOK'
  <2>1. msgs' \in SUBSET Uids /\ seen' \in SUBSET Uids
    BY <1>3 DEF Expunge, CacheTypeOK
  <2> QED
    BY <1>3, <2>1 DEF Expunge, CacheTypeOK
<1>4. CASE Regenerate
  <2>1. modseq' \in 1 .. MaxModseq /\ changedAt' \in [Uids -> 0 .. MaxModseq]
    BY <1>4, BumpType DEF Regenerate
  <2>2. gen' \in Gens
    BY <1>4 DEF Regenerate, CacheTypeOK, Gens
  <2>3. Cardinality(msgs) \in 0 .. MaxUid
    BY CountBound DEF CacheTypeOK
  <2>4. PICK n \in 0 .. Cardinality(msgs) : msgs' = 1 .. n /\ uidnext' = n + 1
    BY <1>4 DEF Regenerate
  <2>5. msgs' \in SUBSET Uids /\ uidnext' \in 1 .. MaxUid + 1
    BY <2>3, <2>4 DEF Uids
  <2>6. seen' \in SUBSET Uids
    BY <1>4, <2>5 DEF Regenerate
  <2>7. req' \in [step : {"none", "asked", "stored"}, uid : 0 .. MaxUid,
                  gen : 0 .. MaxGen, want : WantKinds]
    BY <1>4 DEF Regenerate, CacheTypeOK, NoReq, WantKinds
  <2>8. Drop /\ UNCHANGED <<rows, fs, fullDue, found, caught>>
    BY <1>4 DEF Regenerate
  <2> QED
    BY <2>1, <2>2, <2>5, <2>6, <2>7, <2>8, DropType DEF CacheTypeOK
<1>5. ASSUME NEW u \in Uids, StickyExpires(u) \/ TombstoneExpires(u) PROVE CacheTypeOK'
  <2>1. rows[u] \in Row
    BY <1>5 DEF StickyExpires, TombstoneExpires, Cached, CacheTypeOK
  <2>2. [rows[u] EXCEPT !.sticky = FALSE] \in Row /\ [rows[u] EXCEPT !.hidden = "expired"] \in Row
    BY <2>1 DEF Row
  <2>3. rows' \in [Uids -> Row \cup {NoRow}]
    BY <1>5, <2>2 DEF StickyExpires, TombstoneExpires, CacheTypeOK
  <2> QED
    BY <1>5, <2>3 DEF StickyExpires, TombstoneExpires, CacheTypeOK
<1>6. CASE IntervalPasses
  BY <1>6 DEF IntervalPasses, CacheTypeOK
<1>7. CASE FullCheckDue
  BY <1>7 DEF FullCheckDue, CacheTypeOK
<1>8. ASSUME NEW f \in BOOLEAN, Begin(f) PROVE CacheTypeOK'
  <2>1. sgen' \in 0 .. MaxGen /\ total' \in 0 .. MaxUid
    BY <1>8, CountBound DEF Begin, CacheTypeOK, Gens
  <2>2. mod' \in 0 .. MaxModseq
    BY <1>8 DEF Begin, CacheTypeOK
  <2>3. reset' \in BOOLEAN /\ fsReset' \in BOOLEAN /\ fullDue' \in BOOLEAN
    BY <1>8 DEF Begin, CacheTypeOK, OtherGeneration, RecordOutdated
  <2>4. snap' \in [Uids -> Row \cup {NoRow}] /\ work' = snap'
    BY <1>8 DEF Begin, CacheTypeOK, EmptyTable
  <2>5. pc' = "search" /\ flags' = f
    BY <1>8 DEF Begin
  <2> QED
    BY <1>8, <2>1, <2>2, <2>3, <2>4, <2>5 DEF Begin, CacheTypeOK
<1>9. CASE Search
  <2>1. work' \in [Uids -> Row \cup {NoRow}]
    BY <1>9, SearchRows
  <2>2. reliable' \in BOOLEAN /\ recent' \in SUBSET Uids /\ \A u \in recent' : work'[u] # NoRow
    BY <1>9, SearchRows
  <2>3. /\ pc' = "flags"
        /\ UNCHANGED <<gen, msgs, seen, uidnext, modseq, changedAt, rows, fs, fullDue, flags,
                       sgen, total, mod, reset, fsReset, snap, advance, req, found, caught>>
    BY <1>9 DEF Search
  <2> QED
    BY <2>1, <2>2, <2>3 DEF CacheTypeOK
<1>10. CASE CheckFlags
  BY <1>10, CheckFlagsRows DEF CheckFlags, CacheTypeOK
<1>11. CASE Commit
  <2>1. rows' \in [Uids -> Row \cup {NoRow}]
    BY <1>11, CommitRows
  <2>2. fs' \in [uidv : 0 .. MaxGen, modseq : 0 .. MaxModseq, last : {"none", "recent", "old"}]
    BY <1>11 DEF Commit, NewRecord, Since, CacheTypeOK
  <2>3. found' \in SUBSET Uids /\ caught' \in SUBSET Uids
    BY <1>11 DEF Commit, CacheTypeOK
  <2>4. Drop /\ UNCHANGED <<gen, msgs, seen, uidnext, modseq, changedAt, fullDue, req>>
    BY <1>11 DEF Commit
  <2> QED
    BY <2>1, <2>2, <2>3, <2>4, DropType DEF CacheTypeOK
<1>12. CASE Rollback \/ Abort
  <2>1. Drop /\ UNCHANGED <<server, rows, fs, fullDue, req, protection>>
    BY <1>12 DEF Rollback, Abort
  <2> QED
    BY <2>1, DropType DEF CacheTypeOK
<1>13. CASE Crash
  <2>1. req' \in [step : {"none", "asked", "stored"}, uid : 0 .. MaxUid,
                  gen : 0 .. MaxGen, want : WantKinds]
    BY <1>13 DEF Crash, NoReq, WantKinds
  <2>2. Drop /\ fullDue' = TRUE /\ found' = {} /\ caught' = {} /\ UNCHANGED <<server, rows, fs>>
    BY <1>13 DEF Crash
  <2> QED
    BY <2>1, <2>2, DropType DEF CacheTypeOK
<1>14. ASSUME NEW u \in Uids, NEW want \in Wants, Ask(u, want) PROVE CacheTypeOK'
  <2>1. rows[u].gen \in 0 .. MaxGen
    BY <1>14 DEF Ask, Visible, Cached, CacheTypeOK, Row
  <2>2. req' \in [step : {"none", "asked", "stored"}, uid : 0 .. MaxUid,
                  gen : 0 .. MaxGen, want : WantKinds]
    BY <1>14, <2>1 DEF Ask, Uids
  <2> QED
    BY <1>14, <2>2 DEF Ask, CacheTypeOK
<1>15. CASE Refused
  BY <1>15 DEF Refused, NoReq, WantKinds, CacheTypeOK
<1>16. CASE StoreSeen
  <2>1. modseq' \in 1 .. MaxModseq /\ changedAt' \in [Uids -> 0 .. MaxModseq]
    BY <1>16, BumpType DEF StoreSeen, CacheTypeOK
  <2>2. seen' \in SUBSET Uids
    BY <1>16 DEF StoreSeen, CacheTypeOK
  <2>3. req' \in [step : {"none", "asked", "stored"}, uid : 0 .. MaxUid,
                  gen : 0 .. MaxGen, want : WantKinds]
    BY <1>16 DEF StoreSeen, CacheTypeOK
  <2> QED
    BY <1>16, <2>1, <2>2, <2>3 DEF StoreSeen, CacheTypeOK
<1>17. CASE Remove
  <2>1. msgs' \in SUBSET Uids /\ seen' \in SUBSET Uids
    BY <1>17 DEF Remove, CacheTypeOK
  <2>2. req' \in [step : {"none", "asked", "stored"}, uid : 0 .. MaxUid,
                  gen : 0 .. MaxGen, want : WantKinds]
    BY <1>17 DEF Remove, CacheTypeOK
  <2> QED
    BY <1>17, <2>1, <2>2 DEF Remove, CacheTypeOK
<1>18. CASE Record
  <2>1. rows' \in [Uids -> Row \cup {NoRow}]
    BY <1>18, RecordRows
  <2>2. req' \in [step : {"none", "asked", "stored"}, uid : 0 .. MaxUid,
                  gen : 0 .. MaxGen, want : WantKinds]
    BY <1>18 DEF Record, NoReq, WantKinds
  <2> QED
    BY <1>18, <2>1, <2>2 DEF Record, CacheTypeOK
<1>19. CASE Inspect
  <2>1. msgs' \in SUBSET Uids /\ seen' \in SUBSET Uids /\ found' = {} /\ caught' \in SUBSET Uids
    BY <1>19 DEF Inspect, CacheTypeOK
  <2> QED
    BY <1>19, <2>1 DEF Inspect, CacheTypeOK
<1>20. CASE Forget
  <2>1. rows' \in [Uids -> Row \cup {NoRow}] /\ caught' = {}
    BY <1>20 DEF Forget, CacheTypeOK
  <2> QED
    BY <1>20, <2>1 DEF Forget, CacheTypeOK
<1>21. CASE UNCHANGED cacheVars
  BY <1>21 DEF cacheVars, CacheTypeOK
<1> QED
  BY <1>1, <1>2, <1>3, <1>4, <1>5, <1>6, <1>7, <1>8, <1>9, <1>10, <1>11, <1>12, <1>13,
     <1>14, <1>15, <1>16, <1>17, <1>18, <1>19, <1>20, <1>21
     DEF CacheNext, Environment, CacheTimers, Sync, Request

\* Every reachable state of server, database and sync is well typed.
THEOREM FolderTypeCorrect == CacheSpec => []CacheTypeOK
  BY TypeInit, TypeStep, PTL DEF CacheSpec

-----------------------------------------------------------------------------
(* What a sync carries from its load to its commit. *)

\* Nothing is loaded yet.
LEMMA LoadedInit == CacheInit => LoadedInv
  BY DEF CacheInit, LoadedInv, Inserted, EmptyTable, NoReq, Cached

\* Rows are inserted unhidden, flags under a fresh decision are left alone, and
\* while a sync holds an expired tombstone no request sets a new one.
LEMMA LoadedStep == CacheTypeOK /\ LoadedInv /\ [CacheNext]_cacheVars => LoadedInv'
<1> SUFFICES ASSUME CacheTypeOK, LoadedInv, [CacheNext]_cacheVars PROVE LoadedInv'
  OBVIOUS
<1> USE NoRowAssumption
<1>1. ASSUME UNCHANGED <<rows, snap, work, sgen, req>> PROVE LoadedInv'
  BY <1>1 DEF LoadedInv, Inserted, Cached
<1>2. ASSUME Drop, UNCHANGED rows, req' \in {req, NoReq} PROVE LoadedInv'
  <2>1. \A u \in Uids : snap'[u] = NoRow /\ work'[u] = NoRow
    BY <1>2 DEF Drop, EmptyTable
  <2>2. req'.step # "none" => req' = req
    BY <1>2 DEF NoReq
  <2> QED
    BY <1>2, <2>1, <2>2 DEF LoadedInv, Inserted, Cached
<1>3. ASSUME NEW v \in Uids, StickyExpires(v) \/ TombstoneExpires(v) PROVE LoadedInv'
  <2>1. rows[v] \in Row
    BY <1>3 DEF StickyExpires, TombstoneExpires, Cached, CacheTypeOK
  <2>2. /\ UNCHANGED <<snap, work, sgen, req>>
        /\ \A u \in Uids : u # v => rows'[u] = rows[u]
        /\ \/ rows'[v].hidden = rows[v].hidden
           \/ rows[v].hidden = "active" /\ rows'[v].hidden = "expired"
        /\ rows'[v] # NoRow /\ rows[v] # NoRow
    <3>1. CASE StickyExpires(v)
      <4>1. rows' = [rows EXCEPT ![v] = [rows[v] EXCEPT !.sticky = FALSE]]
        BY <3>1 DEF StickyExpires
      <4>2. /\ [rows[v] EXCEPT !.sticky = FALSE].hidden = rows[v].hidden
            /\ [rows[v] EXCEPT !.sticky = FALSE] \in Row
        BY <2>1 DEF Row
      <4> QED
        BY <2>1, <3>1, <4>1, <4>2 DEF StickyExpires, CacheTypeOK
    <3>2. CASE TombstoneExpires(v)
      <4>1. rows' = [rows EXCEPT ![v] = [rows[v] EXCEPT !.hidden = "expired"]]
        BY <3>2 DEF TombstoneExpires
      <4>2. /\ [rows[v] EXCEPT !.hidden = "expired"].hidden = "expired"
            /\ [rows[v] EXCEPT !.hidden = "expired"] \in Row
        BY <2>1 DEF Row
      <4> QED
        BY <2>1, <3>2, <4>1, <4>2 DEF TombstoneExpires, CacheTypeOK
    <3> QED
      BY <1>3, <3>1, <3>2
  <2> QED
    BY <2>2 DEF LoadedInv, Inserted, Cached
<1>4. ASSUME NEW f \in BOOLEAN, Begin(f) PROVE LoadedInv'
  <2>1. UNCHANGED <<rows, req>> /\ work' = snap'
    BY <1>4 DEF Begin
  <2>2. \A u \in Uids : snap'[u] # NoRow => snap'[u] = rows[u]
    BY <1>4 DEF Begin, EmptyTable
  <2> QED
    BY <2>1, <2>2 DEF LoadedInv, Inserted, Cached
<1>5. CASE Search
  <2>1. UNCHANGED <<rows, snap, sgen, req>>
    BY <1>5 DEF Search
  <2>2. ASSUME NEW u \in Uids, work'[u] # NoRow
        PROVE IF snap[u] = NoRow THEN work'[u].gen = sgen /\ work'[u].hidden = "no"
              ELSE Keeps(work'[u], snap[u])
    BY <1>5, <2>2, SearchRows
  <2> QED
    BY <2>1, <2>2 DEF LoadedInv, Inserted, Cached, Keeps
<1>6. CASE CheckFlags
  <2>1. UNCHANGED <<rows, snap, sgen, req>>
    BY <1>6 DEF CheckFlags
  <2>2. /\ \A u \in Uids : work[u] = NoRow => work'[u] = NoRow
        /\ \A u \in Uids : work[u] # NoRow =>
             /\ work'[u] # NoRow /\ work'[u].gen = work[u].gen
             /\ work'[u].sticky = work[u].sticky /\ work'[u].hidden = work[u].hidden
             /\ work[u].sticky => work'[u].seen = work[u].seen
    BY <1>6, CheckFlagsRows
  <2> QED
    BY <2>1, <2>2 DEF LoadedInv, Inserted, Cached
<1>7. CASE Commit
  <2>1. \A u \in Uids : snap'[u] = NoRow /\ work'[u] = NoRow
    BY <1>7 DEF Commit, Drop, EmptyTable
  <2>2. UNCHANGED req
    BY <1>7 DEF Commit
  <2>3. ASSUME req.step # "none", rows'[req.uid] # NoRow PROVE rows'[req.uid].hidden = "no"
    <3> DEFINE u == req.uid
    <3>1. u \in Uids /\ (Cached(u) => rows[u].hidden = "no")
      BY <2>3 DEF LoadedInv
    <3>2. CASE Inserted(u) /\ rows'[u] = work[u]
      BY <3>1, <3>2 DEF LoadedInv
    <3>3. CASE Left(u) /\ rows'[u] = rows[u]
      BY <3>1, <3>3 DEF Left
    <3>4. CASE Left(u) /\ rows'[u] = Merged(u) /\ Dirty(u)
      BY <3>1, <3>4, MergedIs DEF Left, Dirty, LoadedInv
    <3> QED
      BY <1>7, <2>3, <3>1, <3>2, <3>3, <3>4, CommitRows
  <2> QED
    BY <2>1, <2>2, <2>3 DEF LoadedInv, Inserted, Cached
<1>8. ASSUME NEW v \in Uids, NEW want \in Wants, Ask(v, want) PROVE LoadedInv'
  BY <1>8 DEF Ask, Visible, LoadedInv, Inserted, Cached
<1>9. CASE Refused \/ StoreSeen \/ Remove
  <2>1. UNCHANGED <<rows, snap, work, sgen>>
    BY <1>9 DEF Refused, StoreSeen, Remove
  <2>2. req'.step # "none" => req.step # "none" /\ req'.uid = req.uid
    BY <1>9 DEF Refused, StoreSeen, Remove, StoreGuard, NoReq, CacheTypeOK
  <2> QED
    BY <2>1, <2>2 DEF LoadedInv, Inserted, Cached
<1>10. CASE Record
  <2>1. UNCHANGED <<snap, work, sgen>> /\ req'.step = "none" /\ req.step # "none"
    BY <1>10 DEF Record, NoReq
  <2>2. /\ \A u \in Uids : rows'[u] # NoRow <=> rows[u] # NoRow
        /\ \A u \in Uids : u # req.uid => rows'[u] = rows[u]
    BY <1>10, RecordRows
  <2> QED
    BY <2>1, <2>2 DEF LoadedInv, Inserted, Cached
<1>11. CASE Forget
  <2>1. UNCHANGED <<snap, work, sgen, req>>
    BY <1>11 DEF Forget
  <2>2. \A u \in Uids : rows'[u] # NoRow => rows'[u] = rows[u]
    BY <1>11 DEF Forget
  <2> QED
    BY <2>1, <2>2 DEF LoadedInv, Inserted, Cached
<1>12. ASSUME \/ Deliver \/ \E u \in Uids : Reflag(u) \/ Expunge(u)
              \/ IntervalPasses \/ FullCheckDue \/ Inspect \/ UNCHANGED cacheVars
       PROVE  UNCHANGED <<rows, snap, work, sgen, req>>
  BY <1>12 DEF Deliver, Reflag, Expunge, IntervalPasses, FullCheckDue, Inspect, cacheVars
<1>13. ASSUME Regenerate \/ Rollback \/ Abort \/ Crash
       PROVE  Drop /\ UNCHANGED rows /\ req' \in {req, NoReq}
  BY <1>13 DEF Regenerate, Rollback, Abort, Crash
<1> QED
  BY <1>1, <1>2, <1>3, <1>4, <1>5, <1>6, <1>7, <1>8, <1>9, <1>10, <1>11, <1>12, <1>13
     DEF CacheNext, Environment, CacheTimers, Sync, Request

\* Both invariants hold in every execution.
LEMMA LoadedAlways == CacheSpec => [](CacheTypeOK /\ LoadedInv)
  BY TypeInit, TypeStep, LoadedInit, LoadedStep, PTL DEF CacheSpec

\* A decision the sync saw when it loaded the rows survives its commit.
LEMMA StickyStep ==
  ASSUME CacheTypeOK, LoadedInv, Commit, NEW u \in Uids,
         snap[u] # NoRow, snap[u].sticky, rows'[u] # NoRow
  PROVE  rows'[u].seen = rows[u].seen
<1>1. CASE Left(u) /\ rows'[u] = Merged(u) /\ Dirty(u)
  BY <1>1, MergedIs DEF Left, Dirty, LoadedInv
<1> QED
  BY <1>1, CommitRows DEF Inserted

\* The read flag a user has just set is not overwritten by a sync that loaded
\* the row after the decision, for every length of the window and any faults.
THEOREM DecisionKept == CacheSpec => StickyRespected
<1>1. CacheTypeOK /\ LoadedInv /\ [CacheNext]_cacheVars =>
        [\A u \in Uids : Commit /\ snap[u] # NoRow /\ snap[u].sticky /\ rows'[u] # NoRow
                           => rows'[u].seen = rows[u].seen]_cacheVars
  BY StickyStep
<1> QED
  BY <1>1, LoadedAlways, PTL DEF CacheSpec, StickyRespected

\* No step takes a fresh tombstone from a row of its generation.
LEMMA TombstoneStep ==
  ASSUME CacheTypeOK, LoadedInv, [CacheNext]_cacheVars, NEW u \in Uids,
         Cached(u), rows[u].hidden = "active", rows'[u] # NoRow, rows'[u].gen = rows[u].gen
  PROVE  rows'[u].hidden # "no"
<1>1. rows[u] \in Row
  BY DEF CacheTypeOK, Cached
<1>2. CASE Commit
  <2>1. CASE Inserted(u) /\ rows'[u] = work[u] /\ ~ Left(u)
    BY <2>1 DEF LoadedInv, Left
  <2>2. CASE Left(u) /\ rows'[u] = Merged(u) /\ Dirty(u)
    BY <2>2, MergedIs DEF Left, Dirty, LoadedInv
  <2> QED
    BY <1>2, <2>1, <2>2, CommitRows
<1>3. CASE Record
  BY <1>1, <1>3 DEF Record, Decided, Row, CacheTypeOK
<1>4. CASE Forget
  BY <1>4 DEF Forget
<1>5. ASSUME NEW v \in Uids, StickyExpires(v) \/ TombstoneExpires(v) PROVE rows'[u].hidden # "no"
  BY <1>1, <1>5 DEF StickyExpires, TombstoneExpires, Row, CacheTypeOK
<1>6. CASE UNCHANGED rows
  BY <1>6
<1> QED
  BY <1>2, <1>3, <1>4, <1>5, <1>6
     DEF CacheNext, Environment, CacheTimers, Sync, Request, Deliver, Reflag, Expunge, Regenerate,
         IntervalPasses, FullCheckDue, Begin, Search, CheckFlags, Rollback, Abort, Crash,
         Ask, Refused, StoreSeen, Remove, Inspect, cacheVars

\* A deleted mail stays out of the list until its tombstone is old enough,
\* whatever the syncs around it loaded before the deletion.
THEOREM TombstoneKept == CacheSpec => TombstoneHolds
<1>1. CacheTypeOK /\ LoadedInv /\ [CacheNext]_cacheVars =>
        [\A u \in Uids :
           Cached(u) /\ rows[u].hidden = "active"
             /\ rows'[u] # NoRow /\ rows'[u].gen = rows[u].gen
           => rows'[u].hidden # "no"]_cacheVars
  BY TombstoneStep
<1> QED
  BY <1>1, LoadedAlways, PTL DEF CacheSpec, TombstoneHolds

-----------------------------------------------------------------------------
(* Generations, as long as STATUS answers. *)

\* An empty cache mixes nothing.
LEMMA GenerationInit == CacheInit => GenerationInv
  BY DEF CacheInit, GenerationInv, OneGeneration, EmptyTable, Cached

\* Only a commit adds rows, and what it leaves is of the generation it records:
\* either it loaded every row there is, or every row it did not load is deleted.
LEMMA GenerationStep ==
  ASSUME "status" \notin Faults
  PROVE  CacheTypeOK /\ LoadedInv /\ GenerationInv /\ [CacheNext]_cacheVars => GenerationInv'
<1> SUFFICES ASSUME CacheTypeOK, LoadedInv, GenerationInv, [CacheNext]_cacheVars PROVE GenerationInv'
  OBVIOUS
<1> USE NoRowAssumption
<1>1. ASSUME \A u \in Uids : rows'[u] # NoRow => rows[u] # NoRow /\ rows'[u].gen = rows[u].gen,
             fs'.uidv = fs.uidv
      PROVE  OneGeneration'
  BY <1>1 DEF GenerationInv, OneGeneration, Cached
<1>2. ASSUME \A u \in Uids : rows'[u] # NoRow => rows[u] # NoRow /\ rows'[u].gen = rows[u].gen,
             fs'.uidv = fs.uidv, UNCHANGED <<pc, sgen, gen, reset, snap, work>>
      PROVE  GenerationInv'
  <2>1. OneGeneration'
    BY <1>1, <1>2
  <2> QED
    BY <1>2, <2>1 DEF GenerationInv, Inserted, Cached
<1>3. ASSUME UNCHANGED <<rows, fs>>, pc' = "idle" PROVE GenerationInv'
  BY <1>3 DEF GenerationInv, OneGeneration, Cached
<1>4. ASSUME NEW f \in BOOLEAN, Begin(f) PROVE GenerationInv'
  <2>1. UNCHANGED <<rows, fs, gen>> /\ sgen' = gen /\ work' = snap'
    BY <1>4 DEF Begin
  <2>2. reset' = OtherGeneration(gen) /\ snap' = IF reset' THEN EmptyTable ELSE rows
    BY <1>4, <2>1 DEF Begin
  <2>3. gen # 0
    BY BoundsAssumption DEF CacheTypeOK, Gens
  <2>4. \A u \in Uids : Cached(u) => rows[u].gen = fs.uidv
    BY DEF GenerationInv, OneGeneration
  <2>5. CASE reset'
    <3>1. fs.uidv # gen
      BY <2>2, <2>4, <2>5 DEF OtherGeneration
    <3> QED
      BY <2>1, <2>2, <2>4, <2>5, <3>1 DEF GenerationInv, OneGeneration, Inserted, Cached, EmptyTable
  <2>6. CASE ~ reset'
    <3>1. \A u \in Uids : Cached(u) => rows[u].gen = gen
      BY <2>2, <2>3, <2>6 DEF OtherGeneration
    <3> QED
      BY <2>1, <2>2, <2>4, <2>6, <3>1 DEF GenerationInv, OneGeneration, Inserted, Cached
  <2> QED
    BY <2>5, <2>6
<1>5. CASE Search \/ CheckFlags
  <2>1. UNCHANGED <<rows, fs, gen, sgen, reset, snap>> /\ pc # "idle"
    BY <1>5 DEF Search, CheckFlags
  <2>2. \A u \in Uids : Inserted(u)' => work'[u].gen = sgen'
    BY <1>5, LoadedStep DEF LoadedInv
  <2> QED
    BY <2>1, <2>2 DEF GenerationInv, OneGeneration, Cached
<1>6. CASE Commit
  <2>1. sgen = gen /\ gen # 0 /\ pc # "idle"
    BY <1>6, BoundsAssumption DEF Commit, GenerationInv, CacheTypeOK, Gens
  <2>2. fs'.uidv = sgen /\ pc' = "idle"
    BY <1>6, <2>1 DEF Commit, NewRecord, Drop
  <2>3. ASSUME NEW u \in Uids, rows'[u] # NoRow PROVE rows'[u].gen = sgen
    <3>1. CASE Inserted(u) /\ rows'[u] = work[u]
      BY <3>1 DEF LoadedInv
    <3>2. ASSUME Left(u) PROVE rows[u].gen = sgen
      BY <2>1, <3>2 DEF Left, Cached, GenerationInv
    <3>3. CASE Left(u) /\ rows'[u] = rows[u]
      BY <3>2, <3>3
    <3>4. CASE Left(u) /\ rows'[u] = Merged(u) /\ Dirty(u)
      BY <3>2, <3>4, MergedIs DEF Left, Dirty
    <3> QED
      BY <1>6, <2>3, <3>1, <3>3, <3>4, CommitRows
  <2> QED
    BY <2>2, <2>3 DEF GenerationInv, OneGeneration, Cached
<1>7. ASSUME NEW v \in Uids, StickyExpires(v) \/ TombstoneExpires(v) PROVE GenerationInv'
  <2>1. rows[v] \in Row /\ rows[v] # NoRow
    BY <1>7 DEF StickyExpires, TombstoneExpires, Cached, CacheTypeOK
  <2>2. /\ [rows[v] EXCEPT !.sticky = FALSE].gen = rows[v].gen
        /\ [rows[v] EXCEPT !.hidden = "expired"].gen = rows[v].gen
    BY <2>1 DEF Row
  <2>3. \A u \in Uids : rows'[u] # NoRow => rows[u] # NoRow /\ rows'[u].gen = rows[u].gen
    BY <1>7, <2>1, <2>2 DEF StickyExpires, TombstoneExpires, CacheTypeOK
  <2> QED
    BY <1>2, <1>7, <2>3 DEF StickyExpires, TombstoneExpires
<1>8. CASE Record
  BY <1>2, <1>8, RecordRows DEF Record
<1>9. CASE Forget
  BY <1>2, <1>9 DEF Forget
<1>10. CASE IntervalPasses
  BY <1>2, <1>10 DEF IntervalPasses, CacheTypeOK
<1>11. ASSUME Regenerate \/ Rollback \/ Abort \/ Crash PROVE UNCHANGED <<rows, fs>> /\ pc' = "idle"
  BY <1>11 DEF Regenerate, Rollback, Abort, Crash, Drop
<1>12. ASSUME \/ Deliver \/ \E u \in Uids : Reflag(u) \/ Expunge(u)
              \/ FullCheckDue \/ Inspect \/ UNCHANGED cacheVars
              \/ \E u \in Uids, want \in Wants : Ask(u, want)
              \/ Refused \/ StoreSeen \/ Remove
       PROVE  UNCHANGED <<rows, fs, pc, sgen, gen, reset, snap, work>>
  BY <1>12 DEF Deliver, Reflag, Expunge, FullCheckDue, Inspect, cacheVars, Ask, Refused, StoreSeen,
               Remove
<1> QED
  BY <1>2, <1>3, <1>4, <1>5, <1>6, <1>7, <1>8, <1>9, <1>10, <1>11, <1>12
     DEF CacheNext, Environment, CacheTimers, Sync, Request

\* What is inserted was not loaded: so it is not there, or is deleted first.
LEMMA NoCollision == CacheTypeOK /\ GenerationInv => NeverCollides
  BY NoRowAssumption DEF GenerationInv, NeverCollides, Collides, Inserted, Left, Cached

\* As long as STATUS answers, the cached list is of one generation, the one
\* requests are checked against, and no commit of a sync meets the UNIQUE index.
THEOREM GenerationsApart ==
  ASSUME "status" \notin Faults
  PROVE  CacheSpec => [](OneGeneration /\ NeverCollides)
<1>1. CacheSpec => [](CacheTypeOK /\ GenerationInv)
  BY TypeInit, TypeStep, LoadedInit, LoadedStep, GenerationInit, GenerationStep, PTL DEF CacheSpec
<1>2. CacheTypeOK /\ GenerationInv => OneGeneration /\ NeverCollides
  BY NoCollision DEF GenerationInv
<1> QED
  BY <1>1, <1>2, PTL

-----------------------------------------------------------------------------
(* MailList: the list on the screen                                            *)

-----------------------------------------------------------------------------
(* Types *)

\* What the server sorts and filters by is two switches.
LEMMA OptionsTyped ==
  /\ \A k \in Looks : Opts(k) \in Options
  /\ MountOpts \in Options
BY DEF Opts, Looks, Options, MountOpts

\* Whatever is on the screen, what is asked for is a query.
LEMMA FetchTyped ==
  ASSUME NEW k \in Looks, NEW p \in Nat, NEW o \in Options
  PROVE  /\ FetchPage(k, p, o) \in Queries
         /\ FetchAllForSearch(k, o) \in Queries
         /\ Fetch(k, p, o) \in Queries
BY DEF FetchPage, FetchAllForSearch, Fetch, Queries, Looks, Options

\* A new request is one.
LEMMA NewLoadTyped ==
  ASSUME NEW by \in {"reload", "page", "all", "sync", "event"},
         NEW q \in Queries, NEW k \in Looks
  PROVE  NewLoad(by, q, k) \in Load
BY DEF NewLoad, Load

\* Sending a request leaves requests.
LEMMA BeginTyped ==
  ASSUME loads \in SUBSET Load, NEW l \in Load, BeginListLoad(l)
  PROVE  loads' \in SUBSET Load
<1>1. ASSUME NEW x \in Load PROVE [x EXCEPT !.newest = FALSE] \in Load
  BY DEF Load
<1> QED
  BY <1>1 DEF BeginListLoad

\* A sync that begins is one.
LEMMA SyncTyped ==
  ASSUME ListTypeOK, NEW p \in Places, NEW n \in Nat, NEW o \in Options, NEW manual,
         BgSync(p, n, o, manual)
  PROVE  syncs' \in SUBSET [place: Places, page: Nat, look: Looks, opts: Options]
BY DEF ListTypeOK, BgSync

\* What the server lists are mails.
LEMMA ListingTyped == \A q : held \subseteq Mails => Listing(q) \subseteq Mails
BY DEF Listing

LEMMA AnswerTyped ==
  ASSUME NEW l \in Load, l.got # None
  PROVE  Answer(l) \in Rows /\ [query |-> l.query, mails |-> l.got] \in Rows
<1>1. l.got \in SUBSET Mails /\ l.query \in Queries
  BY DEF Load
<1> QED
  BY <1>1 DEF Answer, Rows, WithoutPendingDeletes

LEMMA NoRowsTyped == NoRows \in Rows
BY DEF NoRows, Rows

LEMMA ListTypeInit == ListInit => ListTypeOK
<1> SUFFICES ASSUME ListInit PROVE ListTypeOK
  OBVIOUS
<1>1. look \in Looks
  BY ListAssumption DEF ListInit, Looks
<1>2. loads \in SUBSET Load
  <2>1. FetchPage(look, 1, Opts(look)) \in Queries
    BY <1>1, OptionsTyped, FetchTyped
  <2>2. NewLoad("reload", FetchPage(look, 1, Opts(look)), look) \in Load
    BY <1>1, <2>1, NewLoadTyped
  <2>3. loads = {NewLoad("reload", FetchPage(look, 1, Opts(look)), look)}
    BY DEF ListInit
  <2> QED
    BY <2>2, <2>3
<1>3. pollOpts \in Options
  BY <1>1, OptionsTyped DEF ListInit
<1>4. list \in Rows
  BY NoRowsTyped DEF ListInit
<1>5. cool \in [Places -> BOOLEAN] /\ tombs \in [Mails -> {"no", "asked", "kept", "lapsed"}]
  BY DEF ListInit
<1>6. /\ page = 1 /\ banner = None /\ loading = TRUE /\ loadingMore = FALSE
      /\ syncs = {} /\ applying = None /\ hits = None /\ asked = None /\ dels = {}
      /\ held = Mails /\ moves = 0 /\ failures = 0
  BY DEF ListInit
<1>7. page \in Nat \ {0} /\ moves \in 0..MaxMoves /\ failures \in 0..MaxFailures
  BY <1>6, ListAssumption
<1>8. /\ banner \in Rows \cup {None} /\ applying \in [place: Places, opts: Options] \cup {None}
      /\ hits \in Texts \cup {None} /\ asked \in Texts \cup {None}
  BY <1>6
<1>9. /\ syncs \in SUBSET [place: Places, page: Nat, look: Looks, opts: Options]
      /\ dels \in SUBSET [mail: Mails, look: Looks, done: BOOLEAN]
      /\ held \subseteq Mails /\ loading \in BOOLEAN /\ loadingMore \in BOOLEAN
  BY <1>6
<1> QED
  BY <1>1, <1>2, <1>3, <1>4, <1>5, <1>7, <1>8, <1>9 DEF ListTypeOK

\* The user's steps.
LEMMA ChangeTyped ==
  ASSUME ListTypeOK, NEW k \in Looks, Change(k), UNCHANGED failures, moves' \in 0..MaxMoves
  PROVE  ListTypeOK'
<1> USE DEF ListTypeOK
<1>1. page' \in Nat \ {0} /\ loading' \in BOOLEAN /\ list' \in Rows /\ loads' \in SUBSET Load
  <2>1. CASE Reloading(k) = Reloading(look)
    BY <2>1 DEF Change
  <2>2. CASE Reloading(k) # Reloading(look)
    <3>1. LoadFor(k, Opts(k)) /\ Opts(k) \in Options
      BY <2>2, OptionsTyped DEF Change
    <3>2. /\ NewLoad("all", FetchAllForSearch(k, Opts(k)), k) \in Load
          /\ NewLoad("reload", FetchPage(k, 1, Opts(k)), k) \in Load
      BY <3>1, FetchTyped, NewLoadTyped
    <3> QED
      BY <3>1, <3>2, BeginTyped, NoRowsTyped DEF LoadFor
  <2> QED
    BY <2>1, <2>2
<1>2. pollOpts' \in Options /\ hits' \in Texts \cup {None} /\ banner' \in Rows \cup {None}
  BY OptionsTyped DEF Change
<1> QED
  BY <1>1, <1>2 DEF Change, delVars

LEMMA DeleteTyped ==
  ASSUME ListTypeOK, NEW m \in Mails, Delete(m), UNCHANGED failures, moves' \in 0..MaxMoves
  PROVE  ListTypeOK'
<1>1. tombs' \in [Mails -> {"no", "asked", "kept", "lapsed"}]
  BY DEF ListTypeOK, Delete
<1>2. dels' \in SUBSET [mail: Mails, look: Looks, done: BOOLEAN]
  <2>1. [mail |-> m, look |-> look, done |-> FALSE] \in [mail: Mails, look: Looks, done: BOOLEAN]
    BY DEF ListTypeOK
  <2>2. dels' = dels \cup {[mail |-> m, look |-> look, done |-> FALSE]}
    BY DEF Delete
  <2>3. dels \in SUBSET [mail: Mails, look: Looks, done: BOOLEAN]
    BY DEF ListTypeOK
  <2> QED
    BY <2>1, <2>2, <2>3
<1>3. list' \in Rows
  <2>1. list \in Rows
    BY DEF ListTypeOK
  <2>2. list' = [list EXCEPT !.mails = @ \ {m}]
    BY DEF Delete
  <2> QED
    BY <2>1, <2>2 DEF Rows
<1>4. UNCHANGED <<look, page, banner, loading, loadingMore, loads, syncs, cool,
                  pollOpts, applying, hits, asked, held, failures>>
  BY DEF Delete, ftVars
<1> QED
  BY <1>1, <1>2, <1>3, <1>4 DEF ListTypeOK

LEMMA UserTyped ==
  ASSUME ListTypeOK, User, UNCHANGED failures, moves' \in 0..MaxMoves
  PROVE  ListTypeOK'
<1> USE DEF ListTypeOK, listVars, delVars, ftVars
<1>1. ASSUME NEW k \in Looks, Change(k) PROVE ListTypeOK'
  BY <1>1, ChangeTyped
<1>2. CASE SelectFolder \/ TypeSearch \/ ToggleUnread \/ SetCriterion \/ SetLabelFilter \/ TogglePin
  <2>1. /\ \A p \in Places : [look EXCEPT !.place = p] \in Looks
        /\ \A s \in Texts : [look EXCEPT !.text = s] \in Looks
        /\ [look EXCEPT !.unread = ~@] \in Looks
        /\ [look EXCEPT !.rest = ~@] \in Looks
        /\ [look EXCEPT !.label = ~@] \in Looks
        /\ [look EXCEPT !.pin = ~@] \in Looks
    BY DEF Looks
  <2> QED
    BY <1>1, <1>2, <2>1 DEF SelectFolder, TypeSearch, ToggleUnread, SetCriterion, SetLabelFilter, TogglePin
<1>3. ASSUME NEW p \in 1..MaxPage, GoPage(p) PROVE ListTypeOK'
  <2>1. p \in Nat \ {0}
    BY ListAssumption, FS_CardinalityType DEF MaxPage
  <2>2. NewLoad("page", FetchPage(look, p, Opts(look)), look) \in Load
    BY <2>1, OptionsTyped, FetchTyped, NewLoadTyped
  <2> QED
    BY <1>3, <2>1, <2>2, BeginTyped DEF GoPage
<1>4. CASE RefreshAccount
  BY <1>4, OptionsTyped DEF RefreshAccount, Looks
<1>5. CASE AcceptBanner
  BY <1>5 DEF AcceptBanner, Rows, WithoutPendingDeletes
<1>6. CASE RunFullText \/ ClearFullText
  BY <1>6 DEF RunFullText, ClearFullText, Looks
<1>7. ASSUME NEW m \in Mails, Delete(m) PROVE ListTypeOK'
  BY <1>7, DeleteTyped
<1> QED
  BY <1>2, <1>3, <1>4, <1>5, <1>6, <1>7 DEF User

\* Steps that only drop requests and set signs, and perhaps show an answer.
LEMMA TimersTyped ==
  ASSUME ListTypeOK, Timers \/ LiveEvent, UNCHANGED failures, moves' \in 0..MaxMoves
  PROVE  ListTypeOK'
<1> USE DEF listVars, delVars, ftVars
<1>1. ASSUME NEW o \in Options, BgSync(look.place, page, o, FALSE),
             UNCHANGED <<listVars, loads, cool, pollOpts, applying, ftVars, delVars>>
      PROVE  ListTypeOK'
  <2>1. look.place \in Places /\ page \in Nat
    BY DEF ListTypeOK, Looks
  <2>2. syncs' \in SUBSET [place: Places, page: Nat, look: Looks, opts: Options]
    BY <1>1, <2>1, SyncTyped
  <2> QED
    BY <1>1, <2>2 DEF ListTypeOK
<1>2. CASE FastTimer \/ PollTimer
  BY <1>1, <1>2, OptionsTyped DEF FastTimer, PollTimer, ListTypeOK
<1>3. ASSUME NEW p \in Places, CoolDown(p) PROVE ListTypeOK'
  <2>1. cool' \in [Places -> BOOLEAN]
    BY <1>3 DEF CoolDown, ListTypeOK
  <2> QED
    BY <1>3, <2>1 DEF CoolDown, ListTypeOK
<1>4. CASE LiveEvent
  <2>1. look \in Looks /\ page \in Nat /\ loads \in SUBSET Load
    BY DEF ListTypeOK
  <2>2. NewLoad("event", Fetch(look, page, MountOpts), look) \in Load
    BY <2>1, OptionsTyped, FetchTyped, NewLoadTyped
  <2>3. loads' \in SUBSET Load
    BY <1>4, <2>1, <2>2, BeginTyped DEF LiveEvent
  <2> QED
    BY <1>4, <2>3 DEF LiveEvent, ListTypeOK
<1> QED
  BY <1>2, <1>3, <1>4 DEF Timers

\* The options carried by a query are options.
LEMMA QueryOptions ==
  ASSUME NEW q \in Queries
  PROVE  q.place \in Places /\ [unread |-> q.unread, pin |-> q.pin] \in Options
BY DEF Queries, Options

LEMMA ArrivesTyped ==
  ASSUME ListTypeOK, NEW l \in loads, Arrives(l) \/ Fails(l), moves' \in 0..MaxMoves,
         failures' \in 0..MaxFailures
  PROVE  ListTypeOK'
<1>1. l \in Load /\ loads' \in SUBSET Load
  BY DEF ListTypeOK, Arrives, Fails
<1>2. l.query \in Queries
  BY <1>1 DEF Load
<1>3. syncs' \in SUBSET [place: Places, page: Nat, look: Looks, opts: Options]
  <2>1. CASE syncs' = syncs
    BY <2>1 DEF ListTypeOK
  <2>2. CASE BgSync(l.query.place, 1, [unread |-> l.query.unread, pin |-> l.query.pin], TRUE)
    BY <1>2, <2>2, QueryOptions, SyncTyped
  <2> QED
    BY <2>1, <2>2 DEF Arrives, Fails
<1>4. list' \in Rows
  <2>1. CASE list' = list
    BY <2>1 DEF ListTypeOK
  <2>2. CASE list' = Answer(l) /\ l.got # None
    BY <1>1, <2>2, AnswerTyped
  <2> QED
    BY <2>1, <2>2 DEF Arrives, Fails
<1>5. loading' \in BOOLEAN /\ loadingMore' \in BOOLEAN
  BY DEF Arrives, Fails, ListTypeOK
<1>6. UNCHANGED <<look, page, banner, cool, pollOpts, applying, hits, asked, tombs, dels, held>>
  BY DEF Arrives, Fails, ftVars, delVars
<1> QED
  BY <1>1, <1>3, <1>4, <1>5, <1>6 DEF ListTypeOK

LEMMA RefreshTyped ==
  ASSUME ListTypeOK, NEW l \in loads, Refreshed(l) \/ RefreshFails(l), moves' \in 0..MaxMoves,
         failures' \in 0..MaxFailures
  PROVE  ListTypeOK'
<1>1. l \in Load /\ loads' \in SUBSET Load
  BY DEF ListTypeOK, Refreshed, RefreshFails
<1>2. list' \in Rows /\ banner' \in Rows \cup {None}
  <2>1. CASE UNCHANGED <<list, banner>>
    BY <2>1 DEF ListTypeOK
  <2>2. CASE AcceptBackgroundHeaders(l) /\ l.got # None
    BY <1>1, <2>2, AnswerTyped DEF AcceptBackgroundHeaders, ListTypeOK
  <2> QED
    BY <2>1, <2>2 DEF Refreshed, RefreshFails
<1>3. cool' \in [Places -> BOOLEAN]
  BY DEF Refreshed, RefreshFails, ListTypeOK
<1>4. loading' \in BOOLEAN /\ loadingMore' \in BOOLEAN
  BY DEF Refreshed, RefreshFails, ListTypeOK
<1>5. UNCHANGED <<look, page, syncs, pollOpts, applying, hits, asked, tombs, dels, held>>
  BY DEF Refreshed, RefreshFails, ftVars, delVars
<1> QED
  BY <1>1, <1>2, <1>3, <1>4, <1>5 DEF ListTypeOK

LEMMA SyncsTyped ==
  ASSUME ListTypeOK, NEW s \in syncs, SyncSucceeds(s) \/ SyncDeclined(s), moves' \in 0..MaxMoves,
         failures' \in 0..MaxFailures
  PROVE  ListTypeOK'
<1>1. s \in [place: Places, page: Nat, look: Looks, opts: Options]
  BY DEF ListTypeOK
<1>2. loads' \in SUBSET Load
  <2>1. look \in Looks /\ page \in Nat /\ loads \in SUBSET Load /\ s.opts \in Options
    BY <1>1 DEF ListTypeOK
  <2>2. NewLoad("sync", Fetch(look, page, s.opts), look) \in Load
    BY <2>1, FetchTyped, NewLoadTyped
  <2> QED
    BY <2>1, <2>2, BeginTyped DEF SyncSucceeds, SyncDeclined
<1>3. cool' \in [Places -> BOOLEAN]
  BY DEF SyncSucceeds, SyncDeclined, ListTypeOK
<1>4. syncs' \in SUBSET [place: Places, page: Nat, look: Looks, opts: Options]
  BY DEF SyncSucceeds, SyncDeclined, ListTypeOK
<1>5. UNCHANGED <<look, page, list, banner, loading, loadingMore, pollOpts, applying,
                  hits, asked, tombs, dels, held>>
  BY DEF SyncSucceeds, SyncDeclined, listVars, ftVars, delVars
<1> QED
  BY <1>2, <1>3, <1>4, <1>5 DEF ListTypeOK

LEMMA DeletionsTyped ==
  ASSUME ListTypeOK, Deletions \/ \E d \in dels : DeleteFails(d), moves' \in 0..MaxMoves,
         failures' \in 0..MaxFailures
  PROVE  ListTypeOK'
<1>1. tombs' \in [Mails -> {"no", "asked", "kept", "lapsed"}]
  BY DEF Deletions, ServerDeletes, DeleteConfirmed, MarkLapses, DeleteFails, ListTypeOK
<1>2. dels' \in SUBSET [mail: Mails, look: Looks, done: BOOLEAN]
  <2>1. ASSUME NEW d \in dels
        PROVE  [d EXCEPT !.done = TRUE] \in [mail: Mails, look: Looks, done: BOOLEAN]
    BY DEF ListTypeOK
  <2> QED
    BY <2>1 DEF Deletions, ServerDeletes, DeleteConfirmed, MarkLapses, DeleteFails, ListTypeOK
<1>3. list' \in Rows
  <2>1. list \in Rows
    BY DEF ListTypeOK
  <2>2. ASSUME NEW d \in dels PROVE [list EXCEPT !.mails = @ \cup {d.mail}] \in Rows
    <3>1. d.mail \in Mails
      BY DEF ListTypeOK
    <3> QED
      BY <2>1, <3>1 DEF Rows
  <2> QED
    BY <2>1, <2>2 DEF Deletions, ServerDeletes, DeleteConfirmed, MarkLapses, DeleteFails, listVars
<1>4. held' \subseteq Mails
  BY DEF Deletions, ServerDeletes, DeleteConfirmed, MarkLapses, DeleteFails, ListTypeOK
<1>5. UNCHANGED <<look, page, banner, loading, loadingMore, loads, syncs, cool,
                  pollOpts, applying, hits, asked>>
  BY DEF Deletions, ServerDeletes, DeleteConfirmed, MarkLapses, DeleteFails, listVars, ftVars
<1> QED
  BY <1>1, <1>2, <1>3, <1>4, <1>5 DEF ListTypeOK

LEMMA RestTyped ==
  ASSUME ListTypeOK, RulesApplied \/ FullTextAnswers \/ \E l \in loads : ServerReads(l), Other
  PROVE  ListTypeOK'
<1> USE DEF listVars, delVars, ftVars, Other
<1>1. CASE RulesApplied
  <2>1. look \in Looks /\ applying.place \in Places /\ applying.opts \in Options /\ loads \in SUBSET Load
    BY <1>1 DEF ListTypeOK, RulesApplied
  <2> DEFINE k == [look EXCEPT !.place = applying.place]
  <2>2. k \in Looks
    BY <2>1 DEF Looks
  <2>3. NewLoad("reload", FetchPage(k, 1, applying.opts), look) \in Load
    BY <2>1, <2>2, FetchTyped, NewLoadTyped
  <2>4. loads' \in SUBSET Load /\ page' = 1 /\ loading' = TRUE /\ list' \in Rows
    BY <1>1, <2>1, <2>3, BeginTyped, NoRowsTyped DEF RulesApplied, Reload
  <2> QED
    BY <1>1, <2>4 DEF RulesApplied, ListTypeOK
<1>2. CASE FullTextAnswers
  BY <1>2 DEF FullTextAnswers, ListTypeOK
<1>3. ASSUME NEW l \in loads, ServerReads(l) PROVE ListTypeOK'
  <2>1. l \in Load
    BY DEF ListTypeOK
  <2>2. Listing(l.query) \in SUBSET Mails
    BY ListingTyped DEF ListTypeOK
  <2>3. [l EXCEPT !.got = Listing(l.query)] \in Load
    BY <2>1, <2>2 DEF Load
  <2> QED
    BY <1>3, <2>3 DEF ServerReads, ListTypeOK
<1> QED
  BY <1>1, <1>2, <1>3

LEMMA ListTypeNext == ListTypeOK /\ [ListNext]_mailListVars => ListTypeOK'
<1> SUFFICES ASSUME ListTypeOK, [ListNext]_mailListVars PROVE ListTypeOK'
  OBVIOUS
<1>1. CASE Move
  <2>1. moves' \in 0..MaxMoves
    BY <1>1, ListAssumption DEF Move, ListTypeOK
  <2> QED
    BY <1>1, <2>1, UserTyped, TimersTyped DEF Move
<1>2. CASE Failure
  <2>1. failures' \in 0..MaxFailures /\ moves' \in 0..MaxMoves
    BY <1>2, ListAssumption DEF Failure, ListTypeOK
  <2> QED
    BY <1>2, <2>1, ArrivesTyped, RefreshTyped, SyncsTyped, DeletionsTyped DEF Failure, Failing
<1>3. CASE (Timely \/ Timers) /\ Other
  <2>1. failures' \in 0..MaxFailures /\ moves' \in 0..MaxMoves /\ UNCHANGED failures
    BY <1>3 DEF Other, ListTypeOK
  <2> QED
    BY <1>3, <2>1, ArrivesTyped, RefreshTyped, SyncsTyped, TimersTyped, RestTyped DEF Timely
<1>4. CASE (\E l \in loads : ServerReads(l)) /\ Other
  BY <1>4, RestTyped
<1>5. CASE FullTextAnswers /\ Other
  BY <1>5, RestTyped
<1>6. CASE Deletions /\ Other
  BY <1>6, DeletionsTyped DEF Other, ListTypeOK
<1>7. CASE UNCHANGED mailListVars
  BY <1>7 DEF mailListVars, ListTypeOK
<1> QED
  BY <1>1, <1>2, <1>3, <1>4, <1>5, <1>6, <1>7 DEF ListNext

\* The variables keep their types: every request is for a query, every list and
\* every banner holds mails, every sync is of a folder of the account.
THEOREM ListTypeSafe == ListSpec => []ListTypeOK
<1> QED
  BY ListTypeInit, ListTypeNext, PTL DEF ListSpec

-----------------------------------------------------------------------------
(* A mail being deleted is not in the list *)

\* Every deletion under way has set the mark of its mail, and a mail has one
\* deletion at most: so the mark that an end takes away is its own.
OneDeletion ==
    /\ \A d \in dels : tombs[d.mail] = "asked"
    /\ \A d, e \in dels : d.mail = e.mail => d = e

Hidden == OneDeletion /\ DeletedStaysHidden

LEMMA HiddenInit == ListInit => Hidden
BY DEF ListInit, Hidden, OneDeletion, DeletedStaysHidden, NoRows

\* Whatever comes into the list has passed the filter.
LEMMA FilteredHidden ==
  ASSUME Hidden, UNCHANGED <<tombs, dels>>,
         list' = list \/ list' = NoRows
           \/ \E x : list'.mails = WithoutPendingDeletes(x)
  PROVE  Hidden'
<1>1. DeletedStaysHidden'
  BY DEF Hidden, DeletedStaysHidden, Marked, WithoutPendingDeletes, NoRows
<1> QED
  BY <1>1 DEF Hidden, OneDeletion

LEMMA HiddenDelete ==
  ASSUME ListTypeOK, Hidden, NEW m \in Mails, Delete(m)
  PROVE  Hidden'
<1>1. /\ tombs' = [tombs EXCEPT ![m] = "asked"] /\ tombs \in [Mails -> {"no", "asked", "kept", "lapsed"}]
      /\ \A x \in Mails : x # m => tombs'[x] = tombs[x]
      /\ tombs'[m] = "asked" /\ tombs[m] = "no"
  BY DEF Delete, ListTypeOK
<1>2. \A d \in dels : d.mail \in Mails /\ d.mail # m
  BY <1>1 DEF Hidden, OneDeletion, ListTypeOK
<1>3. dels' = dels \cup {[mail |-> m, look |-> look, done |-> FALSE]}
  BY DEF Delete
<1>4. \A d \in dels' : tombs'[d.mail] = "asked"
  BY <1>1, <1>2, <1>3 DEF Hidden, OneDeletion
<1>5. \A d, e \in dels' : d.mail = e.mail => d = e
  <2> DEFINE new == [mail |-> m, look |-> look, done |-> FALSE]
  <2>1. new.mail = m /\ \A d \in dels' : d \in dels \/ d = new
    BY <1>3
  <2>2. \A d, e \in dels : d.mail = e.mail => d = e
    BY DEF Hidden, OneDeletion
  <2> HIDE DEF new
  <2> QED
    BY <1>2, <2>1, <2>2
<1>6. list'.mails = list.mails \ {m} /\ list.mails \subseteq Mails
  BY DEF Delete, ListTypeOK, Rows
<1>7. DeletedStaysHidden'
  BY <1>1, <1>6 DEF Hidden, DeletedStaysHidden, Marked
<1> QED
  BY <1>4, <1>5, <1>7 DEF Hidden, OneDeletion

\* The end of one deletion touches the mark of no other mail.
LEMMA HiddenEnds ==
  ASSUME ListTypeOK, Hidden, NEW d \in dels, DeleteConfirmed(d) \/ DeleteFails(d)
  PROVE  Hidden'
<1>1. /\ tombs \in [Mails -> {"no", "asked", "kept", "lapsed"}]
      /\ d.mail \in Mails /\ list.mails \subseteq Mails
      /\ \A e \in dels : e.mail \in Mails
  BY DEF ListTypeOK, Rows
<1>2. \A x \in Mails : x # d.mail => tombs'[x] = tombs[x]
  BY <1>1 DEF DeleteConfirmed, DeleteFails
<1>3. dels' = dels \ {d}
  BY DEF DeleteConfirmed, DeleteFails
<1>4. OneDeletion'
  BY <1>1, <1>2, <1>3 DEF Hidden, OneDeletion
<1>5. CASE DeleteConfirmed(d)
  <2>1. list' = list /\ d.mail \notin list.mails
    BY <1>5 DEF DeleteConfirmed, listVars, Hidden, OneDeletion, DeletedStaysHidden, Marked
  <2> QED
    BY <1>1, <1>2, <1>4, <2>1 DEF Hidden, DeletedStaysHidden, Marked
<1>6. CASE DeleteFails(d)
  <2>1. tombs'[d.mail] = "no"
    BY <1>1, <1>6 DEF DeleteFails
  <2>2. list'.mails \subseteq list.mails \cup {d.mail}
    <3>1. list \in Rows
      BY DEF ListTypeOK
    <3> QED
      BY <1>6, <3>1 DEF DeleteFails, Rows
  <2> QED
    BY <1>1, <1>2, <1>4, <2>1, <2>2 DEF Hidden, DeletedStaysHidden, Marked
<1> QED
  BY <1>5, <1>6

LEMMA HiddenServer ==
  ASSUME ListTypeOK, Hidden, NEW d \in dels, ServerDeletes(d)
  PROVE  Hidden'
<1>1. /\ dels' = (dels \ {d}) \cup {[d EXCEPT !.done = TRUE]}
      /\ [d EXCEPT !.done = TRUE].mail = d.mail
      /\ UNCHANGED <<tombs, list>>
  BY DEF ServerDeletes, ListTypeOK, listVars
<1>2. OneDeletion'
  BY <1>1 DEF Hidden, OneDeletion
<1> QED
  BY <1>1, <1>2 DEF Hidden, DeletedStaysHidden, Marked

LEMMA HiddenLapse ==
  ASSUME ListTypeOK, Hidden, NEW m \in Mails, MarkLapses(m)
  PROVE  Hidden'
<1>1. /\ tombs \in [Mails -> {"no", "asked", "kept", "lapsed"}] /\ list.mails \subseteq Mails
      /\ \A d \in dels : d.mail \in Mails
  BY DEF ListTypeOK, Rows
<1>2. /\ tombs[m] = "kept" /\ tombs' = [tombs EXCEPT ![m] = "lapsed"]
      /\ UNCHANGED <<dels, list>>
  BY DEF MarkLapses, listVars
<1> QED
  BY <1>1, <1>2 DEF Hidden, OneDeletion, DeletedStaysHidden, Marked

LEMMA HiddenNext == ListTypeOK /\ Hidden /\ [ListNext]_mailListVars => Hidden'
<1> SUFFICES ASSUME ListTypeOK, Hidden, [ListNext]_mailListVars PROVE Hidden'
  OBVIOUS
<1> USE DEF listVars, delVars, ftVars
<1>1. CASE User
  <2>1. ASSUME NEW k, Change(k) PROVE Hidden'
    BY <2>1, FilteredHidden DEF Change, LoadFor
  <2>2. CASE SelectFolder \/ TypeSearch \/ ToggleUnread \/ SetCriterion \/ SetLabelFilter \/ TogglePin
    BY <2>1, <2>2 DEF SelectFolder, TypeSearch, ToggleUnread, SetCriterion, SetLabelFilter, TogglePin
  <2>3. CASE (\E p \in 1..MaxPage : GoPage(p)) \/ RefreshAccount \/ RunFullText \/ ClearFullText
    BY <2>3, FilteredHidden DEF GoPage, RefreshAccount, RunFullText, ClearFullText
  <2>4. CASE AcceptBanner
    <3>1. list'.mails = WithoutPendingDeletes(banner.mails)
      BY <2>4 DEF AcceptBanner, ListTypeOK, Rows
    <3> QED
      BY <2>4, <3>1, FilteredHidden DEF AcceptBanner
  <2>5. CASE \E m \in Mails : Delete(m)
    BY <2>5, HiddenDelete
  <2> QED
    BY <1>1, <2>2, <2>3, <2>4, <2>5 DEF User
<1>2. CASE LiveEvent \/ Timers \/ FullTextAnswers
  BY <1>2, FilteredHidden
     DEF LiveEvent, Timers, FastTimer, PollTimer, CoolDown, FullTextAnswers
<1>3. ASSUME NEW l \in loads, Arrives(l) \/ Fails(l) \/ Refreshed(l) \/ RefreshFails(l) \/ ServerReads(l)
      PROVE  Hidden'
  <2>1. list' = list \/ list'.mails = WithoutPendingDeletes(l.got)
    <3>1. Answer(l).mails = WithoutPendingDeletes(l.got)
      BY DEF Answer
    <3>2. list' = list \/ list' = Answer(l)
      BY <1>3 DEF Arrives, Fails, Refreshed, RefreshFails, ServerReads, AcceptBackgroundHeaders
    <3> QED
      BY <3>1, <3>2
  <2>2. UNCHANGED <<tombs, dels>>
    BY <1>3 DEF Arrives, Fails, Refreshed, RefreshFails, ServerReads
  <2> QED
    BY <2>1, <2>2, FilteredHidden
<1>4. CASE RulesApplied \/ \E s \in syncs : SyncSucceeds(s) \/ SyncDeclined(s)
  BY <1>4, FilteredHidden DEF RulesApplied, Reload, SyncSucceeds, SyncDeclined
<1>5. CASE Deletions \/ \E d \in dels : DeleteFails(d)
  BY <1>5, HiddenEnds, HiddenServer, HiddenLapse DEF Deletions
<1>6. CASE UNCHANGED mailListVars
  BY <1>6, FilteredHidden DEF mailListVars
<1> QED
  BY <1>1, <1>2, <1>3, <1>4, <1>5, <1>6 DEF ListNext, Move, Failure, Failing, Timely

\* A mail whose deletion is under way or freshly confirmed is never in the list,
\* in whatever order lists are read, mails are deleted and answers arrive.
THEOREM DeletedStaysHiddenSafe == ListSpec => []DeletedStaysHidden
<1>1. ListSpec => []Hidden
  BY HiddenInit, HiddenNext, ListTypeSafe, PTL DEF ListSpec
<1>2. Hidden => DeletedStaysHidden
  BY DEF Hidden
<1> QED
  BY <1>1, <1>2, PTL

-----------------------------------------------------------------------------
(* The rows answer the screen *)

\* What waits behind the banner was asked for this folder, this page and this
\* kind of list: every change of them drops the banner.
BannerFits ==
    banner # None => /\ banner.query.place = look.place
                     /\ banner.query.page = page
                     /\ banner.query.whole = ListAll(look)

\* A request asks for the kind of list its criteria call for.  Only a reload
\* may ask for one page in spite of a search.
KindsFit ==
    \A l \in loads : /\ l.by \in {"sync", "event", "all"} => l.query.whole = ListAll(l.look)
                     /\ l.by = "page" => ~ListAll(l.look)

Fits == BannerFits /\ KindsFit

LEMMA FitsInit == ListInit => Fits
BY DEF ListInit, Fits, BannerFits, KindsFit, NewLoad

LEMMA KindsNew ==
  ASSUME KindsFit, NEW by, NEW q, NEW k, BeginListLoad(NewLoad(by, q, k)), loads \in SUBSET Load,
         by \in {"sync", "event", "all"} => q.whole = ListAll(k),
         by = "page" => ~ListAll(k)
  PROVE  KindsFit'
<1>1. ASSUME NEW x \in loads
      PROVE  /\ [x EXCEPT !.newest = FALSE].by = x.by
             /\ [x EXCEPT !.newest = FALSE].query = x.query
             /\ [x EXCEPT !.newest = FALSE].look = x.look
  BY DEF Load
<1>2. ASSUME NEW l \in loads'
      PROVE  l = NewLoad(by, q, k) \/ \E x \in loads : l = [x EXCEPT !.newest = FALSE]
  BY DEF BeginListLoad
<1>3. NewLoad(by, q, k).by = by /\ NewLoad(by, q, k).query = q /\ NewLoad(by, q, k).look = k
  BY DEF NewLoad
<1>4. ASSUME NEW l \in loads'
      PROVE  /\ l.by \in {"sync", "event", "all"} => l.query.whole = ListAll(l.look)
             /\ l.by = "page" => ~ListAll(l.look)
  <2>1. CASE l = NewLoad(by, q, k)
    BY <1>3, <2>1
  <2>2. ASSUME NEW x \in loads, l = [x EXCEPT !.newest = FALSE]
        PROVE  l.by = x.by /\ l.query = x.query /\ l.look = x.look
    BY <1>1, <2>2
  <2> QED
    BY <1>2, <2>1, <2>2 DEF KindsFit
<1> QED
  BY <1>4 DEF KindsFit, ListAll

\* The two ways to ask, and which of them a list of criteria calls for.
LEMMA FetchKind ==
  ASSUME NEW k, NEW p, NEW o
  PROVE  Fetch(k, p, o).whole = ListAll(k) /\ FetchAllForSearch(k, o).whole = TRUE
BY DEF Fetch, FetchPage, FetchAllForSearch, ListAll

LEMMA ChangeFits ==
  ASSUME ListTypeOK, Fits, NEW k \in Looks, Change(k)
  PROVE  Fits'
<1>1. BannerFits'
  <2>1. CASE banner' = None
    BY <2>1 DEF BannerFits
  <2>2. CASE banner' # None
    <3>1. look \in Looks /\ [k EXCEPT !.pin = look.pin] = look /\ page' = page /\ banner' = banner
      BY <2>2 DEF Change, ListTypeOK
    <3>2. k.place = look.place /\ k.text = look.text /\ k.label = look.label
      BY <3>1 DEF Looks
    <3> QED
      BY <3>1, <3>2 DEF Fits, BannerFits, Change, ListAll
  <2> QED
    BY <2>1, <2>2
<1>2. KindsFit'
  <2>1. CASE loads' = loads
    BY <2>1 DEF Fits, KindsFit, ListAll
  <2>2. CASE LoadFor(k, Opts(k))
    BY <2>2, KindsNew, FetchKind DEF LoadFor, Fits, ListTypeOK
  <2> QED
    BY <2>1, <2>2 DEF Change
<1> QED
  BY <1>1, <1>2 DEF Fits

\* A step that keeps the criteria and the page, and shows nothing new behind the
\* banner, only has to mind the requests.
LEMMA BannerStays ==
  ASSUME Fits, UNCHANGED <<look, page>>, banner' \in {banner, None}
  PROVE  BannerFits'
BY DEF Fits, BannerFits, ListAll

LEMMA FewerLoads ==
  ASSUME Fits, loads' \subseteq loads
  PROVE  KindsFit'
BY DEF Fits, KindsFit, ListAll

LEMMA UserFits ==
  ASSUME ListTypeOK, Fits, User
  PROVE  Fits'
<1> USE DEF listVars
<1>1. CASE SelectFolder \/ TypeSearch \/ ToggleUnread \/ SetCriterion \/ SetLabelFilter \/ TogglePin
  <2>1. /\ \A p \in Places : [look EXCEPT !.place = p] \in Looks
        /\ \A s \in Texts : [look EXCEPT !.text = s] \in Looks
        /\ [look EXCEPT !.unread = ~@] \in Looks
        /\ [look EXCEPT !.rest = ~@] \in Looks
        /\ [look EXCEPT !.label = ~@] \in Looks
        /\ [look EXCEPT !.pin = ~@] \in Looks
    BY DEF Looks, ListTypeOK
  <2> QED
    BY <1>1, <2>1, ChangeFits DEF SelectFolder, TypeSearch, ToggleUnread, SetCriterion, SetLabelFilter, TogglePin
<1>2. ASSUME NEW p \in 1..MaxPage, GoPage(p) PROVE Fits'
  <2>1. KindsFit'
    BY <1>2, KindsNew DEF GoPage, PagerOffered, Fits, ListTypeOK
  <2> QED
    BY <1>2, <2>1 DEF GoPage, Fits, BannerFits
<1>3. CASE RefreshAccount \/ AcceptBanner \/ RunFullText \/ ClearFullText \/ \E m \in Mails : Delete(m)
  <2>1. UNCHANGED <<look, page, loads>> /\ banner' \in {banner, None}
    BY <1>3 DEF RefreshAccount, AcceptBanner, RunFullText, ClearFullText, Delete
  <2> QED
    BY <2>1, BannerStays, FewerLoads DEF Fits
<1> QED
  BY <1>1, <1>2, <1>3 DEF User

\* A refresh that is still wanted shows what the screen calls for.
LEMMA RefreshFits ==
  ASSUME ListTypeOK, Fits, NEW l \in loads, Refreshed(l)
  PROVE  Fits'
<1>1. UNCHANGED <<look, page>> /\ loads' \subseteq loads
  BY DEF Refreshed
<1>2. BannerFits'
  <2>1. CASE banner' \in {banner, None}
    BY <1>1, <2>1, BannerStays
  <2>2. CASE Current(l) /\ banner' = [query |-> l.query, mails |-> l.got]
    <3>1. l.query.whole = ListAll(l.look)
      BY DEF Refreshed, Fits, KindsFit
    <3> QED
      BY <1>1, <2>2, <3>1 DEF BannerFits, Current, ListAll
  <2> QED
    BY <2>1, <2>2 DEF Refreshed, AcceptBackgroundHeaders
<1> QED
  BY <1>1, <1>2, FewerLoads DEF Fits

LEMMA FitsNext == ListTypeOK /\ Fits /\ [ListNext]_mailListVars => Fits'
<1> SUFFICES ASSUME ListTypeOK, Fits, [ListNext]_mailListVars PROVE Fits'
  OBVIOUS
<1> USE DEF listVars
<1>1. CASE User
  BY <1>1, UserFits
<1>2. CASE LiveEvent
  <2>1. KindsFit'
    BY <1>2, KindsNew, FetchKind DEF LiveEvent, Fits, ListTypeOK
  <2> QED
    BY <1>2, <2>1, BannerStays DEF LiveEvent, Fits
<1>3. CASE Timers \/ FullTextAnswers \/ Deletions \/ \E d \in dels : DeleteFails(d)
  <2>1. UNCHANGED <<look, page, banner, loads>>
    BY <1>3 DEF Timers, FastTimer, PollTimer, CoolDown, FullTextAnswers, Deletions,
                ServerDeletes, DeleteConfirmed, MarkLapses, DeleteFails
  <2> QED
    BY <2>1, BannerStays, FewerLoads DEF Fits
<1>4. ASSUME NEW l \in loads, Arrives(l) \/ Fails(l) \/ RefreshFails(l) PROVE Fits'
  <2>1. UNCHANGED <<look, page, banner>> /\ loads' \subseteq loads
    BY <1>4 DEF Arrives, Fails, RefreshFails
  <2> QED
    BY <2>1, BannerStays, FewerLoads DEF Fits
<1>5. ASSUME NEW l \in loads, Refreshed(l) PROVE Fits'
  BY <1>5, RefreshFits
<1>6. ASSUME NEW l \in loads, ServerReads(l) PROVE Fits'
  <2>1. /\ loads' = (loads \ {l}) \cup {[l EXCEPT !.got = Listing(l.query)]}
        /\ UNCHANGED <<look, page, banner>>
    BY <1>6 DEF ServerReads
  <2>2. /\ [l EXCEPT !.got = Listing(l.query)].by = l.by
        /\ [l EXCEPT !.got = Listing(l.query)].query = l.query
        /\ [l EXCEPT !.got = Listing(l.query)].look = l.look
    BY DEF ListTypeOK, Load
  <2> QED
    BY <2>1, <2>2, BannerStays DEF Fits, KindsFit, ListAll
<1>7. ASSUME NEW s \in syncs, SyncSucceeds(s) \/ SyncDeclined(s) PROVE Fits'
  <2>1. UNCHANGED <<look, page, banner>>
    BY <1>7 DEF SyncSucceeds, SyncDeclined
  <2>2. KindsFit'
    <3>1. CASE loads' = loads
      BY <3>1, FewerLoads
    <3>2. CASE BeginListLoad(NewLoad("sync", Fetch(look, page, s.opts), look))
      BY <3>2, KindsNew, FetchKind DEF Fits, ListTypeOK
    <3> QED
      BY <1>7, <3>1, <3>2 DEF SyncSucceeds, SyncDeclined
  <2> QED
    BY <2>1, <2>2, BannerStays DEF Fits
<1>8. CASE RulesApplied
  <2> DEFINE q == FetchPage([look EXCEPT !.place = applying.place], 1, applying.opts)
  <2>1. BeginListLoad(NewLoad("reload", q, look))
    BY <1>8 DEF RulesApplied, Reload
  <2>2. KindsFit /\ loads \in SUBSET Load
    BY DEF Fits, ListTypeOK
  <2> HIDE DEF q
  <2>3. KindsFit'
    BY <2>1, <2>2, KindsNew
  <2>4. BannerFits'
    BY <1>8 DEF RulesApplied, Reload, Fits, BannerFits, ListAll
  <2> QED
    BY <2>3, <2>4 DEF Fits
<1>9. CASE UNCHANGED mailListVars
  BY <1>9, BannerStays, FewerLoads DEF mailListVars, Fits
<1> QED
  BY <1>1, <1>2, <1>3, <1>4, <1>5, <1>6, <1>7, <1>8, <1>9
     DEF ListNext, Move, Failure, Failing, Timely

\* What the two action properties say of one step.
RowsFit ==
    list'.query # list.query /\ list' # NoRows =>
        list'.query.place = look'.place /\ list'.query.page = page'
HitsKept ==
    list.query # None /\ list.query.whole /\ ListAll(look') /\ list' # NoRows =>
        list'.query.whole \/ \E l \in loads \ loads' : l.by = "reload"

LEMMA SameQuery ==
  ASSUME list'.query = list.query \/ list' = NoRows
  PROVE  RowsFit /\ HitsKept
BY DEF RowsFit, HitsKept

\* Only the banner and an answer that is still wanted bring rows for another
\* query, and both were asked for what is on the screen.
LEMMA StepsFit == ListTypeOK /\ Fits /\ [ListNext]_mailListVars => RowsFit /\ HitsKept
<1> SUFFICES ASSUME ListTypeOK, Fits, [ListNext]_mailListVars PROVE RowsFit /\ HitsKept
  OBVIOUS
<1> USE DEF listVars
<1>1. CASE AcceptBanner
  <2>1. list'.query = banner.query /\ banner # None /\ UNCHANGED <<look, page>>
    BY <1>1 DEF AcceptBanner, ListTypeOK, Rows
  <2> QED
    BY <2>1 DEF Fits, BannerFits, RowsFit, HitsKept, ListAll
<1>2. ASSUME NEW m \in Mails, Delete(m) PROVE RowsFit /\ HitsKept
  <2>1. list'.query = list.query
    BY <1>2 DEF Delete, ListTypeOK, Rows
  <2> QED
    BY <2>1, SameQuery
<1>3. ASSUME NEW d \in dels, DeleteFails(d) PROVE RowsFit /\ HitsKept
  <2>1. list'.query = list.query
    BY <1>3 DEF DeleteFails, ListTypeOK, Rows
  <2> QED
    BY <2>1, SameQuery
<1>4. ASSUME NEW l \in loads, Arrives(l) \/ Refreshed(l) PROVE RowsFit /\ HitsKept
  <2>1. CASE list' = list
    BY <2>1, SameQuery
  <2>2. CASE list' # list
    <3>1. Current(l) /\ list' = Answer(l) /\ UNCHANGED <<look, page>> /\ loads' = loads \ {l}
      BY <1>4, <2>2 DEF Arrives, Refreshed, AcceptBackgroundHeaders
    <3>2. list'.query = l.query /\ l.query.place = look.place /\ l.query.page = page /\ l.look = look
      BY <3>1 DEF Answer, Current
    <3>3. l.by \in {"reload", "page", "all", "sync", "event"}
      BY DEF ListTypeOK, Load
    <3>4. l.by # "reload" /\ ListAll(look) => l.query.whole
      BY <3>2, <3>3 DEF Fits, KindsFit
    <3>5. l \in loads \ loads'
      BY <3>1
    <3> QED
      BY <3>1, <3>2, <3>4, <3>5 DEF RowsFit, HitsKept, ListAll
  <2> QED
    BY <2>1, <2>2
<1>5. ASSUME NEW k, Change(k) PROVE RowsFit /\ HitsKept
  BY <1>5, SameQuery DEF Change, LoadFor
<1>6. CASE SelectFolder \/ TypeSearch \/ ToggleUnread \/ SetCriterion \/ SetLabelFilter \/ TogglePin
  BY <1>5, <1>6 DEF SelectFolder, TypeSearch, ToggleUnread, SetCriterion, SetLabelFilter, TogglePin
<1>7. CASE \/ (\E p \in 1..MaxPage : GoPage(p)) \/ RefreshAccount \/ RunFullText \/ ClearFullText
           \/ LiveEvent \/ Timers \/ FullTextAnswers \/ Deletions
  BY <1>7, SameQuery
     DEF GoPage, RefreshAccount, RunFullText, ClearFullText, LiveEvent, Timers, FastTimer, PollTimer,
         CoolDown, FullTextAnswers, Deletions, ServerDeletes, DeleteConfirmed, MarkLapses
<1>8. CASE \/ RulesApplied \/ \E l \in loads : Fails(l) \/ RefreshFails(l) \/ ServerReads(l)
           \/ \E s \in syncs : SyncSucceeds(s) \/ SyncDeclined(s)
  BY <1>8, SameQuery
     DEF RulesApplied, Reload, Fails, RefreshFails, ServerReads, SyncSucceeds, SyncDeclined
<1>9. CASE UNCHANGED mailListVars
  BY <1>9, SameQuery DEF mailListVars
<1> QED
  BY <1>1, <1>2, <1>3, <1>4, <1>6, <1>7, <1>8, <1>9
     DEF ListNext, Move, Failure, Failing, Timely, User

\* Whatever order the answers come in, new rows in the list are those of the
\* folder and the page on the screen.
THEOREM AnswersFitSafe == ListSpec => AnswersFit
<1>1. ListSpec => []Fits
  BY FitsInit, FitsNext, ListTypeSafe, PTL DEF ListSpec
<1>2. ListTypeOK /\ Fits /\ [ListNext]_mailListVars =>
        [list'.query # list.query /\ list' # NoRows =>
           list'.query.place = look'.place /\ list'.query.page = page']_mailListVars
  BY StepsFit DEF RowsFit
<1> QED
  BY <1>1, <1>2, ListTypeSafe, PTL DEF ListSpec, AnswersFit

\* A background refresh never replaces a complete list of hits by one page.
THEOREM RefreshKeepsHitsSafe == ListSpec => RefreshKeepsHits
<1>1. ListSpec => []Fits
  BY FitsInit, FitsNext, ListTypeSafe, PTL DEF ListSpec
<1>2. ListTypeOK /\ Fits /\ [ListNext]_mailListVars =>
        [list.query # None /\ list.query.whole /\ ListAll(look') /\ list' # NoRows =>
           list'.query.whole \/ \E l \in loads \ loads' : l.by = "reload"]_mailListVars
  BY StepsFit DEF HitsKept
<1> QED
  BY <1>1, <1>2, ListTypeSafe, PTL DEF ListSpec, RefreshKeepsHits
=============================================================================
