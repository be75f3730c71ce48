-------------------------- MODULE Background_proofs ---------------------------
(* What Rounds guarantees for every set of mails and folders and any number of *)
(* changes, failures and crashes, and what IdleWatch guarantees for every set  *)
(* of accounts and threads, every number of workers and any number of edits,   *)
(* mails and broken connections.                                               *)
EXTENDS Rounds, IdleWatch, FiniteSetTheorems, TLAPS

-----------------------------------------------------------------------------
(* Rounds: the background round and the passes that IDLE starts                *)

\* After its sync a pass has a count of the inbox.
Synced == \A p \in Passes : pc[p] = "inspect" => Inbox \in DOMAIN sample[p]

\* A count that a pass reads may become its sample.
LEMMA SampleTypes ==
  ASSUME RoundsTypeOK, NEW p \in Passes, NEW g, Partial(g),
         sample' = [sample EXCEPT ![p] = g]
  PROVE  /\ DOMAIN sample' = Passes
         /\ Partial(sample'["round"]) /\ Partial(sample'["idle"])
<1>1. CASE p = "round"
  <2>1. sample'["round"] = g /\ sample'["idle"] = sample["idle"]
    BY <1>1 DEF RoundsTypeOK, Passes
  <2> QED
    BY <2>1 DEF RoundsTypeOK
<1>2. CASE p = "idle"
  <2>1. sample'["idle"] = g /\ sample'["round"] = sample["round"]
    BY <1>2 DEF RoundsTypeOK, Passes
  <2> QED
    BY <2>1 DEF RoundsTypeOK
<1> QED
  BY <1>1, <1>2 DEF Passes

LEMMA NothingPartial == Partial(Nothing)
<1>1. {} \in SUBSET Folders /\ Nothing \in [{} -> Int]
  BY DEF Nothing
<1> QED
  BY <1>1 DEF Partial

LEMMA InboxPartial ==
  ASSUME NEW n \in Int
  PROVE  Partial(OfInbox(n))
<1>1. {Inbox} \in SUBSET Folders /\ OfInbox(n) \in [{Inbox} -> Int]
  BY RoundsAssumption DEF OfInbox
<1> QED
  BY <1>1 DEF Partial

\* The unread mails of a folder can be counted.
LEMMA UnseenType ==
  ASSUME NEW f
  PROVE  /\ IsFiniteSet(In(f) \cap unread) /\ Unseen(f) \in Nat
         /\ IsFiniteSet((In(f) \cap unread)') /\ Unseen(f)' \in Nat
<1>1. In(f) \cap unread \subseteq Mails /\ (In(f) \cap unread)' \subseteq Mails
  BY DEF In
<1>2. IsFiniteSet(Mails)
  BY RoundsAssumption
<1>3. IsFiniteSet(In(f) \cap unread) /\ IsFiniteSet((In(f) \cap unread)')
  BY <1>1, <1>2, FS_Subset
<1> QED
  BY <1>3, FS_CardinalityType DEF Unseen

\* A folder gains at most the unread mails X.
LEMMA UnseenGrows ==
  ASSUME NEW f, NEW X, IsFiniteSet(X),
         (In(f) \cap unread)' \subseteq (In(f) \cap unread) \cup X
  PROVE  Unseen(f)' <= Unseen(f) + Cardinality(X)
<1> DEFINE U == In(f) \cap unread
<1>1. IsFiniteSet(U) /\ IsFiniteSet(U')
  BY UnseenType
<1>2. IsFiniteSet(U \cup X) /\ Cardinality(U \cup X) = Cardinality(U) + Cardinality(X) - Cardinality(U \cap X)
  BY <1>1, FS_Union
<1>3. Cardinality(U \cap X) \in Nat
  <2>1. IsFiniteSet(U \cap X)
    BY <1>1, FS_Intersection
  <2> QED
    BY <2>1, FS_CardinalityType
<1>4. Cardinality(U') <= Cardinality(U \cup X)
  BY <1>2, FS_Subset
<1>5. Cardinality(U') \in Nat /\ Cardinality(U) \in Nat /\ Cardinality(X) \in Nat
  BY <1>1, FS_CardinalityType
<1> QED
  BY <1>2, <1>3, <1>4, <1>5 DEF Unseen

\* A folder whose unread mails are at most those it had.
LEMMA UnseenShrinks ==
  ASSUME NEW f, (In(f) \cap unread)' \subseteq In(f) \cap unread
  PROVE  Unseen(f)' <= Unseen(f)
<1>1. IsFiniteSet({}) /\ Cardinality({}) = 0
  BY FS_EmptySet
<1>2. Unseen(f)' <= Unseen(f) + 0
  BY <1>1, UnseenGrows
<1>3. Unseen(f) \in Nat /\ Unseen(f)' \in Nat
  BY UnseenType
<1> QED
  BY <1>2, <1>3

-----------------------------------------------------------------------------
(* Types.                                                                    *)

\* A failure stays within its bound.
LEMMA FaultTypes ==
  ASSUME RoundsTypeOK, Fault
  PROVE  /\ faults' \in 0 .. MaxFaults
         /\ flips' \in 0 .. MaxFlips /\ puts' \in 0 .. MaxPuts /\ claims' \in 0 .. MaxClaims
<1>1. MaxFaults \in Nat
  BY RoundsAssumption
<1> QED
  BY <1>1 DEF RoundsTypeOK, Fault

\* Every pass keeps the types as it goes through rules and inbox.
LEMMA TypesInside ==
  ASSUME RoundsTypeOK, Synced, NEW p \in Passes,
         \/ Enter(p) \/ ApplyRules(p) \/ RulesFail(p) \/ Sync(p) \/ SyncFails(p)
         \/ Inspect(p) \/ InspectFails(p)
  PROVE  RoundsTypeOK' /\ Synced'
<1>1. CASE Enter(p)
  BY <1>1 DEF RoundsTypeOK, Synced, Enter, EnterLock, Goto, roundsVars, server, push, history, budget, Points, Inside, Passes
<1>2. CASE ApplyRules(p)
  BY <1>2 DEF RoundsTypeOK, Synced, ApplyRules, Trash, Goto, NoFault, push, history, budget, Points, Inside, Passes
<1>3. CASE RulesFail(p)
  <2>1. pc' \in [Passes -> Points] /\ known' \subseteq Mails /\ Synced'
    BY <1>3 DEF RoundsTypeOK, Synced, RulesFail, Goto, Points, Inside
  <2>2. Fault
    BY <1>3 DEF RulesFail
  <2> QED
    BY <1>3, <2>1, <2>2, FaultTypes DEF RoundsTypeOK, RulesFail, server, push, history
<1>4. CASE Sync(p)
  <2>1. PICK n \in Int : sample' = [sample EXCEPT ![p] = OfInbox(n)]
    <3>1. Unseen(Inbox) \in Nat
      BY UnseenType
    <3>2. Unseen(Inbox) \in Int
      BY <3>1
    <3> QED
      BY <1>4, <3>2 DEF Sync
  <2>2. /\ DOMAIN sample' = Passes /\ Partial(sample'["round"]) /\ Partial(sample'["idle"])
    BY <2>1, InboxPartial, SampleTypes
  <2>3. Synced'
    BY <1>4, <2>1 DEF Sync, Goto, Synced, RoundsTypeOK, Passes, OfInbox
  <2>4. faults' \in 0 .. MaxFaults /\ flips' = flips /\ puts' = puts /\ claims' = claims
    BY <1>4, FaultTypes DEF Sync, Fault, NoFault, budget, RoundsTypeOK
  <2>5. miscounted' \subseteq Folders
    BY <1>4, RoundsAssumption DEF Sync, RoundsTypeOK
  <2>6. cached' \subseteq Mails /\ new' \in [Passes -> SUBSET Mails]
    BY <1>4 DEF Sync, RoundsTypeOK, In
  <2> QED
    BY <1>4, <2>2, <2>3, <2>4, <2>5, <2>6 DEF Sync, RoundsTypeOK, Goto, server, push, Points, Inside, Passes
<1>5. CASE SyncFails(p)
  BY <1>5, RoundsAssumption DEF RoundsTypeOK, Synced, SyncFails, Fault, LeaveLock, Goto, server, push, history, Points, Inside, Passes
<1>6. ASSUME NEW n \in Int, AfterInspect(p, n)
      PROVE  /\ DOMAIN sample' = Passes /\ Partial(sample'["round"]) /\ Partial(sample'["idle"])
             /\ Synced'
             /\ new' \in [Passes -> SUBSET Mails]
             /\ lock' \in Passes \cup {"free"} /\ pc' \in [Passes -> Points]
             /\ UNCHANGED <<push, known, watch, gate, due, miscounted>>
  <2>1. PICK g : Partial(g) /\ sample' = [sample EXCEPT ![p] = g]
    BY <1>6, NothingPartial, InboxPartial DEF AfterInspect
  <2>2. DOMAIN sample' = Passes /\ Partial(sample'["round"]) /\ Partial(sample'["idle"])
    BY <2>1, SampleTypes
  <2>3. Synced'
    BY <1>6, <2>1 DEF AfterInspect, Goto, Synced, RoundsTypeOK, Passes
  <2> QED
    BY <1>6, <2>2, <2>3 DEF AfterInspect, RoundsTypeOK, Goto, LeaveLock, Points, Inside, Passes
<1>7. pc[p] = "inspect" => sample[p][Inbox] \in Int
  BY DEF Synced, RoundsTypeOK, Partial, Passes
<1>8. CASE Inspect(p)
  <2> DEFINE moved == new[p] \cap Suspect \cap In(Inbox)
             n == Cardinality(moved \cap unread)
  <2>1. n \in Nat
    <3>1. moved \cap unread \subseteq Mails /\ IsFiniteSet(Mails)
      BY RoundsAssumption DEF In
    <3> QED
      BY <3>1, FS_Subset, FS_CardinalityType
  <2>2. pc[p] = "inspect" /\ AfterInspect(p, Less(sample[p][Inbox], n))
    BY <1>8 DEF Inspect, AfterInspect
  <2>3. Less(sample[p][Inbox], n) \in Int
    BY <1>7, <2>1, <2>2 DEF Less
  <2>4. /\ place' \in [Mails -> Folders \cup {Absent, Gone}] /\ unread' \subseteq Mails
        /\ cached' \subseteq Mails /\ bell' \in BOOLEAN
    <3>1. Spam \in Folders /\ moved \subseteq Mails
      BY RoundsAssumption DEF In
    <3>2. place' = [m \in Mails |-> IF m \in moved THEN Spam ELSE place[m]]
      BY <1>8 DEF Inspect
    <3>3. place' \in [Mails -> Folders \cup {Absent, Gone}]
      BY <3>1, <3>2 DEF RoundsTypeOK
    <3>4. bell' \in BOOLEAN
      BY <1>8 DEF Inspect, RoundsTypeOK
    <3>5. cached' = cached \ moved /\ unread' = unread
      BY <1>8 DEF Inspect
    <3> QED
      BY <3>3, <3>4, <3>5 DEF RoundsTypeOK
  <2>5. credit' \in Counts
    <3>1. credit' = [credit EXCEPT ![Spam] = @ + n]
      BY <1>8 DEF Inspect
    <3>2. Spam \in Folders
      BY RoundsAssumption
    <3> HIDE DEF n
    <3> QED
      BY <2>1, <3>1, <3>2 DEF RoundsTypeOK, Counts
  <2>6. UNCHANGED <<flips, puts, claims, faults>>
    BY <1>8 DEF Inspect, NoFault, budget
  <2>7. /\ DOMAIN sample' = Passes /\ Partial(sample'["round"]) /\ Partial(sample'["idle"])
        /\ Synced'
        /\ new' \in [Passes -> SUBSET Mails]
        /\ lock' \in Passes \cup {"free"} /\ pc' \in [Passes -> Points]
        /\ UNCHANGED <<push, known, watch, gate, due, miscounted>>
    BY <1>6, <2>2, <2>3
  <2> QED
    BY <2>4, <2>5, <2>6, <2>7 DEF RoundsTypeOK, push
<1>9. CASE InspectFails(p)
  <2>1. /\ DOMAIN sample' = Passes /\ Partial(sample'["round"]) /\ Partial(sample'["idle"])
        /\ Synced'
        /\ new' \in [Passes -> SUBSET Mails]
        /\ lock' \in Passes \cup {"free"} /\ pc' \in [Passes -> Points]
        /\ UNCHANGED <<push, known, watch, gate, due, miscounted>>
    BY <1>6, <1>7, <1>9 DEF InspectFails, AfterInspect
  <2> QED
    BY <1>9, <2>1, RoundsAssumption DEF InspectFails, Fault, RoundsTypeOK, server, push
<1> QED
  BY <1>1, <1>2, <1>3, <1>4, <1>5, <1>8, <1>9

\* Counting and comparing keep the types.
LEMMA TypesCounting ==
  ASSUME RoundsTypeOK, Synced, Sweep \/ ClaimCounts \/ ReadCounts \/ CountsFail
  PROVE  RoundsTypeOK' /\ Synced'
<1>1. CASE Sweep
  <2>1. /\ pc' \in [Passes -> Points] /\ Synced'
        /\ place' \in [Mails -> Folders \cup {Absent, Gone}] /\ unread' \subseteq Mails
        /\ bell' \in BOOLEAN
    BY <1>1 DEF RoundsTypeOK, Synced, Sweep, Trash, Goto, Points, Inside, Passes
  <2>2. /\ faults' \in 0 .. MaxFaults
        /\ flips' \in 0 .. MaxFlips /\ puts' \in 0 .. MaxPuts /\ claims' \in 0 .. MaxClaims
    BY <1>1, FaultTypes DEF Sweep, NoFault, budget, RoundsTypeOK
  <2> QED
    BY <1>1, <2>1, <2>2 DEF RoundsTypeOK, Sweep, push, history
<1>2. CASE ClaimCounts
  BY <1>2 DEF RoundsTypeOK, Synced, ClaimCounts, Goto, server, push, history, budget, Points, Inside, Passes
<1>3. CASE ReadCounts
  <2>1. PICK g : Partial(g) /\ sample' = [sample EXCEPT !["round"] = g]
    <3>1. \A f : Unseen(f) \in Nat
      BY UnseenType
    <3>2. Partial([f \in Folders |-> Unseen(f)])
      <4>1. [f \in Folders |-> Unseen(f)] \in [Folders -> Int]
        BY <3>1
      <4> QED
        BY <4>1 DEF Partial
    <3>3. ASSUME NEW failed \in Folders
          PROVE  Partial([f \in Folders |-> IF f = failed THEN 0 ELSE Unseen(f)])
      <4>1. [f \in Folders |-> IF f = failed THEN 0 ELSE Unseen(f)] \in [Folders -> Int]
        BY <3>1
      <4> QED
        BY <4>1 DEF Partial
    <3>4. CASE sample' = [sample EXCEPT !["round"] = [f \in Folders |-> Unseen(f)]]
      BY <3>2, <3>4
    <3>5. CASE \E failed \in Folders :
                 sample' = [sample EXCEPT !["round"] = [f \in Folders |-> IF f = failed THEN 0 ELSE Unseen(f)]]
      BY <3>3, <3>5
    <3> QED
      BY <1>3, <3>4, <3>5 DEF ReadCounts
  <2>2. DOMAIN sample' = Passes /\ Partial(sample'["round"]) /\ Partial(sample'["idle"])
    BY <2>1, SampleTypes DEF Passes
  <2>3. pc' \in [Passes -> Points] /\ gate' = "cooling" /\ Synced'
    BY <1>3, <2>1 DEF ReadCounts, Goto, Synced, RoundsTypeOK, Points, Inside, Passes
  <2>4. miscounted' \subseteq Folders
    BY <1>3 DEF ReadCounts, RoundsTypeOK
  <2>5. /\ faults' \in 0 .. MaxFaults
        /\ flips' \in 0 .. MaxFlips /\ puts' \in 0 .. MaxPuts /\ claims' \in 0 .. MaxClaims
    BY <1>3, FaultTypes DEF ReadCounts, NoFault, budget, RoundsTypeOK
  <2> QED
    BY <1>3, <2>2, <2>3, <2>4, <2>5 DEF RoundsTypeOK, ReadCounts, server, push
<1>4. CASE CountsFail
  <2>1. pc' \in [Passes -> Points] /\ gate' = "cooling" /\ Synced' /\ Fault
    BY <1>4 DEF CountsFail, Goto, Synced, RoundsTypeOK, Points, Inside, Passes
  <2> QED
    BY <1>4, <2>1, FaultTypes DEF CountsFail, RoundsTypeOK, server, push, history
<1> QED
  BY <1>1, <1>2, <1>3, <1>4

\* What a check writes and pushes are whole numbers.
LEMMA PushTypes ==
  ASSUME RoundsTypeOK, NEW p \in Passes
  PROVE  /\ Changed(p) \subseteq Folders
         /\ \A f \in Changed(p) : sample[p][f] \in Int /\ loaded[f] \in Int
         /\ \A f : Pushed(p, f) \in Nat
<1>1. Partial(sample[p]) /\ Partial(loaded)
  BY DEF RoundsTypeOK, Passes
<1>2. /\ DOMAIN loaded \subseteq Folders /\ \A f \in DOMAIN loaded : loaded[f] \in Int
      /\ \A f \in DOMAIN sample[p] : sample[p][f] \in Int
  BY <1>1 DEF Partial
<1>3. Changed(p) \subseteq Folders /\ \A f \in Changed(p) : sample[p][f] \in Int /\ loaded[f] \in Int
  BY <1>2 DEF Changed
<1> QED
  BY <1>3 DEF Pushed

LEMMA TypesPush ==
  ASSUME RoundsTypeOK, Synced, NEW p \in Passes,
         NoRows(p) \/ Compare(p) \/ Commit(p) \/ Rollback(p)
  PROVE  RoundsTypeOK' /\ Synced'
<1>1. ASSUME EndPush(p), pc[p] # "inspect"
      PROVE  /\ DOMAIN sample' = Passes /\ Partial(sample'["round"]) /\ Partial(sample'["idle"])
             /\ pc' \in [Passes -> Points] /\ Synced'
             /\ UNCHANGED <<server, cached, bell, known, watch, new, gate, due, miscounted>>
  <2>1. DOMAIN sample' = Passes /\ Partial(sample'["round"]) /\ Partial(sample'["idle"])
    BY <1>1, NothingPartial, SampleTypes DEF EndPush
  <2>2. pc' \in [Passes -> Points] /\ Synced'
    BY <1>1 DEF EndPush, Goto, RoundsTypeOK, Synced, Points, Inside, Passes
  <2> QED
    BY <1>1, <2>1, <2>2 DEF EndPush
<1>2. CASE NoRows(p)
  BY <1>1, <1>2 DEF NoRows, RoundsTypeOK, server, push, budget
<1>3. CASE Compare(p)
  <2>1. Partial(loaded')
    <3>1. loaded' = [f \in rows |-> base[f]]
      BY <1>3 DEF Compare
    <3>2. rows \in SUBSET Folders /\ loaded' \in [rows -> Int]
      BY <3>1 DEF RoundsTypeOK, Counts
    <3> QED
      BY <3>2 DEF Partial
  <2>2. pc' \in [Passes -> Points] /\ Synced' /\ lock' \in Passes
    BY <1>3 DEF Compare, EnterLock, Goto, RoundsTypeOK, Synced, Points, Inside, Passes
  <2> QED
    BY <1>3, <2>1, <2>2 DEF Compare, RoundsTypeOK, server, history, budget
<1>4. ASSUME CloseCheck(p)
      PROVE  /\ EndPush(p) /\ pc[p] # "inspect" /\ lock' = "free" /\ Partial(loaded') /\ stale' = {}
             /\ rows' = rows
  BY <1>4, NothingPartial DEF CloseCheck, LeaveLock
<1>5. CASE Commit(p)
  <2>1. base' \in Counts
    BY <1>5, PushTypes DEF Commit, RoundsTypeOK, Counts
  <2>2. credit' \in Counts
    <3>1. credit' = [f \in Folders |-> credit[f] - Pushed(p, f)]
      BY <1>5 DEF Commit
    <3> QED
      BY <3>1, PushTypes DEF RoundsTypeOK, Counts
  <2>3. CloseCheck(p) /\ UNCHANGED <<flips, puts, claims, faults>>
    BY <1>5 DEF Commit, NoFault, budget
  <2> QED
    BY <1>1, <1>4, <2>1, <2>2, <2>3 DEF RoundsTypeOK, server
<1>6. CASE Rollback(p)
  <2>1. CloseCheck(p) /\ UNCHANGED <<base, credit>>
    BY <1>6 DEF Rollback
  <2>2. /\ faults' \in 0 .. MaxFaults
        /\ flips' \in 0 .. MaxFlips /\ puts' \in 0 .. MaxPuts /\ claims' \in 0 .. MaxClaims
    BY <1>6, FaultTypes DEF Rollback, NoFault, budget, RoundsTypeOK
  <2> QED
    BY <1>1, <1>4, <2>1, <2>2 DEF RoundsTypeOK, server
<1> QED
  BY <1>2, <1>3, <1>5, <1>6

\* So do the environment, clients and time.
LEMMA TypesEnvironment ==
  ASSUME RoundsTypeOK, Synced, Environment \/ ClientFinish \/ CoolDown \/ SweepDue
  PROVE  RoundsTypeOK' /\ Synced'
<1>1. ASSUME NEW S, Trash(S)
      PROVE  /\ place' \in [Mails -> Folders \cup {Absent, Gone}] /\ unread' \subseteq Mails
             /\ bell' \in BOOLEAN
  BY <1>1 DEF Trash, RoundsTypeOK
<1>2. ASSUME NEW f \in Folders, credit' = [credit EXCEPT ![f] = @ + 1]
      PROVE  credit' \in Counts
  BY <1>2 DEF RoundsTypeOK, Counts
<1>3. ASSUME NEW m \in Mails, Arrive(m)
      PROVE  RoundsTypeOK' /\ Synced'
  <2>1. Home[m] \in Folders
    BY RoundsAssumption
  <2>2. place' \in [Mails -> Folders \cup {Absent, Gone}] /\ unread' \subseteq Mails /\ bell' \in BOOLEAN
    BY <1>3, <2>1 DEF Arrive, RoundsTypeOK
  <2>3. credit' \in Counts
    BY <1>2, <1>3, <2>1 DEF Arrive
  <2> QED
    BY <1>3, <2>2, <2>3 DEF Arrive, RoundsTypeOK, Synced, idleWorld, push, pass, budget
<1>4. ASSUME NEW m \in Mails, Read(m)
      PROVE  RoundsTypeOK' /\ Synced'
  BY <1>4 DEF Read, RoundsTypeOK, Synced, idleWorld, push, pass, budget
<1>5. ASSUME NEW m \in Mails, MarkUnread(m)
      PROVE  RoundsTypeOK' /\ Synced'
  <2>1. place[m] \in Folders /\ flips' \in 0 .. MaxFlips
    BY <1>5, RoundsAssumption DEF MarkUnread, Present, RoundsTypeOK
  <2>2. credit' \in Counts
    BY <1>2, <1>5, <2>1 DEF MarkUnread
  <2> QED
    BY <1>5, <2>1, <2>2 DEF MarkUnread, RoundsTypeOK, Synced, idleWorld, push, pass
<1>6. ASSUME NEW m \in Mails, Remove(m)
      PROVE  RoundsTypeOK' /\ Synced'
  BY <1>1, <1>6 DEF Remove, RoundsTypeOK, Synced, idleWorld, push, pass, budget
<1>7. CASE List
  BY <1>7 DEF List, RoundsTypeOK, Synced, In, server, idleWorld, push, pass, budget
<1>8. CASE UserRules
  BY <1>1, <1>8 DEF UserRules, RoundsTypeOK, Synced, idleWorld, push, pass, budget
<1>9. ASSUME NEW wanted \in SUBSET Folders, Watch(wanted)
      PROVE  RoundsTypeOK' /\ Synced'
  <2>1. base' \in Counts /\ rows' \subseteq Folders /\ stale' \subseteq Folders
    BY <1>9 DEF Watch, RoundsTypeOK, Counts
  <2>2. puts' \in 0 .. MaxPuts
    BY <1>9, RoundsAssumption DEF Watch, RoundsTypeOK
  <2> QED
    BY <1>9, <2>1, <2>2 DEF Watch, RoundsTypeOK, Synced, server, pass, history
<1>10. CASE ClientClaim
  BY <1>10, RoundsAssumption DEF ClientClaim, RoundsTypeOK, Synced, server, push, pass, history
<1>11. CASE Crash
  <2>1. DOMAIN sample' = Passes /\ Partial(sample'["round"]) /\ Partial(sample'["idle"]) /\ Partial(loaded')
    BY <1>11, NothingPartial DEF Crash, Passes
  <2>2. Synced' /\ pc' \in [Passes -> Points] /\ new' \in [Passes -> SUBSET Mails]
    BY <1>11 DEF Crash, Synced, Points
  <2> QED
    BY <1>11, <2>1, <2>2, FaultTypes DEF Crash, RoundsTypeOK, server, history
<1>12. CASE ClientFinish \/ CoolDown \/ SweepDue
  BY <1>12 DEF ClientFinish, CoolDown, SweepDue, RoundsTypeOK, Synced, server, push, pass, history, budget
<1> QED
  BY <1>3, <1>4, <1>5, <1>6, <1>7, <1>8, <1>9, <1>10, <1>11, <1>12 DEF Environment

LEMMA TypesInit == RoundsInit => RoundsTypeOK /\ Synced
<1>1. RoundsInit => Partial(Nothing)
  BY NothingPartial
<1>2. RoundsInit => pc \in [Passes -> Points] /\ base \in Counts /\ credit \in Counts
  BY DEF RoundsInit, Points, Counts
<1>3. RoundsInit => DOMAIN sample = Passes /\ sample["round"] = Nothing /\ sample["idle"] = Nothing
  BY DEF RoundsInit, Passes
<1>4. RoundsInit => place \in [Mails -> Folders \cup {Absent, Gone}]
  BY DEF RoundsInit
<1>5. RoundsInit => /\ flips \in 0 .. MaxFlips /\ puts \in 0 .. MaxPuts
              /\ claims \in 0 .. MaxClaims /\ faults \in 0 .. MaxFaults
  BY RoundsAssumption DEF RoundsInit
<1>6. RoundsInit => Synced
  BY DEF RoundsInit, Synced
<1> QED
  BY <1>1, <1>2, <1>3, <1>4, <1>5, <1>6 DEF RoundsInit, RoundsTypeOK

LEMMA TypesStep == RoundsTypeOK /\ Synced /\ [RoundsNext]_roundsVars => RoundsTypeOK' /\ Synced'
<1> SUFFICES ASSUME RoundsTypeOK, Synced, [RoundsNext]_roundsVars
             PROVE  RoundsTypeOK' /\ Synced'
  OBVIOUS
<1>1. ASSUME NEW p \in Passes, StepOf(p)
      PROVE  RoundsTypeOK' /\ Synced'
  BY <1>1, TypesInside, TypesPush DEF StepOf
<1>2. CASE Sweep \/ ClaimCounts \/ ReadCounts \/ CountsFail
  BY <1>2, TypesCounting
<1>3. CASE Environment \/ ClientFinish \/ CoolDown \/ SweepDue
  BY <1>3, TypesEnvironment
<1>4. CASE UNCHANGED roundsVars
  BY <1>4 DEF RoundsTypeOK, Synced, roundsVars, server, push, pass, history, budget
<1> QED
  BY <1>1, <1>2, <1>3, <1>4 DEF RoundsNext, Round, Idle, Passes

\* Every state has the types the code gives its variables; a pass that looks for
\* suspicious mail has a count of the inbox (_warm_sync, _neue_pruefen).
THEOREM RoundsTypeCorrect == RoundsSpec => [](RoundsTypeOK /\ Synced)
<1> QED
  BY TypesInit, TypesStep, PTL DEF RoundsSpec

-----------------------------------------------------------------------------
(* One pass at a time inside.                                                *)

LEMMA ExclusiveStep == RoundsTypeOK /\ Exclusive /\ [RoundsNext]_roundsVars => Exclusive'
<1> SUFFICES ASSUME RoundsTypeOK, Exclusive, [RoundsNext]_roundsVars
             PROVE  Exclusive'
  OBVIOUS
<1> USE DEF Exclusive, Inside
<1>1. ASSUME NEW p \in Passes, StepOf(p)
      PROVE  Exclusive'
  <2>1. pc \in [Passes -> Points] /\ Passes = {"round", "idle"}
    BY DEF RoundsTypeOK, Passes
  <2>2. CASE Enter(p)
    BY <2>1, <2>2 DEF Enter, EnterLock, Goto
  <2>3. CASE ApplyRules(p)
    BY <2>1, <2>3 DEF ApplyRules, Goto
  <2>4. CASE RulesFail(p)
    BY <2>1, <2>4 DEF RulesFail, Goto
  <2>5. CASE Sync(p)
    BY <2>1, <2>5 DEF Sync, Goto
  <2>6. CASE SyncFails(p)
    BY <2>1, <2>6 DEF SyncFails, LeaveLock, Goto
  <2>7. ASSUME NEW n, AfterInspect(p, n)
        PROVE  Exclusive'
    BY <2>1, <2>7 DEF AfterInspect, LeaveLock, Goto
  <2>8. CASE Inspect(p) \/ InspectFails(p)
    BY <2>7, <2>8 DEF Inspect, InspectFails
  <2>9. CASE NoRows(p)
    BY <2>1, <2>9 DEF NoRows, EndPush, Goto
  <2>10. CASE Compare(p)
    BY <2>1, <2>10 DEF Compare, EnterLock, Goto
  <2>11. CASE Commit(p) \/ Rollback(p)
    BY <2>1, <2>11 DEF Commit, Rollback, CloseCheck, EndPush, LeaveLock, Goto
  <2> QED
    BY <1>1, <2>2, <2>3, <2>4, <2>5, <2>6, <2>8, <2>9, <2>10, <2>11 DEF StepOf
<1>2. CASE Sweep \/ ClaimCounts \/ ReadCounts \/ CountsFail
  BY <1>2 DEF Sweep, ClaimCounts, ReadCounts, CountsFail, Goto, RoundsTypeOK, Passes
<1>3. CASE ClientFinish \/ CoolDown \/ SweepDue \/ ClientClaim
  BY <1>3 DEF ClientFinish, CoolDown, SweepDue, ClientClaim, pass
<1>4. CASE Crash
  BY <1>4 DEF Crash, Passes
<1>5. CASE \/ \E m \in Mails : Arrive(m) \/ Read(m) \/ MarkUnread(m) \/ Remove(m)
           \/ List \/ UserRules \/ \E wanted \in SUBSET Folders : Watch(wanted)
  BY <1>5 DEF Arrive, Read, MarkUnread, Remove, List, UserRules, Watch, idleWorld, pass
<1>6. CASE UNCHANGED roundsVars
  BY <1>6 DEF roundsVars, pass
<1> QED
  BY <1>1, <1>2, <1>3, <1>4, <1>5, <1>6 DEF RoundsNext, Round, Idle, Environment, Passes

\* Rules, sync, inspection and the push check of the two passes never overlap, and the
\* round's counts keep everyone else's live counts out (_konto_sperre, counts_gate).
THEOREM PassesExclude == RoundsSpec => []Exclusive
<1>1. RoundsInit => Exclusive
  BY DEF RoundsInit, Exclusive, Inside, Passes
<1> QED
  BY <1>1, TypesInit, TypesStep, ExclusiveStep, PTL DEF RoundsSpec

-----------------------------------------------------------------------------
(* Outside the inbox only the round reports.  A folder's credit covers what  *)
(* is unread beyond the number last reported, and what is unread beyond the  *)
(* count the round carries, and that count beyond the number last reported.  *)

IdleSample == DOMAIN sample["idle"] \subseteq {Inbox}

\* A row loaded and not deleted since is still what it was.
Fresh ==
  pc["round"] = "commit" =>
    \A f \in DOMAIN loaded \ stale : f \in rows /\ loaded[f] = base[f]

Covered(f) ==
  /\ credit[f] >= 0
  /\ base[f] >= 0 => credit[f] >= Unseen(f) - base[f]
  /\ f \in DOMAIN sample["round"] =>
       /\ credit[f] >= Unseen(f) - sample["round"][f]
       /\ base[f] >= 0 => credit[f] >= sample["round"][f] - base[f]

Side == Folders \ ({Inbox} \cup miscounted)
SideCovered == \A f \in Side : Covered(f)

SideInv == RoundsTypeOK /\ Synced /\ Exclusive /\ IdleSample /\ Fresh /\ SideCovered

LEMMA IdleSampleStep == SideInv /\ [RoundsNext]_roundsVars => IdleSample'
<1> SUFFICES ASSUME SideInv, [RoundsNext]_roundsVars
             PROVE  IdleSample'
  OBVIOUS
<1>1. DOMAIN sample = Passes /\ DOMAIN sample["idle"] \subseteq {Inbox} /\ Passes = {"round", "idle"}
  BY DEF SideInv, RoundsTypeOK, IdleSample, Passes
<1>2. /\ DOMAIN Nothing \subseteq {Inbox}
      /\ \A n : DOMAIN OfInbox(n) \subseteq {Inbox}
  BY DEF Nothing, OfInbox
<1>3. ASSUME NEW p \in Passes, NEW g, DOMAIN g \subseteq {Inbox}, sample' = [sample EXCEPT ![p] = g]
      PROVE  IdleSample'
  BY <1>1, <1>3 DEF IdleSample
<1>4. CASE sample' = sample
  BY <1>1, <1>4 DEF IdleSample
<1>5. ASSUME NEW p \in Passes, StepOf(p)
      PROVE  IdleSample'
  <2>1. CASE Enter(p) \/ ApplyRules(p) \/ RulesFail(p) \/ SyncFails(p) \/ Compare(p)
    BY <1>4, <2>1 DEF Enter, ApplyRules, RulesFail, SyncFails, Compare
  <2>2. CASE Sync(p)
    BY <1>2, <1>3, <2>2 DEF Sync
  <2>3. ASSUME NEW n, AfterInspect(p, n)
        PROVE  IdleSample'
    <3>1. DOMAIN (IF p = "round" THEN Nothing ELSE OfInbox(n)) \subseteq {Inbox}
      BY <1>2
    <3> QED
      BY <1>3, <2>3, <3>1 DEF AfterInspect
  <2>4. CASE Inspect(p) \/ InspectFails(p)
    BY <2>3, <2>4 DEF Inspect, InspectFails
  <2>5. CASE NoRows(p) \/ Commit(p) \/ Rollback(p)
    BY <1>2, <1>3, <2>5 DEF NoRows, Commit, Rollback, CloseCheck, EndPush
  <2> QED
    BY <1>5, <2>1, <2>2, <2>4, <2>5 DEF StepOf
<1>6. CASE Sweep \/ ClaimCounts \/ CountsFail \/ ClientFinish \/ CoolDown \/ SweepDue
  BY <1>4, <1>6 DEF Sweep, ClaimCounts, CountsFail, ClientFinish, CoolDown, SweepDue, pass
<1>7. CASE ReadCounts
  <2>1. sample'["idle"] = sample["idle"]
    BY <1>1, <1>7 DEF ReadCounts
  <2> QED
    BY <1>1, <2>1 DEF IdleSample
<1>8. CASE Crash
  BY <1>2, <1>8 DEF Crash, IdleSample, Passes
<1>9. CASE Environment /\ ~ Crash
  BY <1>4, <1>9 DEF Environment, Arrive, Read, MarkUnread, Remove, List, UserRules, ClientClaim, Watch, idleWorld, pass
<1>10. CASE UNCHANGED roundsVars
  BY <1>4, <1>10 DEF roundsVars, pass
<1> QED
  BY <1>5, <1>6, <1>7, <1>8, <1>9, <1>10 DEF RoundsNext, Round, Idle, Passes

LEMMA FreshStep == SideInv /\ [RoundsNext]_roundsVars => Fresh'
<1> SUFFICES ASSUME SideInv, [RoundsNext]_roundsVars, pc'["round"] = "commit",
                    NEW f \in DOMAIN loaded' \ stale'
             PROVE  f \in rows' /\ loaded'[f] = base'[f]
  BY DEF Fresh
<1>1. /\ pc \in [Passes -> Points] /\ Passes = {"round", "idle"}
      /\ pc["round"] = "commit" => lock = "round"
      /\ pc["idle"] = "commit" => lock = "idle"
  BY DEF SideInv, RoundsTypeOK, Exclusive, Passes, Inside
<1>2. CASE UNCHANGED push /\ pc["round"] = "commit"
  BY <1>2 DEF SideInv, Fresh, push
<1>3. CASE Compare("round")
  BY <1>3 DEF Compare
<1>4. ASSUME NEW p \in Passes, StepOf(p), ~ Compare("round")
      PROVE  UNCHANGED push /\ pc["round"] = "commit"
  <2>1. CASE Enter(p) \/ ApplyRules(p) \/ RulesFail(p) \/ SyncFails(p) \/ Sync(p)
    BY <1>1, <2>1 DEF Enter, ApplyRules, RulesFail, SyncFails, Sync, Goto, push
  <2>2. ASSUME NEW n, AfterInspect(p, n)
        PROVE  UNCHANGED push /\ pc["round"] = "commit"
    BY <1>1, <2>2 DEF AfterInspect, Goto, push
  <2>3. CASE Inspect(p) \/ InspectFails(p)
    BY <2>2, <2>3 DEF Inspect, InspectFails
  <2>4. CASE NoRows(p)
    BY <1>1, <2>4 DEF NoRows, EndPush, Goto, push
  <2>5. CASE Compare(p)
    BY <1>1, <1>4, <2>5 DEF Compare, EnterLock, Goto
  <2>6. CASE Commit(p) \/ Rollback(p)
    BY <1>1, <2>6 DEF Commit, Rollback, CloseCheck, EndPush, Goto
  <2> QED
    BY <1>4, <2>1, <2>3, <2>4, <2>5, <2>6 DEF StepOf
<1>5. CASE Sweep \/ ClaimCounts \/ ReadCounts \/ CountsFail
  BY <1>1, <1>2, <1>5 DEF Sweep, ClaimCounts, ReadCounts, CountsFail, Goto, push
<1>6. CASE ClientFinish \/ CoolDown \/ SweepDue \/ ClientClaim \/ List \/ UserRules
           \/ \E m \in Mails : Arrive(m) \/ Read(m) \/ MarkUnread(m) \/ Remove(m)
  BY <1>2, <1>6 DEF ClientFinish, CoolDown, SweepDue, ClientClaim, List, UserRules, Arrive, Read,
                    MarkUnread, Remove, idleWorld, pass
<1>7. CASE Crash
  BY <1>7 DEF Crash, Passes
<1>8. ASSUME NEW wanted \in SUBSET Folders, Watch(wanted)
      PROVE  f \in rows' /\ loaded'[f] = base'[f]
  <2>1. pc["round"] = "commit" /\ loaded' = loaded /\ f \in DOMAIN loaded
    BY <1>8 DEF Watch, pass
  <2>2. loaded # Nothing
    BY <2>1 DEF Nothing
  <2>3. f \notin stale /\ f \notin rows \ wanted
    BY <1>8, <2>2 DEF Watch
  <2>4. f \in rows /\ loaded[f] = base[f]
    BY <2>1, <2>3 DEF SideInv, Fresh
  <2>5. f \in Folders
    BY <2>4 DEF SideInv, RoundsTypeOK
  <2> QED
    BY <1>8, <2>1, <2>3, <2>4, <2>5 DEF Watch
<1>9. CASE UNCHANGED roundsVars
  BY <1>2, <1>9 DEF roundsVars, pass
<1> QED
  BY <1>2, <1>3, <1>4, <1>5, <1>6, <1>7, <1>8, <1>9 DEF RoundsNext, Round, Idle, Environment, Passes

\* A folder stays covered when its credit grows with its unread mails.
LEMMA StaysCovered ==
  ASSUME RoundsTypeOK, NEW f \in Folders, Covered(f), NEW k \in Nat,
         base'[f] = base[f],
         credit'[f] = credit[f] + k,
         Unseen(f)' <= Unseen(f) + k,
         f \in DOMAIN sample'["round"] =>
           f \in DOMAIN sample["round"] /\ sample'["round"][f] = sample["round"][f]
  PROVE  Covered(f)'
<1>1. Unseen(f) \in Nat /\ Unseen(f)' \in Nat
  BY UnseenType
<1>2. credit[f] \in Int /\ base[f] \in Int
  BY DEF RoundsTypeOK, Counts
<1>3. f \in DOMAIN sample["round"] => sample["round"][f] \in Int
  BY DEF RoundsTypeOK, Partial
<1> QED
  BY <1>1, <1>2, <1>3 DEF Covered

\* Trashed mails are not unread any more.
LEMMA TrashShrinks ==
  ASSUME RoundsTypeOK, NEW S, Trash(S), NEW f \in Folders
  PROVE  Unseen(f)' <= Unseen(f)
<1>1. (In(f) \cap unread)' \subseteq In(f) \cap unread
  BY DEF Trash, In, RoundsTypeOK
<1> QED
  BY <1>1, UnseenShrinks

\* A mail that becomes unread counts one.
LEMMA OneMore ==
  ASSUME RoundsTypeOK, NEW m \in Mails, NEW h \in Folders, NEW f \in Folders, Covered(f),
         place' = [place EXCEPT ![m] = h], unread' = unread \cup {m},
         place[m] \in {h, Absent},
         credit' = [credit EXCEPT ![h] = @ + 1],
         UNCHANGED <<base, sample>>
  PROVE  Covered(f)'
<1>1. CASE f = h
  <2>1. (In(f) \cap unread)' \subseteq (In(f) \cap unread) \cup {m}
    BY DEF In, RoundsTypeOK
  <2>2. IsFiniteSet({m}) /\ Cardinality({m}) = 1
    BY FS_Singleton
  <2>3. Unseen(f)' <= Unseen(f) + 1
    BY <2>1, <2>2, UnseenGrows
  <2>4. credit'[f] = credit[f] + 1
    BY <1>1 DEF RoundsTypeOK, Counts
  <2> QED
    BY <2>3, <2>4, StaysCovered
<1>2. CASE f # h
  <2>1. (In(f) \cap unread)' \subseteq In(f) \cap unread
    BY <1>2 DEF In, RoundsTypeOK
  <2>2. Unseen(f)' <= Unseen(f) /\ Unseen(f) \in Nat /\ Unseen(f)' \in Nat
    BY <2>1, UnseenShrinks, UnseenType
  <2>3. credit'[f] = credit[f] + 0 /\ Unseen(f)' <= Unseen(f) + 0
    BY <1>2, <2>2 DEF RoundsTypeOK, Counts
  <2> QED
    BY <2>3, StaysCovered
<1> QED
  BY <1>1, <1>2

\* Nothing that concerns the folder changes but its unread mails, which may get fewer.
LEMMA NothingNew ==
  ASSUME RoundsTypeOK, NEW f \in Folders, Covered(f),
         base'[f] = base[f], credit'[f] = credit[f],
         Unseen(f)' <= Unseen(f),
         f \in DOMAIN sample'["round"] =>
           f \in DOMAIN sample["round"] /\ sample'["round"][f] = sample["round"][f]
  PROVE  Covered(f)'
<1>1. Unseen(f) \in Nat /\ Unseen(f)' \in Nat /\ credit[f] \in Int
  BY UnseenType DEF RoundsTypeOK, Counts
<1>2. credit'[f] = credit[f] + 0 /\ Unseen(f)' <= Unseen(f) + 0
  BY <1>1
<1> QED
  BY <1>2, StaysCovered

LEMMA SameMails ==
  ASSUME UNCHANGED server, NEW f
  PROVE  Unseen(f)' <= Unseen(f)
<1>1. (In(f) \cap unread)' = In(f) \cap unread
  BY DEF server, In
<1> QED
  BY <1>1, UnseenShrinks

\* The round carries what it counted.
LEMMA CountsCovered ==
  ASSUME SideInv, ReadCounts, NEW f \in Side, f \notin miscounted'
  PROVE  Covered(f)'
<1>1. f \in Folders /\ Covered(f) /\ RoundsTypeOK
  BY DEF SideInv, SideCovered, Side
<1>2. UNCHANGED <<server, base, credit>>
  BY DEF ReadCounts, push
<1>3. Unseen(f)' = Unseen(f) /\ Unseen(f) \in Nat
  <2>1. (In(f) \cap unread)' = In(f) \cap unread
    BY <1>2 DEF server, In
  <2> QED
    BY <2>1, UnseenType DEF Unseen
<1>4. sample'["round"][f] = Unseen(f)
  <2>1. DOMAIN sample = Passes
    BY <1>1 DEF RoundsTypeOK
  <2>2. CASE sample' = [sample EXCEPT !["round"] = [g \in Folders |-> Unseen(g)]]
    BY <1>1, <2>1, <2>2 DEF Passes
  <2>3. ASSUME NEW failed \in Folders, miscounted' = miscounted \cup {failed},
               sample' = [sample EXCEPT !["round"] = [g \in Folders |-> IF g = failed THEN 0 ELSE Unseen(g)]]
        PROVE  sample'["round"][f] = Unseen(f)
    <3>1. f # failed
      BY <2>3
    <3>2. sample'["round"] = [g \in Folders |-> IF g = failed THEN 0 ELSE Unseen(g)]
      BY <2>1, <2>3 DEF Passes
    <3> QED
      BY <1>1, <3>1, <3>2
  <2> QED
    BY <2>2, <2>3 DEF ReadCounts
<1>5. credit[f] \in Int /\ base[f] \in Int
  BY <1>1 DEF RoundsTypeOK, Counts
<1>6. credit'[f] = credit[f] /\ base'[f] = base[f]
  BY <1>2
<1> QED
  BY <1>1, <1>3, <1>4, <1>5, <1>6 DEF Covered

\* The round's check pushes what its count exceeds the base by, and moves the base.
LEMMA CommitCovers ==
  ASSUME SideInv, NEW p \in Passes, Commit(p), NEW f \in Side
  PROVE  Covered(f)'
<1>1. f \in Folders /\ f # Inbox /\ Covered(f) /\ RoundsTypeOK
  BY DEF SideInv, SideCovered, Side
<1>2. Unseen(f)' <= Unseen(f)
  BY SameMails DEF Commit, CloseCheck, EndPush
<1>3. sample' = [sample EXCEPT ![p] = Nothing] /\ DOMAIN sample = Passes
  BY <1>1 DEF Commit, CloseCheck, EndPush, RoundsTypeOK
<1>4. f \notin DOMAIN Nothing
  BY DEF Nothing
<1>5. base'[f] = (IF f \in Changed(p) THEN sample[p][f] ELSE base[f]) /\ credit'[f] = credit[f] - Pushed(p, f)
  BY <1>1 DEF Commit
<1>6. f \in DOMAIN sample'["round"] =>
        f \in DOMAIN sample["round"] /\ sample'["round"][f] = sample["round"][f]
  BY <1>3, <1>4 DEF Passes
<1>7. credit[f] \in Int
  BY <1>1 DEF RoundsTypeOK, Counts
<1>8. CASE f \notin Changed(p)
  <2>1. base'[f] = base[f] /\ credit'[f] = credit[f]
    BY <1>5, <1>7, <1>8 DEF Pushed
  <2> QED
    BY <1>1, <1>2, <1>6, <2>1, NothingNew
<1>9. CASE f \in Changed(p)
  <2>1. p = "round"
    BY <1>1, <1>9 DEF Changed, SideInv, IdleSample, Passes
  <2>2. pc["round"] = "commit" /\ f \in DOMAIN loaded \ stale
    BY <1>9, <2>1 DEF Commit, CloseCheck, Changed
  <2>3. loaded[f] = base[f]
    BY <2>2 DEF SideInv, Fresh
  <2>4. f \in DOMAIN sample["round"] /\ sample["round"][f] \in Int /\ base[f] \in Int
    BY <1>1, <1>9, <2>1, PushTypes DEF Changed, RoundsTypeOK, Counts
  <2>5. base'[f] = sample["round"][f]
    BY <1>5, <1>9, <2>1
  <2>6. credit'[f] = credit[f] - (IF base[f] >= 0 /\ sample["round"][f] > base[f]
                                    THEN sample["round"][f] - base[f] ELSE 0)
    BY <1>5, <1>9, <2>1, <2>3 DEF Pushed
  <2>7. f \notin DOMAIN sample'["round"]
    BY <1>3, <1>4, <2>1 DEF Passes
  <2>8. Unseen(f) \in Nat /\ Unseen(f)' \in Nat
    BY UnseenType
  <2>9. /\ credit[f] >= 0 /\ credit[f] >= Unseen(f) - sample["round"][f]
        /\ base[f] >= 0 => /\ credit[f] >= Unseen(f) - base[f]
                           /\ credit[f] >= sample["round"][f] - base[f]
    BY <1>1, <2>4 DEF Covered
  <2>10. credit'[f] >= 0 /\ credit'[f] >= Unseen(f)' - sample["round"][f]
    BY <1>2, <1>7, <2>4, <2>6, <2>8, <2>9
  <2> QED
    BY <2>5, <2>7, <2>10 DEF Covered
<1> QED
  BY <1>8, <1>9

\* Suspicious mails that move make the spam folder's credit grow with them.
LEMMA InspectCovers ==
  ASSUME SideInv, NEW p \in Passes, Inspect(p), NEW f \in Side
  PROVE  Covered(f)'
<1> DEFINE moved == new[p] \cap Suspect \cap In(Inbox)
           X == moved \cap unread
<1>1. f \in Folders /\ f # Inbox /\ Covered(f) /\ RoundsTypeOK
  BY DEF SideInv, SideCovered, Side
<1>2. base' = base
  BY DEF Inspect, AfterInspect, push
<1>3. f \in DOMAIN sample'["round"] =>
        f \in DOMAIN sample["round"] /\ sample'["round"][f] = sample["round"][f]
  <2>1. PICK n : sample' = [sample EXCEPT ![p] = IF p = "round" THEN Nothing ELSE OfInbox(n)]
    BY DEF Inspect, AfterInspect
  <2>2. DOMAIN sample = Passes /\ f \notin DOMAIN Nothing
    BY <1>1 DEF RoundsTypeOK, Nothing
  <2> QED
    BY <2>1, <2>2 DEF Passes
<1>4. IsFiniteSet(X) /\ Cardinality(X) \in Nat
  <2>1. X \subseteq Mails /\ IsFiniteSet(Mails)
    BY RoundsAssumption DEF In
  <2> QED
    BY <2>1, FS_Subset, FS_CardinalityType
<1>5. place' = [m \in Mails |-> IF m \in moved THEN Spam ELSE place[m]] /\ unread' = unread
  BY DEF Inspect
<1>6. credit' = [credit EXCEPT ![Spam] = @ + Cardinality(X)]
  BY DEF Inspect
<1>7. CASE f = Spam
  <2>1. (In(f) \cap unread)' \subseteq (In(f) \cap unread) \cup X
    BY <1>5, <1>7 DEF In
  <2>2. Unseen(f)' <= Unseen(f) + Cardinality(X)
    BY <1>4, <2>1, UnseenGrows
  <2>3. credit'[f] = credit[f] + Cardinality(X)
    BY <1>1, <1>6, <1>7 DEF RoundsTypeOK, Counts
  <2> QED
    BY <1>1, <1>2, <1>3, <1>4, <2>2, <2>3, StaysCovered
<1>8. CASE f # Spam
  <2>1. (In(f) \cap unread)' \subseteq In(f) \cap unread
    BY <1>5, <1>8 DEF In
  <2>2. Unseen(f)' <= Unseen(f)
    BY <2>1, UnseenShrinks
  <2>3. credit'[f] = credit[f]
    BY <1>1, <1>6, <1>8 DEF RoundsTypeOK, Counts
  <2> QED
    BY <1>1, <1>2, <1>3, <2>2, <2>3, NothingNew
<1> QED
  BY <1>7, <1>8

LEMMA SideCoveredStep == SideInv /\ [RoundsNext]_roundsVars => SideCovered'
<1> SUFFICES ASSUME SideInv, [RoundsNext]_roundsVars, NEW f \in Side'
             PROVE  Covered(f)'
  BY DEF SideCovered
<1>1. f \in Side /\ f \notin miscounted'
  <2>1. miscounted \subseteq miscounted'
    BY DEF RoundsNext, Round, Idle, StepOf, Enter, ApplyRules, RulesFail, Sync, SyncFails, Inspect, InspectFails,
           AfterInspect, NoRows, Compare, Commit, Rollback, CloseCheck, EndPush, Sweep, ClaimCounts,
           ReadCounts, CountsFail, ClientFinish, CoolDown, SweepDue, Environment, Arrive, Read,
           MarkUnread, Remove, List, UserRules, ClientClaim, Crash, Watch, idleWorld, history, roundsVars
  <2> QED
    BY <2>1 DEF Side
<1>2. f \in Folders /\ f # Inbox /\ Covered(f) /\ RoundsTypeOK
  BY <1>1 DEF SideInv, SideCovered, Side
<1>3. DOMAIN sample = Passes /\ f \notin DOMAIN Nothing /\ \A n : f \notin DOMAIN OfInbox(n)
  BY <1>2 DEF RoundsTypeOK, Nothing, OfInbox
<1>4. ASSUME UNCHANGED <<base, credit>>, Unseen(f)' <= Unseen(f),
             \/ sample' = sample
             \/ \E p \in Passes : sample' = [sample EXCEPT ![p] = Nothing]
             \/ \E p \in Passes, n \in Int : sample' = [sample EXCEPT ![p] = OfInbox(n)]
      PROVE  Covered(f)'
  <2>1. f \in DOMAIN sample'["round"] =>
          f \in DOMAIN sample["round"] /\ sample'["round"][f] = sample["round"][f]
    BY <1>3, <1>4 DEF Passes
  <2>2. base'[f] = base[f] /\ credit'[f] = credit[f]
    BY <1>4
  <2> QED
    BY <1>2, <1>4, <2>1, <2>2, NothingNew
<1>5. UNCHANGED server => Unseen(f)' <= Unseen(f)
  BY SameMails
<1>6. ASSUME NEW p \in Passes, StepOf(p)
      PROVE  Covered(f)'
  <2>1. CASE Enter(p) \/ RulesFail(p) \/ SyncFails(p) \/ Compare(p)
    BY <1>4, <1>5, <2>1 DEF Enter, RulesFail, SyncFails, Compare, push, history
  <2>2. CASE ApplyRules(p)
    <3>1. Unseen(f)' <= Unseen(f)
      BY <1>2, <2>2, TrashShrinks DEF ApplyRules
    <3> QED
      BY <1>4, <2>2, <3>1 DEF ApplyRules, push, history
  <2>3. CASE Sync(p)
    <3>1. Unseen(Inbox) \in Nat
      BY UnseenType
    <3>2. \E n \in Int : sample' = [sample EXCEPT ![p] = OfInbox(n)]
      BY <2>3, <3>1 DEF Sync
    <3> QED
      BY <1>4, <1>5, <2>3, <3>2 DEF Sync, push
  <2>4. CASE Inspect(p)
    BY <1>1, <2>4, InspectCovers
  <2>5. CASE InspectFails(p)
    <3>1. sample[p][Inbox] \in Int
      BY <2>5 DEF SideInv, Synced, RoundsTypeOK, Partial, Passes, InspectFails, AfterInspect
    <3>2. \/ sample' = [sample EXCEPT ![p] = Nothing]
          \/ sample' = [sample EXCEPT ![p] = OfInbox(sample[p][Inbox])]
      BY <2>5 DEF InspectFails, AfterInspect
    <3> QED
      BY <1>4, <1>5, <2>5, <3>1, <3>2 DEF InspectFails, AfterInspect, push
  <2>6. CASE NoRows(p) \/ Rollback(p)
    BY <1>4, <1>5, <2>6 DEF NoRows, Rollback, CloseCheck, EndPush, push
  <2>7. CASE Commit(p)
    BY <1>1, <2>7, CommitCovers
  <2> QED
    BY <1>6, <2>1, <2>2, <2>3, <2>4, <2>5, <2>6, <2>7 DEF StepOf
<1>7. CASE Sweep
  <2>1. Unseen(f)' <= Unseen(f)
    BY <1>2, <1>7, TrashShrinks DEF Sweep
  <2> QED
    BY <1>4, <1>7, <2>1 DEF Sweep, push, history
<1>8. CASE ClaimCounts \/ CountsFail \/ ClientFinish \/ CoolDown \/ SweepDue \/ ClientClaim \/ List
  BY <1>4, <1>5, <1>8 DEF ClaimCounts, CountsFail, ClientFinish, CoolDown, SweepDue, ClientClaim, List,
                          server, push, pass, history, idleWorld
<1>9. CASE ReadCounts
  BY <1>1, <1>9, CountsCovered
<1>10. ASSUME NEW m \in Mails, Arrive(m)
       PROVE  Covered(f)'
  <2>1. Home[m] \in Folders
    BY RoundsAssumption
  <2> QED
    BY <1>2, <1>10, <2>1, OneMore DEF Arrive, idleWorld, push, pass
<1>11. ASSUME NEW m \in Mails, MarkUnread(m)
       PROVE  Covered(f)'
  <2>1. place[m] \in Folders /\ place' = [place EXCEPT ![m] = place[m]]
    BY <1>2, <1>11 DEF MarkUnread, Present, RoundsTypeOK
  <2> QED
    BY <1>2, <1>11, <2>1, OneMore DEF MarkUnread, idleWorld, push, pass
<1>12. ASSUME NEW m \in Mails, Read(m)
       PROVE  Covered(f)'
  <2>1. (In(f) \cap unread)' \subseteq In(f) \cap unread
    BY <1>12 DEF Read, In
  <2> QED
    BY <1>4, <1>12, <2>1, UnseenShrinks DEF Read, idleWorld, push, pass
<1>13. ASSUME NEW S, Trash(S), UNCHANGED <<credit, idleWorld>>
       PROVE  Covered(f)'
  <2>1. Unseen(f)' <= Unseen(f)
    BY <1>2, <1>13, TrashShrinks
  <2> QED
    BY <1>4, <1>13, <2>1 DEF idleWorld, push, pass
<1>14. ASSUME NEW m \in Mails, Remove(m)
       PROVE  Covered(f)'
  BY <1>13, <1>14 DEF Remove
<1>15. CASE UserRules
  BY <1>13, <1>15 DEF UserRules
<1>16. ASSUME NEW wanted \in SUBSET Folders, Watch(wanted)
       PROVE  Covered(f)'
  <2>1. UNCHANGED <<server, sample, credit>>
    BY <1>16 DEF Watch, pass, history
  <2>2. base'[f] = base[f] \/ base'[f] = -1
    BY <1>2, <1>16 DEF Watch
  <2>3. CASE base'[f] = base[f]
    BY <1>2, <1>5, <2>1, <2>3, NothingNew
  <2>4. CASE base'[f] = -1
    <3>1. Unseen(f)' <= Unseen(f) /\ Unseen(f) \in Nat /\ Unseen(f)' \in Nat
      BY <1>5, <2>1, UnseenType
    <3>2. credit[f] \in Int /\ (f \in DOMAIN sample["round"] => sample["round"][f] \in Int)
      BY <1>2 DEF RoundsTypeOK, Counts, Partial
    <3>3. credit'[f] = credit[f] /\ sample' = sample
      BY <2>1
    <3> QED
      BY <1>2, <2>4, <3>1, <3>2, <3>3 DEF Covered
  <2> QED
    BY <2>2, <2>3, <2>4
<1>17. CASE Crash
  <2>1. UNCHANGED <<server, base, credit>> /\ sample'["round"] = Nothing
    BY <1>17 DEF Crash, history, Passes
  <2>2. base'[f] = base[f] /\ credit'[f] = credit[f] /\ f \notin DOMAIN sample'["round"]
    BY <1>3, <2>1
  <2> QED
    BY <1>2, <1>5, <2>1, <2>2, NothingNew
<1>18. CASE UNCHANGED roundsVars
  BY <1>4, <1>5, <1>18 DEF roundsVars, push, pass, history
<1> QED
  BY <1>6, <1>7, <1>8, <1>9, <1>10, <1>11, <1>12, <1>14, <1>15, <1>16, <1>17, <1>18
     DEF RoundsNext, Round, Idle, Environment, Passes

\* In a folder other than the inbox, of which STATUS has never failed, no more pushes
\* are recorded than mails became unread: not when the owner changes the watched folders
\* during a check, not when the process dies between counts and check (_push_check).
THEOREM SidePushesOnce == RoundsSpec => []SidePushedOnce
<1>1. RoundsInit => SideInv
  <2>1. RoundsInit => IdleSample /\ Fresh
    BY DEF RoundsInit, IdleSample, Fresh, Nothing, Passes
  <2>2. ASSUME RoundsInit, NEW f \in Side
        PROVE  Covered(f)
    BY <2>2 DEF RoundsInit, Covered, Side, Nothing, Passes
  <2>3. RoundsInit => Exclusive
    BY DEF RoundsInit, Exclusive, Inside, Passes
  <2> QED
    BY <2>1, <2>2, <2>3, TypesInit DEF SideInv, SideCovered
<1>2. SideInv /\ [RoundsNext]_roundsVars => SideInv'
  <2>1. SideInv => RoundsTypeOK /\ Synced /\ Exclusive
    BY DEF SideInv
  <2> QED
    BY <2>1, TypesStep, ExclusiveStep, IdleSampleStep, FreshStep, SideCoveredStep DEF SideInv
<1>3. SideInv => SidePushedOnce
  BY DEF SideInv, SideCovered, Covered, Side, SidePushedOnce
<1> QED
  BY <1>1, <1>2, <1>3, PTL DEF RoundsSpec

-----------------------------------------------------------------------------
(* IdleWatch: the watchers and what wakes the passes                           *)

\* A thread's new state is a watcher again.
LEMMA WatcherTypes ==
  ASSUME WatchTypeOK, NEW t \in Threads, NEW p \in Phases
  PROVE  /\ Finished(t) \in Watchers
         /\ [Finished(t) EXCEPT !.unsupported = TRUE] \in Watchers
         /\ [thread[t] EXCEPT !.phase = p, !.signal = FALSE] \in Watchers
         /\ [thread[t] EXCEPT !.stop = TRUE] \in Watchers
         /\ [thread[t] EXCEPT !.missed = FALSE] \in Watchers
<1>1. thread[t] \in Watchers
  BY DEF WatchTypeOK
<1>2. [thread[t] EXCEPT !.phase = p] \in Watchers
  BY <1>1 DEF Watchers
<1>3. [thread[t] EXCEPT !.phase = p, !.signal = FALSE] \in Watchers
  BY <1>1 DEF Watchers
<1>4. Finished(t) \in Watchers
  BY <1>1 DEF Watchers, Finished, Dead, Phases
<1>5. [Finished(t) EXCEPT !.unsupported = TRUE] \in Watchers
  BY <1>4 DEF Watchers
<1>6. [thread[t] EXCEPT !.stop = TRUE] \in Watchers
  BY <1>1 DEF Watchers
<1>7. [thread[t] EXCEPT !.missed = FALSE] \in Watchers
  BY <1>1 DEF Watchers
<1> QED
  BY <1>3, <1>4, <1>5, <1>6, <1>7

\* Going on to another phase leaves well-typed threads.
LEMMA GoTypes ==
  ASSUME WatchTypeOK, NEW t \in Threads, NEW p \in Phases, Go(t, p)
  PROVE  thread' \in [Threads -> Watchers]
<1>1. (IF p = "dead" THEN Finished(t) ELSE [thread[t] EXCEPT !.phase = p, !.signal = FALSE]) \in Watchers
  BY WatcherTypes
<1> QED
  BY <1>1 DEF Go, WatchTypeOK

\* A pass that begins leaves well-typed threads.
LEMMA ServeTypes ==
  ASSUME WatchTypeOK, NEW a \in Accounts, Serve(a)
  PROVE  thread' \in [Threads -> Watchers] /\ owed' \subseteq Accounts
<1>1. ASSUME NEW t \in Threads
      PROVE  (IF thread[t].of = a THEN [thread[t] EXCEPT !.missed = FALSE] ELSE thread[t]) \in Watchers
  BY WatcherTypes DEF WatchTypeOK, Phases
<1> QED
  BY <1>1 DEF Serve, WatchTypeOK

\* A trigger leaves slots, pool entries and debts well typed.
LEMMA TriggerTypes ==
  ASSUME WatchTypeOK, NEW a \in Accounts, Trigger(a)
  PROVE  /\ slot' \in [Accounts -> Slots]
         /\ job' \in [Accounts -> Jobs]
         /\ owed' \subseteq Accounts
<1>1. slot[a] \in Slots
  BY DEF WatchTypeOK
<1>2. [slot[a] EXCEPT !.again = TRUE] \in Slots /\ [slot[a] EXCEPT !.running = TRUE] \in Slots
  BY <1>1 DEF Slots
<1>3. slot' \in [Accounts -> Slots]
  BY <1>2 DEF Trigger, WatchTypeOK
<1>4. job' \in [Accounts -> Jobs]
  BY DEF Trigger, WatchTypeOK, Jobs
<1> QED
  BY <1>3, <1>4 DEF Trigger, WatchTypeOK

\* The watchers a round leaves behind are well typed.
LEMMA ReconcileTypes ==
  ASSUME WatchTypeOK, Reconcile
  PROVE  /\ registered' \in [Accounts -> Threads \cup {NoThread}]
         /\ thread' \in [Threads -> Watchers]
         /\ listed' = <<>>
<1> DEFINE chosen == CHOOSE f \in Names : TRUE
           Which(t) == CHOOSE a \in Wanted : chosen[a] = t
           Begun(t) == Started(Which(t), listed[Which(t)].version)
<1>1. chosen \in [Wanted -> Unused]
  BY DEF Reconcile, Names
<1>2. Unused \subseteq Threads /\ Wanted \subseteq Accounts
  BY DEF Unused, Wanted
<1>3. listed \in [Accounts -> Rows]
  BY DEF WatchTypeOK, Reconcile
<1>4. Dead(Someone) \in Watchers
  BY WatchAssumption DEF Someone, Dead, Watchers, Phases, Versions
<1>5. ASSUME NEW t \in Threads, \E a \in Wanted : chosen[a] = t
      PROVE  Begun(t) \in Watchers
  <2>1. Which(t) \in Accounts
    BY <1>2, <1>5
  <2>2. listed[Which(t)].version \in Versions
    BY <1>3, <2>1 DEF Rows
  <2> HIDE DEF Which
  <2> QED
    BY <2>1, <2>2 DEF Started, Dead, Watchers, Phases
<1>6. /\ registered' = [a \in Accounts |-> IF a \in Wanted THEN chosen[a]
                                           ELSE IF Kept(a) THEN registered[a] ELSE NoThread]
      /\ thread' = [t \in Threads |->
                     IF \E a \in Wanted : chosen[a] = t THEN Begun(t)
                     ELSE IF t \in Unused THEN Dead(Someone)
                     ELSE IF t \in Stopped THEN [thread[t] EXCEPT !.stop = TRUE]
                     ELSE thread[t]]
      /\ listed' = <<>>
  BY DEF Reconcile
<1> HIDE DEF chosen, Begun
<1>7. registered' \in [Accounts -> Threads \cup {NoThread}]
  BY <1>1, <1>2, <1>6 DEF WatchTypeOK
<1>8. ASSUME NEW t \in Threads
      PROVE  (IF \E a \in Wanted : chosen[a] = t THEN Begun(t)
              ELSE IF t \in Unused THEN Dead(Someone)
              ELSE IF t \in Stopped THEN [thread[t] EXCEPT !.stop = TRUE]
              ELSE thread[t]) \in Watchers
  BY <1>4, <1>5, WatcherTypes DEF WatchTypeOK, Phases
<1> QED
  BY <1>6, <1>7, <1>8

\* The watchers start with well-typed state.
LEMMA TypeInit == WatchInit => WatchTypeOK
<1> SUFFICES ASSUME WatchInit PROVE WatchTypeOK
  OBVIOUS
<1>1. Dead(Someone) \in Watchers
  BY WatchAssumption DEF Someone, Dead, Watchers, Phases, Versions
<1> QED
  BY <1>1, WatchAssumption DEF WatchInit, WatchTypeOK, Rows, Versions, Jobs, Slots

\* No step of a watcher, a pass, a round or the world leaves the types.
LEMMA TypeStep == WatchTypeOK /\ [WatchNext]_watchVars => WatchTypeOK'
<1> USE WatchAssumption
<1> SUFFICES ASSUME WatchTypeOK, [WatchNext]_watchVars PROVE WatchTypeOK'
  OBVIOUS
<1>1. ASSUME NEW t \in Threads, Load(t) PROVE WatchTypeOK'
  <2>1. thread' \in [Threads -> Watchers]
    BY <1>1, GoTypes DEF Load, Phases
  <2> QED
    BY <1>1, <2>1 DEF Load, WatchTypeOK, passes, world
<1>2. ASSUME NEW t \in Threads, Open(t) PROVE WatchTypeOK'
  <2>1. thread' \in [Threads -> Watchers]
    BY <1>2, GoTypes DEF Open, Phases
  <2> QED
    BY <1>2, <2>1 DEF Open, WatchTypeOK, passes, world
<1>3. ASSUME NEW t \in Threads, NoIdle(t) PROVE WatchTypeOK'
  <2>1. [Finished(t) EXCEPT !.unsupported = TRUE] \in Watchers
    BY WatcherTypes DEF Phases
  <2>2. thread' \in [Threads -> Watchers]
    BY <1>3, <2>1 DEF NoIdle, WatchTypeOK
  <2> QED
    BY <1>3, <2>2 DEF NoIdle, WatchTypeOK, passes
<1>4. ASSUME NEW t \in Threads, Arm(t) PROVE WatchTypeOK'
  <2>1. thread[t] \in Watchers
    BY DEF WatchTypeOK
  <2>2. [thread[t] EXCEPT !.phase = "start", !.first = FALSE] \in Watchers
    BY <2>1 DEF Watchers, Phases
  <2>3. thread' \in [Threads -> Watchers] /\ thread[t].of \in Accounts
    BY <1>4, <2>1, <2>2 DEF Arm, WatchTypeOK, Watchers
  <2>4. /\ slot' \in [Accounts -> Slots]
        /\ job' \in [Accounts -> Jobs]
        /\ owed' \subseteq Accounts
    BY <1>4, <2>3, TriggerTypes DEF Arm, WatchTypeOK, passes
  <2> QED
    BY <1>4, <2>3, <2>4 DEF Arm, WatchTypeOK, world
<1>5. ASSUME NEW t \in Threads, StartIdle(t) PROVE WatchTypeOK'
  <2>1. thread' \in [Threads -> Watchers]
    BY <1>5, GoTypes DEF StartIdle, Phases
  <2> QED
    BY <1>5, <2>1 DEF StartIdle, WatchTypeOK, passes, world
<1>6. ASSUME NEW t \in Threads, Poll(t) PROVE WatchTypeOK'
  <2>1. thread[t] \in Watchers
    BY DEF WatchTypeOK
  <2>2. [thread[t] EXCEPT !.signal = FALSE] \in Watchers /\ thread[t].of \in Accounts
    BY <2>1 DEF Watchers
  <2>3. /\ slot' \in [Accounts -> Slots]
        /\ job' \in [Accounts -> Jobs]
        /\ owed' \subseteq Accounts
    BY <1>6, <2>2, TriggerTypes DEF Poll
  <2> QED
    BY <1>6, <2>2, <2>3 DEF Poll, WatchTypeOK, world
<1>7. ASSUME NEW t \in Threads, Leave(t) PROVE WatchTypeOK'
  <2>1. thread' \in [Threads -> Watchers]
    BY <1>7, GoTypes DEF Leave, Phases
  <2>2. thread[t].of \in Accounts
    BY DEF WatchTypeOK, Watchers
  <2>3. /\ slot' \in [Accounts -> Slots]
        /\ job' \in [Accounts -> Jobs]
        /\ owed' \subseteq Accounts
    BY <1>7, <2>2, TriggerTypes DEF Leave, WatchTypeOK, passes
  <2> QED
    BY <1>7, <2>1, <2>3 DEF Leave, WatchTypeOK, world
<1>8. ASSUME NEW t \in Threads, Resume(t) PROVE WatchTypeOK'
  <2>1. thread' \in [Threads -> Watchers]
    BY <1>8, GoTypes DEF Resume, Phases
  <2> QED
    BY <1>8, <2>1 DEF Resume, WatchTypeOK, passes, world
<1>9. ASSUME NEW t \in Threads, Renew(t) PROVE WatchTypeOK'
  <2>1. thread' \in [Threads -> Watchers]
    BY <1>9, GoTypes DEF Renew, Phases
  <2> QED
    BY <1>9, <2>1 DEF Renew, WatchTypeOK, passes, world
<1>10. ASSUME NEW t \in Threads, Break(t) PROVE WatchTypeOK'
  <2>1. thread' \in [Threads -> Watchers]
    BY <1>10, GoTypes DEF Break, Phases
  <2> QED
    BY <1>10, <2>1 DEF Break, WatchTypeOK, passes
<1>11. ASSUME NEW t \in Threads, RetryUnsupported(t) PROVE WatchTypeOK'
  <2>1. thread[t] \in Watchers
    BY DEF WatchTypeOK
  <2>2. [thread[t] EXCEPT !.unsupported = FALSE] \in Watchers
    BY <2>1 DEF Watchers
  <2> QED
    BY <1>11, <2>2 DEF RetryUnsupported, WatchTypeOK, passes, world
<1>12. ASSUME NEW a \in Accounts, BeginPass(a) PROVE WatchTypeOK'
  <2>1. thread' \in [Threads -> Watchers] /\ owed' \subseteq Accounts
    BY <1>12, ServeTypes DEF BeginPass
  <2> QED
    BY <1>12, <2>1 DEF BeginPass, WatchTypeOK, Jobs, world
<1>13. ASSUME NEW a \in Accounts, EndPass(a) PROVE WatchTypeOK'
  BY <1>13 DEF EndPass, WatchTypeOK, Jobs, watchers, world
<1>14. ASSUME NEW a \in Accounts, CheckAgain(a) PROVE WatchTypeOK'
  <2>1. thread' \in [Threads -> Watchers] /\ owed' \subseteq Accounts
    BY <1>14, ServeTypes DEF CheckAgain, WatchTypeOK
  <2>2. slot[a] \in Slots
    BY DEF WatchTypeOK
  <2>3. [slot[a] EXCEPT !.again = FALSE] \in Slots /\ [slot[a] EXCEPT !.running = FALSE] \in Slots
    BY <2>2 DEF Slots
  <2>4. slot' \in [Accounts -> Slots]
    BY <1>14, <2>3 DEF CheckAgain, WatchTypeOK
  <2>5. job' \in [Accounts -> Jobs]
    BY <1>14 DEF CheckAgain, WatchTypeOK, Jobs
  <2> QED
    BY <1>14, <2>1, <2>4, <2>5 DEF CheckAgain, WatchTypeOK, world
<1>15. ASSUME NEW a \in Accounts, Announce(a) PROVE WatchTypeOK'
  <2>1. ASSUME NEW t \in Threads
        PROVE  (IF thread[t].of # a THEN thread[t]
                ELSE [thread[t] EXCEPT !.signal = @ \/ thread[t].phase = "idle",
                                       !.missed = @ \/ Away(t)]) \in Watchers
    <3>1. thread[t] \in Watchers
      BY DEF WatchTypeOK
    <3>2. (thread[t].signal \/ thread[t].phase = "idle") \in BOOLEAN
      OBVIOUS
    <3>3. (thread[t].missed \/ Away(t)) \in BOOLEAN
      OBVIOUS
    <3> QED
      BY <3>1, <3>2, <3>3 DEF Watchers
  <2>2. thread' \in [Threads -> Watchers]
    BY <1>15, <2>1 DEF Announce
  <2>3. /\ mail < MaxMail /\ mail' = mail + 1
        /\ UNCHANGED <<registered, passes, listed, account, edits, failures>>
    BY <1>15 DEF Announce
  <2>4. mail' \in 0 .. MaxMail
    BY <2>3 DEF WatchTypeOK
  <2> QED
    BY <2>2, <2>3, <2>4 DEF WatchTypeOK, passes
<1>16. ASSUME NEW a \in Accounts, EditAccount(a) PROVE WatchTypeOK'
  <2>1. edits + 1 \in 0 .. MaxEdits
    BY <1>16 DEF EditAccount, Edit, WatchTypeOK
  <2>2. account[a] \in Rows
    BY DEF WatchTypeOK
  <2>3. [account[a] EXCEPT !.version = edits + 1] \in Rows
    BY <2>1, <2>2 DEF Rows, Versions
  <2>4. account' \in [Accounts -> Rows] /\ edits' \in 0 .. MaxEdits
    BY <1>16, <2>1, <2>3 DEF EditAccount, Edit, WatchTypeOK
  <2> QED
    BY <1>16, <2>4 DEF EditAccount, Edit, WatchTypeOK, watchers, passes
<1>17. ASSUME NEW a \in Accounts, SwitchOwner(a) PROVE WatchTypeOK'
  <2>1. account[a] \in Rows
    BY DEF WatchTypeOK
  <2>2. (~account[a].active) \in BOOLEAN
    OBVIOUS
  <2>3. [account[a] EXCEPT !.active = ~@] \in Rows
    BY <2>1, <2>2 DEF Rows
  <2>4. edits + 1 \in 0 .. MaxEdits
    BY <1>17 DEF SwitchOwner, Edit, WatchTypeOK
  <2> QED
    BY <1>17, <2>3, <2>4 DEF SwitchOwner, Edit, WatchTypeOK, watchers, passes
<1>18. CASE ListAccounts
  BY <1>18 DEF ListAccounts, WatchTypeOK, watchers, passes, world
<1>19. CASE Reconcile
  <2>1. /\ registered' \in [Accounts -> Threads \cup {NoThread}]
        /\ thread' \in [Threads -> Watchers]
        /\ listed' = <<>>
    BY <1>19, ReconcileTypes
  <2>2. UNCHANGED <<passes, world>>
    BY <1>19 DEF Reconcile
  <2> QED
    BY <2>1, <2>2 DEF WatchTypeOK, passes, world
<1>20. CASE UNCHANGED watchVars
  BY <1>20 DEF watchVars, WatchTypeOK
<1> QED
  BY <1>1, <1>2, <1>3, <1>4, <1>5, <1>6, <1>7, <1>8, <1>9, <1>10, <1>11, <1>12, <1>13, <1>14,
     <1>15, <1>16, <1>17, <1>18, <1>19, <1>20 DEF WatchNext, WatcherStep, PassStep

\* The pool entry and the slot of an account agree, and what is owed is queued or noted.
PassInv == SlotTruth /\ WakeKept

\* A step that leaves slots, pool entries and debts alone.
LEMMA PassQuiet == ASSUME PassInv, UNCHANGED passes PROVE PassInv'
BY DEF PassInv, SlotTruth, WakeKept, passes

\* A trigger queues a pass or is noted behind the one there is.
LEMMA PassTrigger ==
  ASSUME WatchTypeOK, PassInv, NEW a \in Accounts, Trigger(a) PROVE PassInv'
<1>1. slot[a] \in Slots
  BY DEF WatchTypeOK
<1>2. CASE slot[a].running
  <2>1. slot' = [slot EXCEPT ![a].again = TRUE] /\ job' = job /\ owed' = owed \cup {a}
    BY <1>2 DEF Trigger
  <2>2. ASSUME NEW b \in Accounts
        PROVE  slot'[b].running = slot[b].running /\ (slot[b].again => slot'[b].again) /\ slot'[a].again
    BY <1>1, <2>1 DEF WatchTypeOK, Slots
  <2> QED
    BY <2>1, <2>2 DEF PassInv, SlotTruth, WakeKept, WatchTypeOK
<1>3. CASE ~slot[a].running
  <2>1. /\ slot' = [slot EXCEPT ![a].running = TRUE]
        /\ job' = [job EXCEPT ![a] = "queued"]
        /\ owed' = owed \cup {a}
    BY <1>3 DEF Trigger
  <2>2. ASSUME NEW b \in Accounts
        PROVE  slot'[b].again = slot[b].again /\ (b # a => slot'[b] = slot[b]) /\ slot'[a].running
    BY <1>1, <2>1 DEF WatchTypeOK, Slots
  <2>3. job'[a] = "queued" /\ \A b \in Accounts \ {a} : job'[b] = job[b]
    BY <2>1 DEF WatchTypeOK
  <2>4. SlotTruth'
    BY <2>2, <2>3 DEF PassInv, SlotTruth
  <2>5. WakeKept'
    BY <2>1, <2>2, <2>3 DEF PassInv, WakeKept, WatchTypeOK
  <2> QED
    BY <2>4, <2>5 DEF PassInv
<1> QED
  BY <1>2, <1>3

\* No step loses a trigger or frees a slot that is in use.
LEMMA PassStepInv == WatchTypeOK /\ PassInv /\ [WatchNext]_watchVars => PassInv'
<1> SUFFICES ASSUME WatchTypeOK, PassInv, [WatchNext]_watchVars PROVE PassInv'
  OBVIOUS
<1>1. ASSUME NEW t \in Threads, Arm(t) \/ Poll(t) \/ Leave(t) PROVE PassInv'
  <2>1. thread[t].of \in Accounts
    BY DEF WatchTypeOK, Watchers
  <2>2. Trigger(thread[t].of) \/ UNCHANGED passes
    BY <1>1 DEF Arm, Poll, Leave
  <2> QED
    BY <2>1, <2>2, PassTrigger, PassQuiet
<1>2. ASSUME NEW t \in Threads,
             \/ Load(t) \/ Open(t) \/ StartIdle(t) \/ Resume(t)
             \/ Renew(t) \/ Break(t) \/ NoIdle(t) \/ RetryUnsupported(t)
      PROVE  PassInv'
  BY <1>2, PassQuiet DEF Load, Open, StartIdle, Resume, Renew, Break, NoIdle, RetryUnsupported
<1>3. ASSUME NEW a \in Accounts, Announce(a) \/ EditAccount(a) \/ SwitchOwner(a) PROVE PassInv'
  BY <1>3, PassQuiet DEF Announce, EditAccount, SwitchOwner, Edit
<1>4. CASE ListAccounts \/ Reconcile
  BY <1>4, PassQuiet DEF ListAccounts, Reconcile
<1>5. CASE UNCHANGED watchVars
  BY <1>5, PassQuiet DEF watchVars, passes
<1>6. ASSUME NEW a \in Accounts, BeginPass(a) PROVE PassInv'
  BY <1>6 DEF BeginPass, Serve, PassInv, SlotTruth, WakeKept, WatchTypeOK
<1>7. ASSUME NEW a \in Accounts, EndPass(a) PROVE PassInv'
  BY <1>7 DEF EndPass, PassInv, SlotTruth, WakeKept, WatchTypeOK
<1>8. ASSUME NEW a \in Accounts, CheckAgain(a) PROVE PassInv'
  <2>1. slot[a] \in Slots /\ job[a] = "checking"
    BY <1>8 DEF WatchTypeOK, CheckAgain
  <2>2. CASE slot[a].again
    <3>1. /\ slot' = [slot EXCEPT ![a].again = FALSE]
          /\ job' = [job EXCEPT ![a] = "running"]
          /\ owed' = owed \ {a}
      BY <1>8, <2>2 DEF CheckAgain, Serve
    <3>2. /\ slot'[a].running = slot[a].running
          /\ \A b \in Accounts \ {a} : slot'[b] = slot[b] /\ job'[b] = job[b]
          /\ job'[a] = "running"
      BY <2>1, <3>1 DEF WatchTypeOK, Slots
    <3> QED
      BY <2>1, <3>1, <3>2 DEF PassInv, SlotTruth, WakeKept, WatchTypeOK
  <2>3. CASE ~slot[a].again
    <3>1. /\ slot' = [slot EXCEPT ![a].running = FALSE]
          /\ job' = [job EXCEPT ![a] = "none"]
          /\ owed' = owed
      BY <1>8, <2>3 DEF CheckAgain
    <3>2. /\ ~slot'[a].running /\ job'[a] = "none"
          /\ \A b \in Accounts \ {a} : slot'[b] = slot[b] /\ job'[b] = job[b]
      BY <2>1, <3>1 DEF WatchTypeOK, Slots
    <3>3. a \notin owed
      BY <2>1, <2>3 DEF PassInv, WakeKept
    <3> QED
      BY <3>1, <3>2, <3>3 DEF PassInv, SlotTruth, WakeKept, WatchTypeOK
  <2> QED
    BY <2>2, <2>3
<1> QED
  BY <1>1, <1>2, <1>3, <1>4, <1>5, <1>6, <1>7, <1>8 DEF WatchNext, WatcherStep, PassStep

\* A watcher that has not been told to stop is the registered one of its account.
OwnThread ==
  /\ \A a \in Accounts : registered[a] # NoThread => thread[registered[a]].of = a
  /\ \A t \in Threads : Live(t) /\ ~thread[t].stop => registered[thread[t].of] = t

\* A step that neither registers nor starts a watcher.
LEMMA OwnQuiet ==
  ASSUME WatchTypeOK, OwnThread, UNCHANGED registered,
         \A t \in Threads : /\ thread'[t].of = thread[t].of
                            /\ Live(t)' /\ ~thread'[t].stop => Live(t) /\ ~thread[t].stop
  PROVE  OwnThread'
BY DEF OwnThread, WatchTypeOK

\* A watcher that goes on to another phase was there before and serves the same account.
LEMMA OwnGo ==
  ASSUME WatchTypeOK, OwnThread, UNCHANGED registered, NEW t \in Threads, NEW p \in Phases,
         Live(t), Go(t, p)
  PROVE  OwnThread'
<1>1. thread[t] \in Watchers
  BY DEF WatchTypeOK
<1>2. ASSUME NEW u \in Threads, u # t PROVE thread'[u] = thread[u]
  BY <1>2 DEF Go, WatchTypeOK
<1>3. thread'[t] = IF p = "dead" THEN Finished(t) ELSE [thread[t] EXCEPT !.phase = p, !.signal = FALSE]
  BY DEF Go, WatchTypeOK
<1>4. thread'[t].of = thread[t].of /\ (Live(t)' => thread'[t].stop = thread[t].stop)
  BY <1>1, <1>3 DEF Finished, Dead, Live, Watchers
<1> QED
  BY <1>2, <1>4, OwnQuiet DEF Live

\* The round registers every watcher it starts and stops every one it forgets.
LEMMA OwnReconcile == ASSUME WatchTypeOK, OwnThread, Reconcile PROVE OwnThread'
<1> DEFINE chosen == CHOOSE f \in Names : TRUE
           Which(t) == CHOOSE a \in Wanted : chosen[a] = t
           Begun(t) == Started(Which(t), listed[Which(t)].version)
<1>1. chosen \in [Wanted -> Unused] /\ \A a, b \in Wanted : chosen[a] = chosen[b] => a = b
  BY DEF Reconcile, Names
<1>2. /\ registered' = [a \in Accounts |-> IF a \in Wanted THEN chosen[a]
                                           ELSE IF Kept(a) THEN registered[a] ELSE NoThread]
      /\ thread' = [t \in Threads |->
                     IF \E a \in Wanted : chosen[a] = t THEN Begun(t)
                     ELSE IF t \in Unused THEN Dead(Someone)
                     ELSE IF t \in Stopped THEN [thread[t] EXCEPT !.stop = TRUE]
                     ELSE thread[t]]
  BY DEF Reconcile
<1>3. Wanted \subseteq Accounts /\ Unused \subseteq Threads /\ \A a \in Wanted : ~Kept(a)
  BY DEF Wanted, Unused
<1>4. ASSUME NEW a \in Wanted
      PROVE  Which(chosen[a]) = a /\ chosen[a] \in Threads /\ registered'[a] = chosen[a]
  BY <1>1, <1>2, <1>3
<1>5. ASSUME NEW a \in Wanted
      PROVE  thread'[chosen[a]] = Started(a, listed[a].version)
  <2>1. thread'[chosen[a]] = Begun(chosen[a])
    BY <1>2, <1>4
  <2> QED
    BY <1>4, <2>1
<1> HIDE DEF chosen, Which, Begun
<1>6. ASSUME NEW a \in Accounts, registered'[a] # NoThread
      PROVE  thread'[registered'[a]].of = a
  <2>1. CASE a \in Wanted
    <3>1. Started(a, listed[a].version).of = a
      BY DEF Started, Dead
    <3> QED
      BY <1>4, <1>5, <2>1, <3>1
  <2>2. CASE a \notin Wanted
    <3>1. Kept(a) /\ registered'[a] = registered[a]
      BY <1>2, <1>6, <2>2
    <3>2. registered[a] \in Threads /\ registered[a] \notin Unused /\ thread[registered[a]].of = a
      BY <1>6, <3>1 DEF WatchTypeOK, Unused, OwnThread
    <3>3. ~\E b \in Wanted : chosen[b] = registered[a]
      BY <1>1, <3>2
    <3>4. thread[registered[a]] \in Watchers
      BY <3>2 DEF WatchTypeOK
    <3>5. thread'[registered[a]] \in {thread[registered[a]], [thread[registered[a]] EXCEPT !.stop = TRUE]}
      BY <1>2, <3>2, <3>3
    <3> QED
      BY <3>1, <3>2, <3>4, <3>5 DEF Watchers
  <2> QED
    BY <2>1, <2>2
<1>7. ASSUME NEW t \in Threads, thread'[t].phase # "dead", ~thread'[t].stop
      PROVE  registered'[thread'[t].of] = t
  <2>1. CASE \E a \in Wanted : chosen[a] = t
    <3>1. PICK a \in Wanted : chosen[a] = t
      BY <2>1
    <3> QED
      BY <1>4, <1>5, <3>1 DEF Started, Dead
  <2>2. CASE ~\E a \in Wanted : chosen[a] = t
    <3>1. t \notin Unused
      BY <1>2, <1>7, <2>2 DEF Dead
    <3>2. thread[t] \in Watchers
      BY DEF WatchTypeOK
    <3>3. t \notin Stopped
      BY <1>2, <1>7, <2>2, <3>1, <3>2 DEF Watchers
    <3>4. thread'[t] = thread[t]
      BY <1>2, <2>2, <3>1, <3>3
    <3>5. registered[thread[t].of] = t /\ thread[t].of \in Accounts
      BY <1>7, <3>2, <3>4 DEF OwnThread, Live, Watchers
    <3>6. t # NoThread
      BY WatchAssumption
    <3>7. Kept(thread[t].of)
      BY <1>7, <3>3, <3>4, <3>5, <3>6 DEF Kept, Stopped, Ended, Registered
    <3> QED
      BY <1>2, <1>3, <3>4, <3>5, <3>7
  <2> QED
    BY <2>1, <2>2
<1> QED
  BY <1>6, <1>7 DEF OwnThread, Live

\* No step leaves a second watcher of an account that nobody will stop.
LEMMA OwnStep == WatchTypeOK /\ OwnThread /\ [WatchNext]_watchVars => OwnThread'
<1> SUFFICES ASSUME WatchTypeOK, OwnThread, [WatchNext]_watchVars PROVE OwnThread'
  OBVIOUS
<1> USE DEF Live
<1>1. ASSUME NEW t \in Threads,
             Load(t) \/ Open(t) \/ StartIdle(t) \/ Leave(t) \/ Resume(t) \/ Renew(t) \/ Break(t)
      PROVE  OwnThread'
  <2>1. Live(t) /\ UNCHANGED registered
    BY <1>1 DEF Load, Open, StartIdle, Leave, Resume, Renew, Break, Connected
  <2>2. \E p \in Phases : Go(t, p)
    BY <1>1 DEF Load, Open, StartIdle, Leave, Resume, Renew, Break, Phases
  <2> QED
    BY <2>1, <2>2, OwnGo
<1>2. ASSUME NEW t \in Threads, NEW w \in {Finished(t), [Finished(t) EXCEPT !.unsupported = TRUE],
                 [thread[t] EXCEPT !.phase = "start", !.first = FALSE],
                 [thread[t] EXCEPT !.signal = FALSE], [thread[t] EXCEPT !.unsupported = FALSE]},
             thread' = [thread EXCEPT ![t] = w], UNCHANGED registered,
             \/ Live(t)
             \/ w = [Finished(t) EXCEPT !.unsupported = TRUE]
             \/ w = [thread[t] EXCEPT !.unsupported = FALSE]
      PROVE  OwnThread'
  <2>1. thread[t] \in Watchers
    BY DEF WatchTypeOK
  <2>2. w.of = thread[t].of /\ (w.phase # "dead" /\ ~w.stop => Live(t) /\ ~thread[t].stop)
    BY <1>2, <2>1 DEF Finished, Dead, Watchers
  <2>3. ASSUME NEW u \in Threads PROVE thread'[u] = IF u = t THEN w ELSE thread[u]
    BY <1>2 DEF WatchTypeOK
  <2> QED
    BY <1>2, <2>2, <2>3, OwnQuiet
<1>3. ASSUME NEW t \in Threads, NoIdle(t) \/ Arm(t) \/ Poll(t) \/ RetryUnsupported(t) PROVE OwnThread'
  <2>1. CASE NoIdle(t)
    BY <1>2, <2>1 DEF NoIdle
  <2>2. CASE Arm(t)
    BY <1>2, <2>2 DEF Arm
  <2>3. CASE Poll(t)
    BY <1>2, <2>3 DEF Poll
  <2>4. CASE RetryUnsupported(t)
    BY <1>2, <2>4 DEF RetryUnsupported
  <2> QED
    BY <1>3, <2>1, <2>2, <2>3, <2>4
<1>4. ASSUME NEW a \in Accounts, BeginPass(a) \/ CheckAgain(a) \/ Announce(a) PROVE OwnThread'
  <2>1. UNCHANGED registered
    BY <1>4 DEF BeginPass, CheckAgain, Announce
  <2>2. ASSUME NEW t \in Threads
        PROVE  /\ thread'[t].of = thread[t].of
               /\ thread'[t].phase = thread[t].phase
               /\ thread'[t].stop = thread[t].stop
    <3>1. thread[t] \in Watchers
      BY DEF WatchTypeOK
    <3>2. \/ thread'[t] = thread[t]
          \/ thread'[t] = [thread[t] EXCEPT !.missed = FALSE]
          \/ thread'[t] = [thread[t] EXCEPT !.signal = @ \/ thread[t].phase = "idle",
                                            !.missed = @ \/ Away(t)]
      BY <1>4 DEF BeginPass, CheckAgain, Announce, Serve
    <3> QED
      BY <3>1, <3>2 DEF Watchers
  <2> QED
    BY <2>1, <2>2, OwnQuiet
<1>5. ASSUME NEW a \in Accounts, EndPass(a) \/ EditAccount(a) \/ SwitchOwner(a) PROVE OwnThread'
  BY <1>5 DEF EndPass, EditAccount, SwitchOwner, Edit, watchers, OwnThread
<1>6. CASE ListAccounts \/ UNCHANGED watchVars
  BY <1>6 DEF ListAccounts, watchVars, watchers, OwnThread
<1>7. CASE Reconcile
  BY <1>7, OwnReconcile
<1> QED
  BY <1>1, <1>3, <1>4, <1>5, <1>6, <1>7 DEF WatchNext, WatcherStep, PassStep

\* Every reachable state has the types of the module.
THEOREM WatchTypeCorrect == WatchSpec => []WatchTypeOK
<1> QED
  BY TypeInit, TypeStep, PTL DEF WatchSpec

\* The coalescing slot is true to the pool and no trigger is lost, for any number of
\* accounts, triggers and workers: SlotTruth and WakeKept together are inductive.
THEOREM NoWakeLost == WatchSpec => [](SlotTruth /\ WakeKept)
<1>1. WatchInit => PassInv
  BY DEF WatchInit, PassInv, SlotTruth, WakeKept
<1>2. WatchSpec => []PassInv
  BY <1>1, PassStepInv, WatchTypeCorrect, PTL DEF WatchSpec
<1> QED
  BY <1>2, PTL DEF PassInv

\* A round may replace watchers any number of times while old ones still hold their
\* connection: at most one live watcher of an account will go on.
THEOREM OneListenerHolds == WatchSpec => []OneListener
<1>1. WatchInit => OwnThread
  BY DEF WatchInit, OwnThread, Live, Dead
<1>2. OwnThread => OneListener
  BY DEF OwnThread, OneListener
<1> QED
  BY <1>1, <1>2, OwnStep, WatchTypeCorrect, PTL DEF WatchSpec

\* Initially nothing is owed and no pass runs, as Wake asks.
LEMMA WakeInit == WatchInit => W!Init
BY DEF WatchInit, W!Init, InPool

\* Every step is a step of Wake or leaves what Wake sees unchanged.
LEMMA WakeStep == WatchTypeOK /\ PassInv /\ [WatchNext]_watchVars => [W!Next]_(W!vars)
<1> SUFFICES ASSUME WatchTypeOK, PassInv, [WatchNext]_watchVars PROVE [W!Next]_(W!vars)
  OBVIOUS
<1> USE DEF W!vars, InPool
<1>1. ASSUME NEW a \in Accounts, Trigger(a) PROVE W!Notify(a)
  <2>1. ~slot[a].running => job[a] = "none"
    BY DEF PassInv, SlotTruth
  <2> QED
    BY <1>1, <2>1 DEF Trigger, W!Notify, WatchTypeOK
<1>2. ASSUME NEW t \in Threads, Arm(t) \/ Poll(t) \/ Leave(t) PROVE [W!Next]_(W!vars)
  <2>1. thread[t].of \in Accounts
    BY DEF WatchTypeOK, Watchers
  <2>2. Trigger(thread[t].of) \/ UNCHANGED passes
    BY <1>2 DEF Arm, Poll, Leave
  <2> QED
    BY <1>1, <2>1, <2>2 DEF W!Next, passes
<1>3. ASSUME NEW t \in Threads,
             \/ Load(t) \/ Open(t) \/ StartIdle(t) \/ Resume(t)
             \/ Renew(t) \/ Break(t) \/ NoIdle(t) \/ RetryUnsupported(t)
      PROVE  UNCHANGED W!vars
  BY <1>3 DEF Load, Open, StartIdle, Resume, Renew, Break, NoIdle, RetryUnsupported, passes
<1>4. ASSUME NEW a \in Accounts, Announce(a) \/ EditAccount(a) \/ SwitchOwner(a) PROVE UNCHANGED W!vars
  BY <1>4 DEF Announce, EditAccount, SwitchOwner, Edit, passes
<1>5. CASE ListAccounts \/ Reconcile \/ UNCHANGED watchVars
  BY <1>5 DEF ListAccounts, Reconcile, watchVars, passes
<1>6. ASSUME NEW a \in Accounts, BeginPass(a) PROVE W!Begin(a)
  BY <1>6 DEF BeginPass, Serve, W!Begin, WatchTypeOK
<1>7. ASSUME NEW a \in Accounts, EndPass(a) PROVE UNCHANGED W!vars
  BY <1>7 DEF EndPass, WatchTypeOK
<1>8. ASSUME NEW a \in Accounts, CheckAgain(a) PROVE W!Again(a) \/ W!End(a)
  BY <1>8 DEF CheckAgain, Serve, W!Again, W!End, WatchTypeOK
<1> QED
  BY <1>2, <1>3, <1>4, <1>5, <1>6, <1>7, <1>8 DEF WatchNext, WatcherStep, PassStep, W!Next

\* Triggers, queue, handler and recheck implement Wake.
THEOREM ImplementsWake == WatchSpec => W!Spec
<1>1. WatchInit => PassInv
  BY DEF WatchInit, PassInv, SlotTruth, WakeKept
<1>2. WatchSpec => [](WatchTypeOK /\ PassInv)
  BY <1>1, PassStepInv, WatchTypeCorrect, PTL DEF WatchSpec
<1> QED
  BY <1>2, WakeInit, WakeStep, PTL DEF WatchSpec, W!Spec
=============================================================================
