--------------------------- MODULE MailRead_proofs ---------------------------
(* The reading column of the web client for any folders, mails and numbers of  *)
(* requests: what is in the column was clicked last, nothing in it is being    *)
(* deleted, and no card waits for a request that is gone.                      *)
EXTENDS MailRead, FiniteSetTheorems, TLAPS

-----------------------------------------------------------------------------
(* The newest of some mails *)

\* Together with one more number there still is a largest one.
LEMMA OneMore ==
  ASSUME NEW s \in SUBSET Nat, NEW x \in s,
         s \ {x} = {} \/ \E y \in s \ {x} : \A z \in s \ {x} : y >= z
  PROVE  \E y \in s : \A z \in s : y >= z
<1>1. CASE s \ {x} = {}
  <2>1. \A z \in s : x >= z
    <3> TAKE z \in s
    <3>1. z = x
      BY <1>1
    <3> QED
      BY <3>1
  <2> QED
    BY <2>1
<1>2. ASSUME NEW y \in s \ {x}, \A z \in s \ {x} : y >= z
      PROVE  \E w \in s : \A z \in s : w >= z
  <2>1. CASE x >= y
    <3>1. \A z \in s : x >= z
      <4> TAKE z \in s
      <4>1. CASE z = x
        BY <4>1
      <4>2. CASE z # x
        <5>1. y >= z /\ y \in Nat /\ z \in Nat /\ x \in Nat
          BY <1>2, <4>2
        <5> QED
          BY <2>1, <5>1
      <4> QED
        BY <4>1, <4>2
    <3> QED
      BY <3>1
  <2>2. CASE y >= x
    <3>1. \A z \in s : y >= z
      BY <1>2, <2>2
    <3> QED
      BY <3>1
  <2> QED
    BY <2>1, <2>2
<1> QED
  BY <1>1, <1>2

\* A finite set of mails has a largest number: a smallest set without one would
\* lose it together with one of its elements.
LEMMA LatestIsOne ==
  ASSUME NEW ms \in SUBSET Mails, ms # {}
  PROVE  Latest(ms) \in ms
<1> DEFINE HasLargest(s) == \E x \in s : \A y \in s : x >= y
           Bad == {s \in FiniteSubsetsOf(Mails) : s # {} /\ ~HasLargest(s)}
<1>1. Bad = {}
  <2> SUFFICES ASSUME Bad # {} PROVE FALSE
    OBVIOUS
  <2>1. PICK s \in Bad : \A t \in Bad : ~(<<t, s>> \in StrictSubsetOrdering(Mails))
    <3>1. Bad \subseteq FiniteSubsetsOf(Mails)
      OBVIOUS
    <3> HIDE DEF Bad
    <3> QED
      BY <3>1, FS_StrictSubsetOrderingWellFounded, WFMin
  <2>2. PICK x \in s : TRUE
    OBVIOUS
  <2>3. s \ {x} \in FiniteSubsetsOf(Mails) /\ s \in SUBSET Nat
    BY FS_RemoveElement, ReadAssumption DEF FiniteSubsetsOf
  <2>4. <<s \ {x}, s>> \in StrictSubsetOrdering(Mails)
    BY <2>2, <2>3 DEF StrictSubsetOrdering, FiniteSubsetsOf
  <2>5. s \ {x} = {} \/ HasLargest(s \ {x})
    BY <2>1, <2>3, <2>4
  <2>6. HasLargest(s)
    BY <2>2, <2>3, <2>5, OneMore
  <2> QED
    BY <2>1, <2>6
<1>2. ms \in FiniteSubsetsOf(Mails)
  BY FS_Subset, ReadAssumption DEF FiniteSubsetsOf
<1>3. \E x \in ms : \A y \in ms : x >= y
  BY <1>1, <1>2
<1> QED
  BY <1>3 DEF Latest, Max

\* Of a number and one, the larger is a number above zero.
LEMMA AtLeastOne ==
  ASSUME NEW n \in Nat
  PROVE  Max({n, 1}) \in Nat \ {0}
<1>1. \E x \in {n, 1} : \A y \in {n, 1} : x >= y
  OBVIOUS
<1>2. Max({n, 1}) \in {n, 1} /\ \A y \in {n, 1} : Max({n, 1}) >= y
  BY <1>1 DEF Max
<1> QED
  BY <1>2

-----------------------------------------------------------------------------
(* Requests and what rendering adds to them *)

Ops == {"read", "detail", "augment", "see", "unsee", "move", "delete"}
Conversations == (SUBSET Mails) \ {{}}

\* A request that is in order when the user last asked to read mail who: only
\* that one may still be put into the column; the mails a conversation was loaded
\* for, and the reader it was shown by, are known.
CallOK(c, who) ==
    /\ c \in Requests
    /\ c.op = "augment" => c.ms \in Conversations
    /\ c.op = "read" /\ c.newest => c.mail = who
    /\ c.op = "delete" /\ c.ms # None => c.key \in Mails

CallsOK(cs, who) == \A c \in cs : CallOK(c, who)

LEMMA CallTyped ==
  ASSUME NEW op \in Ops, NEW m \in Mails, NEW at \in Folders
  PROVE  /\ Call(op, m, at) \in Requests
         /\ Call(op, m, at).op = op /\ Call(op, m, at).mail = m /\ Call(op, m, at).ms = {}
BY DEF Call, Requests, Ops

\* Marking requests as outdated, orphaned or overtaken keeps them in order, and
\* nothing that was overtaken can be put into the column.
LEMMA MarksKeep ==
  ASSUME NEW cs, NEW who, CallsOK(cs, who)
  PROVE  /\ CallsOK(Outdated(cs), who)
         /\ CallsOK(Orphaned(cs), who)
         /\ \A other : CallsOK(Overtaken(cs), other)
<1>1. ASSUME NEW c \in cs
      PROVE  /\ CallOK([c EXCEPT !.current = FALSE], who)
             /\ c.op = "detail" => CallOK([c EXCEPT !.key = None], who)
             /\ \A other : c.op = "read" => CallOK([c EXCEPT !.newest = FALSE], other)
             /\ \A other : c.op # "read" => CallOK(c, other)
  BY DEF CallsOK, CallOK, Requests
<1>2. CallsOK(Outdated(cs), who)
  BY <1>1 DEF CallsOK, Outdated
<1>3. CallsOK(Orphaned(cs), who)
  <2>1. ASSUME NEW c \in cs
        PROVE  CallOK(IF c.op = "detail" THEN [c EXCEPT !.key = None] ELSE c, who)
    BY <1>1 DEF CallsOK
  <2> QED
    BY <2>1 DEF CallsOK, Orphaned
<1>4. ASSUME NEW other PROVE CallsOK(Overtaken(cs), other)
  <2>1. ASSUME NEW c \in cs
        PROVE  CallOK(IF c.op = "read" THEN [c EXCEPT !.newest = FALSE] ELSE c, other)
    BY <1>1
  <2> QED
    BY <2>1 DEF CallsOK, Overtaken
<1> QED
  BY <1>2, <1>3, <1>4

\* The request for the body of one card.
DetailOf(m, key, fresh) == [Call("detail", m, folder) EXCEPT !.key = key, !.was = fresh \cap {m}]

LEMMA DetailTyped ==
  ASSUME NEW m \in Mails, NEW key \in Mails \cup {None}, NEW fresh, folder \in Folders
  PROVE  LET d == DetailOf(m, key, fresh)
         IN  d \in Requests /\ d.op = "detail" /\ d.mail = m /\ d.key = key
<1>1. Call("detail", m, folder) \in Requests /\ Call("detail", m, folder).op = "detail"
      /\ Call("detail", m, folder).mail = m
  BY CallTyped DEF Ops
<1>2. fresh \cap {m} \in SUBSET Mails
  OBVIOUS
<1> QED
  BY <1>1, <1>2 DEF Requests, DetailOf

LEMMA DetailsOK ==
  ASSUME NEW ms \in SUBSET Mails, NEW key \in Mails \cup {None}, NEW fresh, folder \in Folders
  PROVE  /\ \A who : CallsOK(Details(ms, key, fresh), who)
         /\ \A m \in ms : \E d \in Details(ms, key, fresh) : d.op = "detail" /\ d.mail = m /\ d.key = key
<1>1. Details(ms, key, fresh) = {DetailOf(m, key, fresh) : m \in ms}
  BY DEF Details, DetailOf
<1>2. ASSUME NEW m \in ms
      PROVE  LET d == DetailOf(m, key, fresh)
             IN  d \in Requests /\ d.op = "detail" /\ d.mail = m /\ d.key = key
  BY DetailTyped
<1> QED
  BY <1>1, <1>2 DEF CallsOK, CallOK

\* What becomes of the reader and of the requests when the column is rendered.
LEMMA RenderedAs ==
  ASSUME NEW key, NEW fresh, NEW cs, Rendered(key, fresh, cs)
  PROVE  \/ thread' = None /\ reader' = NoReader /\ calls' = Orphaned(cs)
         \/ thread' # None /\ thread # None /\ reader.key = key /\ reader' = reader /\ calls' = cs
         \/ /\ thread' # None /\ (thread = None \/ reader.key # key)
            /\ reader' = [Mount(thread', fresh \cap thread') EXCEPT !.key = key]
            /\ calls' = Orphaned(cs) \cup Details(reader'.pending, key, fresh)
BY DEF Rendered

LEMMA MountTyped ==
  ASSUME NEW ms \in Conversations, NEW fresh \in SUBSET Mails, NEW key \in Mails \cup {None}
  PROVE  /\ [Mount(ms, fresh) EXCEPT !.key = key] \in Readers
         /\ [Mount(ms, fresh) EXCEPT !.key = key].key = key
<1>1. Latest(ms) \in Mails
  BY LatestIsOne DEF Conversations
<1>2. {Latest(ms)} \cup fresh \in SUBSET Mails
  BY <1>1
<1> QED
  BY <1>1, <1>2 DEF Mount, Readers

LEMMA NoReaderTyped == NoReader \in Readers
BY DEF NoReader, Readers

\* Rendering leaves requests in order, and asks for each body it waits for.
Waits(r, cs) ==
    \A m \in r.pending : \E c \in cs : c.op = "detail" /\ c.mail = m /\ c.key = r.key

LEMMA DetailsAsked ==
  ASSUME NEW r, NEW fresh, NEW key \in Mails \cup {None}, r.pending \in SUBSET Mails, r.key = key,
         folder \in Folders
  PROVE  Waits(r, Details(r.pending, key, fresh))
<1> DEFINE ms == r.pending
<1>1. ms \in SUBSET Mails
  OBVIOUS
<1> HIDE DEF ms
<1>2. \A m \in ms : \E d \in Details(ms, key, fresh) : d.op = "detail" /\ d.mail = m /\ d.key = key
  BY <1>1, DetailsOK
<1> QED
  BY <1>2 DEF ms, Waits

LEMMA RenderedOK ==
  ASSUME NEW key \in Mails \cup {None}, NEW fresh \in SUBSET Mails, NEW cs, NEW who,
         CallsOK(cs, who), Waits(reader, cs), folder \in Folders, reader \in Readers,
         thread' \in Conversations \cup {None}, Rendered(key, fresh, cs)
  PROVE  /\ reader' \in Readers /\ CallsOK(calls', who) /\ Waits(reader', calls')
         /\ thread' = None => reader' = NoReader
         /\ thread' # None => reader'.key = key
<1>1. CASE thread' = None /\ reader' = NoReader /\ calls' = Orphaned(cs)
  BY <1>1, NoReaderTyped, MarksKeep DEF Waits, NoReader
<1>2. CASE thread' # None /\ reader.key = key /\ reader' = reader /\ calls' = cs
  BY <1>2
<1>3. CASE /\ thread' # None
           /\ reader' = [Mount(thread', fresh \cap thread') EXCEPT !.key = key]
           /\ calls' = Orphaned(cs) \cup Details(reader'.pending, key, fresh)
  <2>1. fresh \cap thread' \in SUBSET Mails /\ thread' \in Conversations
    BY <1>3
  <2>2. reader' \in Readers /\ reader'.key = key
    BY <1>3, <2>1, MountTyped
  <2>3. reader'.pending \in SUBSET Mails
    BY <2>2 DEF Readers
  <2>4. CallsOK(Orphaned(cs), who) /\ CallsOK(Details(reader'.pending, key, fresh), who)
    BY <2>3, MarksKeep, DetailsOK
  <2>5. CallsOK(calls', who)
    BY <1>3, <2>4 DEF CallsOK
  <2>6. Waits(reader', calls')
    <3>1. Waits(reader', Details(reader'.pending, key, fresh))
      BY <2>2, <2>3, DetailsAsked
    <3>2. Details(reader'.pending, key, fresh) \subseteq calls'
      BY <1>3
    <3> QED
      BY <2>2, <3>1, <3>2 DEF Waits
  <2> QED
    BY <1>3, <2>2, <2>5, <2>6
<1> QED
  BY <1>1, <1>2, <1>3, RenderedAs

-----------------------------------------------------------------------------
(* The invariant *)

\* The types of everything but the column and the requests.
Screen ==
    /\ folder \in Folders /\ rows \subseteq Mails /\ hits \in (SUBSET Mails) \cup {None}
    /\ unreadRows \subseteq Mails /\ unreadTalk \subseteq Mails
    /\ count \in [Folders -> Nat]
    /\ open \in Mails \cup {None} /\ opening \in BOOLEAN /\ popup \in BOOLEAN
    /\ draft \in Mails \cup {None} /\ pane \in {"folders", "list", "read"}
    /\ marked \subseteq Mails /\ held \subseteq Mails /\ unread \subseteq Mails
    /\ clicked \in Mails \cup {None}

Questions == [mail: Mails, open: Mails \cup {None}, ms: (SUBSET Mails) \cup {None},
              key: Mails \cup {None}, was: SUBSET Mails]

\* A conversation is shown by a reader that belongs to it, in the column and in
\* what a question remembers of the column.
Column ==
    /\ thread \in Conversations \cup {None} /\ reader \in Readers
    /\ CallsOK(calls, clicked) /\ Waits(reader, calls)
    /\ thread = None => reader = NoReader
    /\ thread # None => reader.key \in Mails
    /\ asking \in Questions \cup {None}
    /\ asking # None /\ asking.ms # None => asking.key \in Mails
    /\ DeletedNotInThread

LEMMA KeptTypes ==
  ASSUME Screen, Column, narrow \in BOOLEAN, moves \in 0..MaxMoves, failures \in 0..MaxFailures
  PROVE  TypeOK
<1>1. calls \in SUBSET Requests
  BY DEF Column, CallsOK, CallOK
<1> QED
  BY <1>1 DEF Screen, Column, TypeOK, Conversations, Questions

LEMMA ReadInit == Init => Screen /\ Column
<1> SUFFICES ASSUME Init PROVE Screen /\ Column
  OBVIOUS
<1>1. count \in [Folders -> Nat]
  <2>1. \A f \in Folders : Cardinality({m \in Mails : Home[m] = f}) \in Nat
    BY ReadAssumption, FS_Subset, FS_CardinalityType
  <2> QED
    BY <2>1 DEF Init
<1>2. Screen
  BY <1>1, ReadAssumption DEF Init, Screen
<1>3. Column
  BY NoReaderTyped DEF Init, Column, CallsOK, Waits, NoReader, DeletedNotInThread
<1> QED
  BY <1>2, <1>3

-----------------------------------------------------------------------------
(* What keeps requests in order and bodies asked for *)

LEMMA WaitsMarked ==
  ASSUME NEW r, NEW cs, NEW who, CallsOK(cs, who), Waits(r, cs)
  PROVE  Waits(r, Outdated(cs)) /\ Waits(r, Overtaken(cs))
<1>1. ASSUME NEW c \in cs
      PROVE  LET d == [c EXCEPT !.current = FALSE]
             IN  d.op = c.op /\ d.mail = c.mail /\ d.key = c.key
  BY DEF CallsOK, CallOK, Requests
<1>2. ASSUME NEW m \in r.pending
      PROVE  /\ \E d \in Outdated(cs) : d.op = "detail" /\ d.mail = m /\ d.key = r.key
             /\ \E d \in Overtaken(cs) : d.op = "detail" /\ d.mail = m /\ d.key = r.key
  <2>1. PICK c \in cs : c.op = "detail" /\ c.mail = m /\ c.key = r.key
    BY DEF Waits
  <2>2. [c EXCEPT !.current = FALSE] \in Outdated(cs)
    BY DEF Outdated
  <2>3. c \in Overtaken(cs)
    BY <2>1 DEF Overtaken
  <2> QED
    BY <1>1, <2>1, <2>2, <2>3
<1> QED
  BY <1>2 DEF Waits

LEMMA WaitsMore ==
  ASSUME NEW r, NEW cs, NEW ds, Waits(r, cs), cs \subseteq ds
  PROVE  Waits(r, ds)
BY DEF Waits

LEMMA WaitsLess ==
  ASSUME NEW r, NEW cs, NEW c, Waits(r, cs), c.op # "detail"
  PROVE  Waits(r, cs \ {c})
BY DEF Waits

LEMMA OneMoreOK ==
  ASSUME NEW cs, NEW c, NEW who, CallsOK(cs, who), CallOK(c, who)
  PROVE  CallsOK(cs \cup {c}, who)
BY DEF CallsOK

LEMMA FewerOK ==
  ASSUME NEW cs, NEW ds, NEW who, CallsOK(cs, who), ds \subseteq cs
  PROVE  CallsOK(ds, who)
BY DEF CallsOK

\* The requests of the actions that only tell the server.
LEMMA TellOK ==
  ASSUME NEW op \in {"see", "unsee", "move"}, NEW m \in Mails, NEW at \in Folders, NEW who
  PROVE  CallOK(Call(op, m, at), who)
BY CallTyped DEF CallOK, Ops

\* Patching rows and counting keep their types.
LEMMA Patched ==
  ASSUME Screen, NEW m \in Mails, NEW seen \in BOOLEAN
  PROVE  /\ PatchHeader(m, seen) => unreadRows' \subseteq Mails
         /\ \A at : PatchThreadMsg(m, seen, at) => unreadRows' \subseteq Mails /\ unreadTalk' \subseteq Mails
BY DEF Screen, PatchHeader, PatchThreadMsg, SameUid

LEMMA Counted ==
  ASSUME Screen, NEW f \in Folders, NEW up \in BOOLEAN, BumpUnseen(f, up)
  PROVE  count' \in [Folders -> Nat]
<1>1. count[f] \in Nat /\ Max({count[f], 1}) \in Nat \ {0}
  BY AtLeastOne DEF Screen
<1>2. (IF up THEN count[f] + 1 ELSE Max({count[f], 1}) - 1) \in Nat
  BY <1>1
<1> QED
  BY <1>2 DEF Screen, BumpUnseen

LEMMA HomeIsFolder == \A m \in Mails : Home[m] \in Folders
BY ReadAssumption

\* The conversation shown is without the mails marked.
LEMMA ShownThread ==
  ASSUME NEW ms, NEW marks, ms = None \/ ms \in SUBSET Mails, ShowThread(ms, marks)
  PROVE  /\ thread' \in Conversations \cup {None}
         /\ thread' # None => thread' \cap marks = {} /\ ms # None /\ thread' = ms \ marks
BY DEF ShowThread, Conversations

LEMMA PaneTyped ==
  ASSUME NEW p \in {"folders", "list", "read"}, PaneAfter(p)
  PROVE  pane' \in {"folders", "list", "read"}
BY DEF PaneAfter

-----------------------------------------------------------------------------
(* The steps of the user *)

\* Steps that leave column and requests alone.
LEMMA ColumnStays ==
  ASSUME Column, UNCHANGED <<calls, reader, thread, clicked>>,
         marked' \subseteq marked, asking' \in {asking, None}
  PROVE  Column'
<1>1. CallsOK(calls', clicked') /\ Waits(reader', calls')
  BY DEF Column
<1>2. DeletedNotInThread'
  BY DEF Column, DeletedNotInThread
<1> QED
  BY <1>1, <1>2 DEF Column

LEMMA QuietSteps ==
  ASSUME Screen, Column, ShowFolders \/ FullText \/ ClosePopup \/ CloseCompose \/ Cancel
  PROVE  Screen' /\ Column'
<1>1. Column'
  BY ColumnStays DEF ShowFolders, FullText, ClosePopup, CloseCompose, Cancel
<1>2. Screen'
  BY PaneTyped DEF ShowFolders, FullText, ClosePopup, CloseCompose, Cancel, Screen, markVars, serverVars
<1> QED
  BY <1>1, <1>2

LEMMA AskSteps ==
  ASSUME Screen, Column, NEW m \in Mails, AskDelete(m)
  PROVE  Screen' /\ Column'
<1>1. Screen'
  BY DEF AskDelete, Screen, markVars, serverVars
<1>2. asking' \in Questions /\ asking'.ms = thread /\ asking'.key = reader.key
  <2>1. /\ open \in Mails \cup {None} /\ thread \in (SUBSET Mails) \cup {None}
        /\ reader.key \in Mails \cup {None}
        /\ {m} \cap (IF thread # None THEN unreadTalk ELSE unreadRows) \in SUBSET Mails
    BY DEF Screen, Column, Readers, Conversations
  <2> QED
    BY <2>1 DEF AskDelete, Questions
<1>3. UNCHANGED <<calls, reader, thread, clicked, marked>>
  BY DEF AskDelete
<1>4. CallsOK(calls', clicked') /\ Waits(reader', calls') /\ DeletedNotInThread'
  BY <1>3 DEF Column, DeletedNotInThread
<1>5. Column'
  BY <1>2, <1>3, <1>4 DEF Column
<1> QED
  BY <1>1, <1>5

\* The column is emptied: its requests answer to nobody.
LEMMA Emptied ==
  ASSUME Column, thread' = None, reader' = NoReader, CallsOK(calls', clicked'), UNCHANGED asking
  PROVE  Column'
<1>1. Waits(reader', calls')
  BY DEF Waits, NoReader
<1> QED
  BY <1>1, NoReaderTyped DEF Column, DeletedNotInThread

LEMMA FolderSteps ==
  ASSUME Screen, Column, NEW f \in Folders, ClickFolder(f)
  PROVE  Screen' /\ Column'
<1>1. CallsOK(calls', clicked')
  BY MarksKeep DEF ClickFolder, Column
<1>2. Column'
  BY <1>1, Emptied DEF ClickFolder
<1>3. Screen'
  BY PaneTyped DEF ClickFolder, Screen, markVars, serverVars
<1> QED
  BY <1>2, <1>3

LEMMA CloseSteps ==
  ASSUME Screen, Column, CloseReading
  PROVE  Screen' /\ Column'
<1>1. CallsOK(calls', clicked')
  BY MarksKeep DEF CloseReading, Column
<1>2. Column'
  BY <1>1, Emptied DEF CloseReading
<1>3. Screen'
  BY DEF CloseReading, Screen, markVars, serverVars
<1> QED
  BY <1>2, <1>3

\* A click overtakes every earlier one and is itself the newest.
LEMMA OpenSteps ==
  ASSUME Screen, Column, NEW m \in Mails, NEW asPopup \in BOOLEAN, OpenMsg(m, asPopup)
  PROVE  Screen' /\ Column'
<1> DEFINE new == [Call("read", m, folder) EXCEPT !.popup = asPopup]
           base == IF asPopup THEN calls ELSE Orphaned(Outdated(calls))
<1>1. calls' = Overtaken(base) \cup {new} /\ clicked' = m
  BY DEF OpenMsg
<1>2. CallOK(new, m)
  <2>1. Call("read", m, folder) \in Requests /\ Call("read", m, folder).op = "read"
        /\ Call("read", m, folder).mail = m
    BY CallTyped DEF Ops, Screen
  <2>2. new \in Requests /\ new.op = "read" /\ new.mail = m
    BY <2>1 DEF Requests
  <2> QED
    BY <2>2 DEF CallOK
<1>3. CallsOK(calls, clicked) /\ CallsOK(base, clicked)
  BY MarksKeep DEF Column
<1> HIDE DEF new, base
<1>4. CallsOK(Overtaken(base), m)
  BY <1>3, MarksKeep
<1>5. CallsOK(calls', clicked')
  BY <1>1, <1>2, <1>4, OneMoreOK
<1>6. ASSUME asPopup PROVE Column'
  <2>1. base = calls /\ UNCHANGED <<thread, reader, marked, asking>>
    BY <1>6 DEF OpenMsg, base
  <2>2. Waits(reader', calls')
    <3>1. Waits(reader, Overtaken(calls))
      BY <1>3, WaitsMarked DEF Column
    <3> QED
      BY <1>1, <2>1, <3>1, WaitsMore
  <2> QED
    BY <1>5, <2>1, <2>2 DEF Column, DeletedNotInThread
<1>7. ASSUME ~asPopup PROVE Column'
  BY <1>5, <1>7, Emptied DEF OpenMsg
<1>8. Screen'
  BY DEF OpenMsg, Screen, markVars, serverVars
<1> QED
  BY <1>6, <1>7, <1>8

LEMMA ConversationSteps ==
  ASSUME Screen, Column, OpenConversation
  PROVE  Screen' /\ Column'
<1> DEFINE ms == Conversation
           fresh == ms \cap unreadRows
           new == [Call("augment", Latest(ms), folder) EXCEPT !.ms = ms]
           cs == Overtaken(Outdated(calls)) \cup {new}
<1>1. ms \in Conversations /\ fresh \in SUBSET Mails
  <2>1. ms # {}
    BY FS_EmptySet DEF OpenConversation
  <2>2. ms \in SUBSET Mails
    BY ReadAssumption DEF Conversation
  <2> QED
    BY <2>1, <2>2 DEF Conversations
<1>2. ShowThread(ms, marked) /\ Rendered(Latest(ms), fresh, cs) /\ clicked' = None
      /\ marked' = marked /\ UNCHANGED asking
  BY DEF OpenConversation
<1>3. Latest(ms) \in Mails /\ CallOK(new, None)
  <2>1. Latest(ms) \in Mails
    BY <1>1, LatestIsOne DEF Conversations
  <2>2. Call("augment", Latest(ms), folder) \in Requests /\ Call("augment", Latest(ms), folder).op = "augment"
    BY <2>1, CallTyped DEF Ops, Screen
  <2>3. new \in Requests /\ new.op = "augment" /\ new.ms = ms
    BY <1>1, <2>2 DEF Requests, Conversations
  <2> QED
    BY <1>1, <2>1, <2>3 DEF CallOK
<1>4. CallsOK(cs, None) /\ Waits(reader, cs)
  <2>1. CallsOK(Outdated(calls), clicked) /\ Waits(reader, Outdated(calls))
    BY MarksKeep, WaitsMarked DEF Column
  <2>2. CallsOK(Overtaken(Outdated(calls)), None) /\ Waits(reader, Overtaken(Outdated(calls)))
    BY <2>1, MarksKeep, WaitsMarked
  <2> HIDE DEF new
  <2> QED
    BY <1>3, <2>2, OneMoreOK, WaitsMore
<1>5. Screen'
  BY <1>1, PaneTyped DEF OpenConversation, Screen, serverVars
<1> HIDE DEF ms, fresh, new, cs
<1>6. thread' \in Conversations \cup {None} /\ (thread' # None => thread' \cap marked = {})
  BY <1>1, <1>2, ShownThread DEF Conversations
<1>7. /\ reader' \in Readers /\ CallsOK(calls', None) /\ Waits(reader', calls')
      /\ thread' = None => reader' = NoReader
      /\ thread' # None => reader'.key = Latest(ms)
  BY <1>1, <1>2, <1>3, <1>4, <1>6, RenderedOK DEF Screen, Column
<1>8. Column'
  BY <1>2, <1>3, <1>6, <1>7 DEF Column, DeletedNotInThread
<1> QED
  BY <1>5, <1>8

LEMMA CardSteps ==
  ASSUME Screen, Column, NEW m \in Mails, ToggleCard(m)
  PROVE  Screen' /\ Column'
<1>1. UNCHANGED <<thread, asking, marked, clicked>> /\ thread # None
  BY DEF ToggleCard
<1>2. ASSUME reader' = [reader EXCEPT !.cards = @ \ {m}] /\ calls' = calls
      PROVE  Column'
  <2>1. reader' \in Readers /\ reader'.pending = reader.pending /\ reader'.key = reader.key
    BY <1>2 DEF Column, Readers
  <2>2. Waits(reader', calls')
    BY <1>2, <2>1 DEF Column, Waits
  <2> QED
    BY <1>1, <1>2, <2>1, <2>2 DEF Column, DeletedNotInThread
<1>3. ASSUME NEW ask \in SUBSET {m},
             reader' = [reader EXCEPT !.cards = @ \cup {m}, !.pending = @ \cup ask],
             calls' = calls \cup Details(ask, reader.key, unreadTalk)
      PROVE  Column'
  <2>1. /\ reader' \in Readers /\ reader'.pending = reader.pending \cup ask /\ reader'.key = reader.key
        /\ reader.key \in Mails \cup {None} /\ ask \in SUBSET Mails
    BY <1>3 DEF Column, Readers
  <2>2. /\ \A who : CallsOK(Details(ask, reader.key, unreadTalk), who)
        /\ \A x \in ask : \E d \in Details(ask, reader.key, unreadTalk) :
              d.op = "detail" /\ d.mail = x /\ d.key = reader.key
    BY <2>1, DetailsOK DEF Screen
  <2>3. CallsOK(calls', clicked')
    BY <1>1, <1>3, <2>2 DEF Column, CallsOK
  <2>4. Waits(reader', calls')
    BY <1>3, <2>1, <2>2 DEF Column, Waits
  <2> QED
    BY <1>1, <2>1, <2>3, <2>4 DEF Column, DeletedNotInThread
<1>4. Column'
  <2>1. {m} \ (reader.bodies \cup reader.pending) \in SUBSET {m}
    OBVIOUS
  <2> QED
    BY <1>2, <1>3, <2>1 DEF ToggleCard
<1>5. Screen'
  BY DEF ToggleCard, Screen, markVars, serverVars
<1> QED
  BY <1>4, <1>5

\* Steps that only add or drop requests.
LEMMA ColumnCalls ==
  ASSUME Column, CallsOK(calls', clicked), Waits(reader, calls'),
         UNCHANGED <<thread, reader, asking, marked, clicked>>
  PROVE  Column'
BY DEF Column, DeletedNotInThread

LEMMA UnreadSteps ==
  ASSUME Screen, Column, MarkUnread \/ \E m \in Mails : MarkThreadUnread(m)
  PROVE  Screen' /\ Column'
<1>1. PICK m \in Mails : calls' = Outdated(calls) \cup {Call("unsee", m, folder)}
  BY DEF MarkUnread, MarkThreadUnread, Screen
<1>2. CallsOK(Outdated(calls), clicked) /\ Waits(reader, Outdated(calls))
  BY MarksKeep, WaitsMarked DEF Column
<1>3. CallOK(Call("unsee", m, folder), clicked)
  BY TellOK DEF Screen
<1>4. CallsOK(calls', clicked) /\ Waits(reader, calls')
  BY <1>1, <1>2, <1>3, OneMoreOK, WaitsMore
<1>5. Column'
  BY <1>4, ColumnCalls DEF MarkUnread, MarkThreadUnread
<1>6. ASSUME MarkUnread PROVE Screen'
  <2>1. count' \in [Folders -> Nat] /\ unreadRows' \subseteq Mails
    BY <1>6, Counted, Patched DEF MarkUnread, Screen
  <2> QED
    BY <1>6, <2>1, PaneTyped DEF MarkUnread, Screen, serverVars
<1>7. ASSUME NEW x \in Mails, MarkThreadUnread(x) PROVE Screen'
  <2>1. count' \in [Folders -> Nat] /\ unreadRows' \subseteq Mails /\ unreadTalk' \subseteq Mails
    BY <1>7, Counted, Patched, HomeIsFolder DEF MarkThreadUnread
  <2> QED
    BY <1>7, <2>1 DEF MarkThreadUnread, Screen, serverVars
<1> QED
  BY <1>5, <1>6, <1>7

LEMMA MoveSteps ==
  ASSUME Screen, Column, NEW m \in Mails, MoveAway(m)
  PROVE  Screen' /\ Column'
<1> DEFINE new == [Call("move", m, folder) EXCEPT !.was = IF thread # None THEN {m} ELSE {}]
<1>1. CallOK(new, clicked)
  <2>1. Call("move", m, folder) \in Requests /\ Call("move", m, folder).op = "move"
    BY CallTyped DEF Ops, Screen
  <2> QED
    BY <2>1 DEF Requests, CallOK
<1>2. calls' = calls \cup {new}
  BY DEF MoveAway
<1> HIDE DEF new
<1>3. CallsOK(calls', clicked) /\ Waits(reader, calls')
  BY <1>1, <1>2, OneMoreOK, WaitsMore DEF Column
<1>4. Column'
  BY <1>3, ColumnCalls DEF MoveAway
<1>5. Screen'
  BY DEF MoveAway, Screen, markVars, serverVars
<1> QED
  BY <1>4, <1>5

LEMMA ConfirmSteps ==
  ASSUME Screen, Column, Confirm
  PROVE  Screen' /\ Column'
<1> DEFINE m == asking.mail
           new == [Call("delete", m, folder) EXCEPT !.ms = asking.ms, !.key = asking.key,
                      !.was = asking.was]
<1>1. /\ m \in Mails /\ asking.ms \in (SUBSET Mails) \cup {None}
      /\ asking.key \in Mails \cup {None} /\ asking.was \in SUBSET Mails
      /\ asking.ms # None => asking.key \in Mails
  BY DEF Confirm, Column, Questions
<1>2. Screen'
  BY <1>1 DEF Confirm, Screen, markVars, serverVars
<1>3. ASSUME m \in marked PROVE Column'
  BY <1>3, ColumnStays DEF Confirm
<1>4. ASSUME m \notin marked PROVE Column'
  <2>1. /\ marked' = marked \cup {m} /\ ShowThread(thread, marked')
        /\ Rendered(reader.key, {}, Outdated(calls) \cup {new})
        /\ asking' = None /\ clicked' = clicked
    BY <1>4 DEF Confirm
  <2>2. CallOK(new, clicked)
    <3>1. Call("delete", m, folder) \in Requests /\ Call("delete", m, folder).op = "delete"
      BY <1>1, CallTyped DEF Ops, Screen
    <3> HIDE DEF m
    <3>2. /\ new \in Requests /\ new.op = "delete" /\ new.ms = asking.ms /\ new.key = asking.key
      BY <1>1, <3>1 DEF Requests
    <3> QED
      BY <1>1, <3>2 DEF CallOK
  <2> HIDE DEF new, m
  <2>3. CallsOK(Outdated(calls) \cup {new}, clicked) /\ Waits(reader, Outdated(calls) \cup {new})
    <3>1. CallsOK(Outdated(calls), clicked) /\ Waits(reader, Outdated(calls))
      BY MarksKeep, WaitsMarked DEF Column
    <3> QED
      BY <2>2, <3>1, OneMoreOK, WaitsMore
  <2>4. /\ thread' \in Conversations \cup {None}
        /\ thread' # None => thread' \cap marked' = {} /\ thread # None
    <3>1. thread = None \/ thread \in SUBSET Mails
      BY DEF Column, Conversations
    <3> QED
      BY <2>1, <3>1, ShownThread
  <2>5. reader.key \in Mails \cup {None} /\ reader \in Readers /\ folder \in Folders
    BY DEF Column, Readers, Screen
  <2>6. /\ reader' \in Readers /\ CallsOK(calls', clicked) /\ Waits(reader', calls')
        /\ thread' = None => reader' = NoReader
        /\ thread' # None => reader'.key = reader.key
    BY <2>1, <2>3, <2>4, <2>5, RenderedOK
  <2> QED
    BY <2>1, <2>4, <2>6 DEF Column, DeletedNotInThread
<1> QED
  BY <1>2, <1>3, <1>4

-----------------------------------------------------------------------------
(* Answers *)

LEMMA RequestTyped ==
  ASSUME Column, NEW c \in calls
  PROVE  /\ CallOK(c, clicked) /\ c \in Requests /\ c.mail \in Mails /\ c.at \in Folders
         /\ CallsOK(calls \ {c}, clicked) /\ CallsOK(Outdated(calls \ {c}), clicked)
<1>1. CallOK(c, clicked) /\ c \in Requests
  BY DEF Column, CallsOK, CallOK
<1>2. CallsOK(calls, clicked) /\ calls \ {c} \subseteq calls
  BY DEF Column
<1>3. CallsOK(calls \ {c}, clicked)
  BY <1>2, FewerOK
<1> QED
  BY <1>1, <1>3, MarksKeep DEF Requests

\* Every request for a body the reader waits for survives the answer to another.
LEMMA OthersWait ==
  ASSUME Column, NEW c \in calls, c.op # "detail"
  PROVE  Waits(reader, calls \ {c}) /\ Waits(reader, Outdated(calls \ {c}))
<1>1. Waits(reader, calls \ {c})
  BY WaitsLess DEF Column
<1> QED
  BY <1>1, RequestTyped, WaitsMarked

LEMMA ListedSteps ==
  ASSUME Screen, Column, Listed
  PROVE  Screen' /\ Column'
<1>1. CallsOK(calls', clicked) /\ Waits(reader, calls')
  BY MarksKeep, WaitsMarked DEF Listed, Column
<1>2. Column'
  BY <1>1, ColumnCalls DEF Listed
<1>3. rows' \subseteq Mails /\ unreadRows' \subseteq Mails
  BY DEF Listed, ListingOf, Screen
<1>4. count' \in [Folders -> Nat]
  <2>1. Cardinality(ListingOf(folder) \cap unread) \in Nat
    <3>1. ListingOf(folder) \cap unread \in SUBSET Mails
      BY DEF ListingOf, Screen
    <3> QED
      BY <3>1, ReadAssumption, FS_Subset, FS_CardinalityType
  <2> QED
    BY <2>1 DEF Listed, Screen
<1>5. Screen'
  BY <1>3, <1>4 DEF Listed, Screen, serverVars
<1> QED
  BY <1>2, <1>5

LEMMA ReadSteps ==
  ASSUME Screen, Column, NEW c \in calls, ReadAnswers(c) \/ ReadFails(c)
  PROVE  Screen' /\ Column'
<1>1. /\ c.op = "read" /\ CallOK(c, clicked) /\ c.mail \in Mails /\ c.at \in Folders /\ c.popup \in BOOLEAN
      /\ c.newest \in BOOLEAN
  BY RequestTyped DEF ReadAnswers, ReadFails, Requests
<1>2. /\ CallsOK(calls \ {c}, clicked) /\ CallsOK(Outdated(calls \ {c}), clicked)
      /\ Waits(reader, calls \ {c}) /\ Waits(reader, Outdated(calls \ {c}))
  BY <1>1, RequestTyped, OthersWait
<1>3. CallOK(Call("see", c.mail, c.at), clicked)
  BY <1>1, TellOK
<1>4. \/ calls' = calls \ {c} \/ calls' = Outdated(calls \ {c})
      \/ calls' = Outdated(calls \ {c}) \cup {Call("see", c.mail, c.at)}
  BY DEF ReadAnswers, ReadFails
<1>5. CallsOK(calls', clicked) /\ Waits(reader, calls')
  BY <1>2, <1>3, <1>4, OneMoreOK, WaitsMore
<1>6. Column'
  BY <1>5, ColumnCalls DEF ReadAnswers, ReadFails
<1>7. ASSUME ReadAnswers(c) PROVE Screen'
  <2>1. unreadRows' \subseteq Mails /\ count' \in [Folders -> Nat]
    BY <1>1, <1>7, Counted, Patched, HomeIsFolder DEF ReadAnswers, Screen
  <2>2. /\ open' \in Mails \cup {None} /\ popup' \in BOOLEAN /\ draft' \in Mails \cup {None}
        /\ pane' \in {"folders", "list", "read"} /\ opening' \in BOOLEAN
    BY <1>1, <1>7 DEF ReadAnswers, StopOpening, Screen
  <2> QED
    BY <1>7, <2>1, <2>2 DEF ReadAnswers, Screen, serverVars
<1>8. ASSUME ReadFails(c) PROVE Screen'
  <2>1. /\ rows' \subseteq Mails /\ open' \in Mails \cup {None}
        /\ pane' \in {"folders", "list", "read"} /\ opening' \in BOOLEAN
    BY <1>1, <1>8, PaneTyped DEF ReadFails, StopOpening, Screen
  <2> QED
    BY <1>8, <2>1 DEF ReadFails, Screen, markVars, serverVars
<1> QED
  BY <1>6, <1>7, <1>8

\* A body arrives or fails: the reader that waits for it waits no more, and what
\* it still waits for is another request.
LEMMA DetailSteps ==
  ASSUME Screen, Column, NEW c \in calls, DetailAnswers(c) \/ DetailFails(c)
  PROVE  Screen' /\ Column'
<1>1. /\ c.op = "detail" /\ CallOK(c, clicked) /\ c.mail \in Mails /\ c.at \in Folders
  BY RequestTyped DEF DetailAnswers, DetailFails
<1>2. CallsOK(calls \ {c}, clicked) /\ CallsOK(Outdated(calls \ {c}), clicked)
  BY RequestTyped
<1>3. CallOK(Call("see", c.mail, c.at), clicked)
  BY <1>1, TellOK
<1>4. UNCHANGED <<thread, asking, marked, clicked>>
  BY DEF DetailAnswers, DetailFails
<1>5. reader.key = None => reader.pending = {}
  BY ReadAssumption DEF Column, NoReader
<1>6. /\ reader' \in Readers /\ reader'.key = reader.key
      /\ \/ c.key # reader.key \/ reader.key = None
         \/ reader'.pending = reader.pending \ {c.mail}
      /\ reader'.pending \subseteq reader.pending
  <2>1. CASE reader' = reader /\ (c.key # reader.key \/ reader.key = None)
    BY <2>1 DEF Column
  <2>2. ASSUME NEW rep \in SUBSET Mails,
               reader' = [reader EXCEPT !.bodies = @ \cup {c.mail}, !.pending = @ \ {c.mail}, !.reported = rep]
        PROVE  /\ reader' \in Readers /\ reader'.key = reader.key
               /\ reader'.pending = reader.pending \ {c.mail}
    BY <1>1, <2>2 DEF Column, Readers
  <2>3. CASE reader' = [reader EXCEPT !.pending = @ \ {c.mail}]
    BY <2>3 DEF Column, Readers
  <2>4. reader.reported \in SUBSET Mails /\ reader.reported \cup {c.mail} \in SUBSET Mails
    BY <1>1 DEF Column, Readers
  <2>5. ASSUME DetailAnswers(c)
        PROVE  \/ reader' = reader /\ (c.key # reader.key \/ reader.key = None)
               \/ \E rep \in SUBSET Mails : reader' =
                    [reader EXCEPT !.bodies = @ \cup {c.mail}, !.pending = @ \ {c.mail}, !.reported = rep]
    BY <2>4, <2>5 DEF DetailAnswers
  <2>6. ASSUME DetailFails(c)
        PROVE  \/ reader' = reader /\ c.key # reader.key
               \/ reader' = [reader EXCEPT !.pending = @ \ {c.mail}]
    BY <2>6 DEF DetailFails
  <2> QED
    BY <2>1, <2>2, <2>3, <2>5, <2>6
<1>7. Waits(reader', calls \ {c})
  <2> SUFFICES ASSUME NEW m \in reader'.pending
               PROVE  \E d \in calls \ {c} : d.op = "detail" /\ d.mail = m /\ d.key = reader'.key
    BY DEF Waits
  <2>1. PICK d \in calls : d.op = "detail" /\ d.mail = m /\ d.key = reader.key
    BY <1>6 DEF Column, Waits
  <2>2. d # c
    BY <1>5, <1>6, <2>1
  <2> QED
    BY <1>6, <2>1, <2>2
<1>8. Waits(reader', Outdated(calls \ {c}))
  BY <1>2, <1>7, WaitsMarked
<1>9. \/ calls' = calls \ {c}
      \/ calls' = Outdated(calls \ {c}) \cup {Call("see", c.mail, c.at)}
  BY DEF DetailAnswers, DetailFails
<1>10. CallsOK(calls', clicked) /\ Waits(reader', calls')
  BY <1>2, <1>3, <1>7, <1>8, <1>9, OneMoreOK, WaitsMore
<1>11. Column'
  <2>1. thread = None => reader' = NoReader
    <3>1. [NoReader EXCEPT !.pending = @ \ {c.mail}] = NoReader /\ NoReader.key = None
      BY DEF NoReader
    <3> QED
      BY <3>1 DEF Column, DetailAnswers, DetailFails
  <2> QED
    BY <1>4, <1>6, <1>10, <2>1 DEF Column, DeletedNotInThread
<1>12. Screen'
  <2>1. unreadRows' \subseteq Mails /\ unreadTalk' \subseteq Mails /\ count' \in [Folders -> Nat]
    BY <1>1, Counted, Patched, HomeIsFolder DEF DetailAnswers, DetailFails, Screen, markVars
  <2> QED
    BY <2>1 DEF DetailAnswers, DetailFails, Screen, serverVars
<1> QED
  BY <1>11, <1>12

\* Steps after which the column is rendered again for the mails ms.
LEMMA ColumnRendered ==
  ASSUME Screen, Column, NEW key \in Mails \cup {None}, NEW fresh \in SUBSET Mails, NEW cs,
         CallsOK(cs, clicked), Waits(reader, cs), Rendered(key, fresh, cs),
         thread' \in Conversations \cup {None},
         thread' # None => thread' \cap marked' = {} /\ key \in Mails,
         UNCHANGED <<asking, clicked>>
  PROVE  Column'
<1>1. reader \in Readers /\ folder \in Folders
  BY DEF Column, Screen
<1>2. /\ reader' \in Readers /\ CallsOK(calls', clicked) /\ Waits(reader', calls')
      /\ thread' = None => reader' = NoReader
      /\ thread' # None => reader'.key = key
  BY <1>1, RenderedOK
<1> QED
  BY <1>2 DEF Column, DeletedNotInThread

LEMMA AugmentSteps ==
  ASSUME Screen, Column, NEW c \in calls, AugmentAnswers(c) \/ AugmentFails(c)
  PROVE  Screen' /\ Column'
<1> DEFINE merged == c.ms \cup (Talk \cap held)
           cs == calls \ {c}
<1>1. c.op = "augment" /\ c.ms \in Conversations
  BY RequestTyped DEF AugmentAnswers, AugmentFails, CallOK
<1>2. CallsOK(cs, clicked) /\ Waits(reader, cs)
  BY <1>1, RequestTyped, OthersWait
<1>3. merged \in Conversations /\ Latest(merged) \in Mails
  <2>1. merged \in SUBSET Mails /\ merged # {}
    BY <1>1 DEF Conversations, Screen
  <2> QED
    BY <2>1, LatestIsOne DEF Conversations
<1>4. (merged \ c.ms) \cap unread \in SUBSET Mails
  BY DEF Screen
<1>5. ASSUME calls' = cs, UNCHANGED <<thread, unreadTalk, reader>> PROVE Column'
  BY <1>2, <1>5, ColumnCalls DEF AugmentAnswers, AugmentFails
<1>6. ASSUME AugmentAnswers(c), ShowThread(merged, marked),
             unreadTalk' = unreadTalk \cup ((merged \ c.ms) \cap unread),
             Rendered(Latest(merged), unreadTalk', cs)
      PROVE  Column'
  <2>1. unreadTalk' \in SUBSET Mails /\ UNCHANGED <<asking, clicked, marked>>
    BY <1>4, <1>6 DEF AugmentAnswers, Screen
  <2> HIDE DEF merged, cs
  <2>2. thread' \in Conversations \cup {None} /\ (thread' # None => thread' \cap marked = {})
    BY <1>3, <1>6, ShownThread DEF Conversations
  <2> QED
    BY <1>2, <1>3, <1>6, <2>1, <2>2, ColumnRendered
<1>7. Column'
  BY <1>5, <1>6 DEF AugmentAnswers, AugmentFails, markVars
<1>8. Screen'
  BY <1>4 DEF AugmentAnswers, AugmentFails, Screen, markVars, serverVars
<1> QED
  BY <1>7, <1>8

LEMMA TellSteps ==
  ASSUME Screen, Column, NEW c \in calls, ServerDoes(c) \/ FlagAnswers(c) \/ FlagFails(c) \/ DeleteAnswers(c)
  PROVE  Screen' /\ Column'
<1>1. c.op # "detail" /\ CallOK(c, clicked) /\ c.mail \in Mails /\ c.at \in Folders
  BY RequestTyped DEF ServerDoes, FlagAnswers, FlagFails, DeleteAnswers
<1>2. /\ CallsOK(calls \ {c}, clicked) /\ CallsOK(Outdated(calls \ {c}), clicked)
      /\ Waits(reader, calls \ {c}) /\ Waits(reader, Outdated(calls \ {c}))
  BY <1>1, RequestTyped, OthersWait
<1>3. CallOK([c EXCEPT !.done = TRUE], clicked)
  BY <1>1 DEF CallOK, Requests
<1>4. \/ calls' = calls \ {c} \/ calls' = Outdated(calls \ {c})
      \/ calls' = (calls \ {c}) \cup {[c EXCEPT !.done = TRUE]}
  BY DEF ServerDoes, FlagAnswers, FlagFails, DeleteAnswers
<1>5. CallsOK(calls', clicked) /\ Waits(reader, calls')
  <2>1. CASE calls' = calls \ {c} \/ calls' = Outdated(calls \ {c})
    BY <1>2, <2>1
  <2>2. CASE calls' = (calls \ {c}) \cup {[c EXCEPT !.done = TRUE]}
    <3> DEFINE after == [c EXCEPT !.done = TRUE]
    <3>1. CallOK(after, clicked) /\ calls' = (calls \ {c}) \cup {after}
      BY <1>3, <2>2
    <3> HIDE DEF after
    <3> QED
      BY <1>2, <3>1, OneMoreOK, WaitsMore
  <2> QED
    BY <1>4, <2>1, <2>2
<1>6. Column'
  BY <1>5, ColumnCalls DEF ServerDoes, FlagAnswers, FlagFails, DeleteAnswers
<1>7. unreadRows' \subseteq Mails /\ unreadTalk' \subseteq Mails /\ count' \in [Folders -> Nat]
  BY <1>1, Counted, Patched, HomeIsFolder
     DEF ServerDoes, FlagAnswers, FlagFails, DeleteAnswers, Screen, markVars
<1>8. held' \subseteq Mails /\ unread' \subseteq Mails
  BY <1>1 DEF ServerDoes, FlagAnswers, FlagFails, DeleteAnswers, Screen, serverVars
<1>9. Screen'
  BY <1>7, <1>8 DEF ServerDoes, FlagAnswers, FlagFails, DeleteAnswers, Screen
<1> QED
  BY <1>6, <1>9

LEMMA MovedSteps ==
  ASSUME Screen, Column, NEW c \in calls, MoveAnswers(c)
  PROVE  Screen' /\ Column'
<1> DEFINE cs == Outdated(calls \ {c})
<1>1. c.op = "move" /\ c.mail \in Mails
  BY RequestTyped DEF MoveAnswers
<1>2. CallsOK(cs, clicked) /\ Waits(reader, cs)
  BY <1>1, RequestTyped, OthersWait
<1>3. /\ Rendered(reader.key, {}, cs) /\ UNCHANGED <<asking, clicked, marked>>
      /\ \/ thread' = thread
         \/ thread # None /\ ShowThread(thread \ {c.mail}, marked)
  BY DEF MoveAnswers
<1>4. reader.key \in Mails \cup {None} /\ (thread # None => reader.key \in Mails)
  BY DEF Column, Readers
<1>5. /\ thread' \in Conversations \cup {None}
      /\ thread' # None => thread' \cap marked' = {} /\ thread # None
  <2>1. CASE thread' = thread
    BY <1>3, <2>1 DEF Column, DeletedNotInThread
  <2>2. CASE thread # None /\ ShowThread(thread \ {c.mail}, marked)
    <3>1. thread \ {c.mail} \in SUBSET Mails
      BY <2>2 DEF Column, Conversations
    <3> QED
      BY <1>3, <2>2, <3>1, ShownThread
  <2> QED
    BY <1>3, <2>1, <2>2
<1>6. Screen'
  BY PaneTyped DEF MoveAnswers, Screen, markVars, serverVars
<1> HIDE DEF cs
<1>7. Column'
  BY <1>2, <1>3, <1>4, <1>5, ColumnRendered
<1> QED
  BY <1>6, <1>7

\* What was open when the deletion was asked comes back without the other mails
\* being deleted, in a reader for the same conversation.
LEMMA UndeleteSteps ==
  ASSUME Screen, Column, NEW c \in calls, DeleteFails(c)
  PROVE  Screen' /\ Column'
<1>1. c.op = "delete" /\ CallOK(c, clicked) /\ c.mail \in Mails
  BY RequestTyped DEF DeleteFails
<1>2. /\ CallsOK(calls \ {c}, clicked) /\ Waits(reader, calls \ {c})
      /\ CallsOK(Outdated(calls \ {c}), clicked) /\ Waits(reader, Outdated(calls \ {c}))
  BY <1>1, RequestTyped, OthersWait
<1>3. /\ c.ms \in (SUBSET Mails) \cup {None} /\ c.key \in Mails \cup {None}
      /\ c.ms # None => c.key \in Mails
      /\ reader.key \in Mails \cup {None} /\ (thread # None => reader.key \in Mails)
      /\ unreadTalk \in SUBSET Mails
  BY <1>1 DEF CallOK, Requests, Column, Readers, Screen
<1>4. PICK cs \in {calls \ {c}, Outdated(calls \ {c})} :
        \/ c.ms # None /\ ShowThread(c.ms, marked') /\ Rendered(c.key, unreadTalk, cs)
        \/ thread' = thread /\ Rendered(reader.key, unreadTalk, cs)
  <2>1. ASSUME NEW key, Rendered(key, unreadTalk,
                 IF folder = c.at /\ Home[c.mail] = folder THEN Outdated(calls \ {c}) ELSE calls \ {c})
        PROVE  \E cs \in {calls \ {c}, Outdated(calls \ {c})} : Rendered(key, unreadTalk, cs)
    BY <2>1
  <2>2. CASE folder = c.at /\ c.current /\ c.ms # None
    BY <2>1, <2>2 DEF DeleteFails
  <2>3. CASE ~(folder = c.at /\ c.current /\ c.ms # None)
    BY <2>1, <2>3 DEF DeleteFails
  <2> QED
    BY <2>2, <2>3
<1>5. CallsOK(cs, clicked) /\ Waits(reader, cs)
  BY <1>2
<1>6. marked' = marked \ {c.mail} /\ UNCHANGED <<asking, clicked>>
  BY DEF DeleteFails
<1>7. CASE c.ms # None /\ ShowThread(c.ms, marked') /\ Rendered(c.key, unreadTalk, cs)
  <2>1. thread' \in Conversations \cup {None} /\ (thread' # None => thread' \cap marked' = {})
    BY <1>3, <1>7, ShownThread
  <2>2. Column'
    BY <1>3, <1>5, <1>6, <1>7, <2>1, ColumnRendered
  <2> QED
    BY <1>1, <2>2 DEF DeleteFails, Screen, markVars, serverVars
<1>8. CASE thread' = thread /\ Rendered(reader.key, unreadTalk, cs)
  <2>1. thread' \in Conversations \cup {None} /\ (thread' # None => thread' \cap marked' = {})
    BY <1>6, <1>8 DEF Column, DeletedNotInThread
  <2>2. Column'
    BY <1>3, <1>5, <1>6, <1>8, <2>1, ColumnRendered
  <2> QED
    BY <1>1, <2>2 DEF DeleteFails, Screen, markVars, serverVars
<1> QED
  BY <1>4, <1>7, <1>8

-----------------------------------------------------------------------------
(* The theorems *)

Kept == /\ Screen /\ Column
        /\ narrow \in BOOLEAN /\ moves \in 0..MaxMoves /\ failures \in 0..MaxFailures

LEMMA KeptInit == Init => Kept
<1> SUFFICES ASSUME Init PROVE Kept
  OBVIOUS
<1>1. narrow \in BOOLEAN /\ moves \in 0..MaxMoves /\ failures \in 0..MaxFailures
  BY ReadAssumption DEF Init
<1> QED
  BY <1>1, ReadInit DEF Kept

LEMMA KeptNext == Kept /\ [Next]_vars => Kept'
<1> SUFFICES ASSUME Kept, [Next]_vars PROVE Kept'
  OBVIOUS
<1>1. Screen /\ Column
  BY DEF Kept
<1>2. narrow' \in BOOLEAN /\ moves' \in 0..MaxMoves /\ failures' \in 0..MaxFailures
  BY ReadAssumption DEF Kept, Next, Move, Failure, Other, vars
<1>3. ASSUME User PROVE Screen' /\ Column'
  BY <1>1, <1>3, QuietSteps, AskSteps, FolderSteps, CloseSteps, OpenSteps, ConversationSteps,
     CardSteps, UnreadSteps, MoveSteps, ConfirmSteps DEF User
<1>4. ASSUME NEW c \in calls,
             \/ ReadAnswers(c) \/ ReadFails(c) \/ DetailAnswers(c) \/ DetailFails(c)
             \/ AugmentAnswers(c) \/ AugmentFails(c) \/ ServerDoes(c) \/ FlagAnswers(c)
             \/ FlagFails(c) \/ MoveAnswers(c) \/ DeleteAnswers(c) \/ DeleteFails(c)
      PROVE  Screen' /\ Column'
  BY <1>1, <1>4, ReadSteps, DetailSteps, AugmentSteps, TellSteps, MovedSteps, UndeleteSteps
<1>5. ASSUME Listed PROVE Screen' /\ Column'
  BY <1>1, <1>5, ListedSteps
<1>6. ASSUME UNCHANGED vars PROVE Screen' /\ Column'
  <2>1. Screen'
    BY <1>1, <1>6 DEF vars, Screen
  <2>2. Column'
    BY <1>1, <1>6, ColumnStays DEF vars
  <2> QED
    BY <2>1, <2>2
<1>7. Screen' /\ Column'
  <2>1. ASSUME Move PROVE Screen' /\ Column'
    BY <1>3, <2>1 DEF Move
  <2>2. ASSUME Failure PROVE Screen' /\ Column'
    BY <1>4, <2>2 DEF Failure, Failing
  <2>3. ASSUME Answers \/ Listed PROVE Screen' /\ Column'
    BY <1>4, <1>5, <2>3 DEF Answers
  <2> QED
    BY <1>6, <2>1, <2>2, <2>3 DEF Next
<1> QED
  BY <1>2, <1>7 DEF Kept

LEMMA KeptAlways == Spec => []Kept
BY KeptInit, KeptNext, PTL DEF Spec

\* List, column, reader, question and requests keep their types.
THEOREM ReadTypeSafe == Spec => []TypeOK
<1>1. Kept => TypeOK
  BY KeptTypes DEF Kept
<1> QED
  BY <1>1, KeptAlways, PTL

\* A mail whose deletion is under way or confirmed is not in the conversation.
THEOREM DeletedNotInThreadSafe == Spec => []DeletedNotInThread
<1>1. Kept => DeletedNotInThread
  BY DEF Kept, Column
<1> QED
  BY <1>1, KeptAlways, PTL

\* Every card shown as loading has its request under way.
THEOREM LoadingHasRequestSafe == Spec => []LoadingHasRequest
<1>1. Kept => LoadingHasRequest
  BY DEF Kept, Column, Waits, LoadingHasRequest
<1> QED
  BY <1>1, KeptAlways, PTL

\* Only the mail clicked last is put into the column: only the answer to the
\* newest opening opens a mail, and a click makes every earlier one an old one.
LEMMA OpensClicked == Kept /\ [Next]_vars => (open' # open /\ open' # None => open' = clicked)
<1> SUFFICES ASSUME Kept, [Next]_vars, open' # open, open' # None PROVE open' = clicked
  OBVIOUS
<1>1. ~User
  BY DEF User, ClickFolder, ShowFolders, FullText, OpenMsg, OpenConversation, ToggleCard,
         MarkThreadUnread, MoveAway, AskDelete, CloseReading, ClosePopup, CloseCompose,
         MarkUnread, Cancel, Confirm
<1>2. ~Listed /\ ~UNCHANGED vars
  BY DEF Listed, vars
<1>3. PICK c \in calls : ReadAnswers(c)
  BY <1>1, <1>2
     DEF Next, Move, Failure, Failing, Answers, DetailAnswers, DetailFails, AugmentAnswers, AugmentFails,
         ServerDoes, FlagAnswers, FlagFails, MoveAnswers, DeleteAnswers, DeleteFails, ReadFails
<1>4. open' = c.mail /\ c.op = "read" /\ c.newest
  BY <1>3 DEF ReadAnswers, IsLatest
<1> QED
  BY <1>4 DEF Kept, Column, CallsOK, CallOK

\* Only the mail the user clicked last is put into the column, however late the
\* answers of earlier clicks arrive.
THEOREM LatestOpenWinsSafe == Spec => LatestOpenWins
<1>1. Kept /\ [Next]_vars => [open' # open /\ open' # None => open' = clicked]_vars
  BY OpensClicked
<1> QED
  BY <1>1, KeptAlways, PTL DEF Spec, LatestOpenWins
=============================================================================
