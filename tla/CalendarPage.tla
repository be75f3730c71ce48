---------------------------- MODULE CalendarPage ----------------------------
(* The calendar of the web client (pages/Calendar.tsx): events stored in UTC   *)
(* and shown in local days, the form that creates, edits and moves them        *)
(* between calendars, tasks, and the lists loaded again after every change.    *)
EXTENDS Integers, FiniteSets, ClientBase

CONSTANTS
    Hours,          \* of a day
    Zone,           \* local time is Zone hours ahead of UTC
    Today, LastDay, \* the local days are 0..LastDay
    MonthDays,
    MaxSpan,        \* MAX_SPAN_DAYS
    Calendars,      \* the calendars at Google, beside "local" and "foreign" (CalDAV)
    Writable,
    FirstEvents     \* the event there may be at the start

ASSUME CalendarAssumption ==
    /\ {Hours, Today, LastDay, MonthDays, MaxSpan} \subseteq Nat /\ Zone \in Int
    /\ Hours > 1 /\ MonthDays > 0 /\ MaxSpan > 0
    /\ IsFiniteSet(Calendars) /\ Writable \subseteq Calendars
    /\ {"local", "foreign", "keep"} \cap Calendars = {}

\* Times are hours of UTC.  Events of whole days begin and end at midnight UTC.
CalEvents ==
    {ev \in [id : Nat, start : Int, end : Int, allDay : BOOLEAN, cal : Calendars \cup {"local", "foreign"}] :
        ev.allDay => ev.start % Hours = 0 /\ ev.end % Hours = 0}

\* A day and an hour of it, or the day alone; the form of an event.
Stamps == [day : Int, hour : (0..Hours - 1) \cup {None}]
CalForms == [seen : CalEvents \cup {None}, start : Stamps, end : Stamps, allDay : BOOLEAN,
             target : Calendars \cup {"local", "foreign"}, initial : Calendars \cup {"local", "foreign"},
             retarget : BOOLEAN, edited : BOOLEAN]

ASSUME EventAssumption ==
    /\ FirstEvents \subseteq CalEvents /\ FirstEvents # {}
    /\ None \notin CalEvents \cup CalForms \cup Int

VARIABLES
    calView,        \* mode, month and selected day, calendars hidden, the day popup
    detail,         \* the event in its dialog, or None
    calForm,        \* the form, or None
    calBusy,
    calLists,       \* events, tasks, calendars by account as loaded
    calCalls,       \* requests under way
    calServer       \* events, tasks, calendars hidden

calVars == <<calView, detail, calForm, calBusy, calLists, calCalls, calServer>>

-----------------------------------------------------------------------------
(* Days *)

Local(t) == t + Zone
LocalDay(t) == Local(t) \div Hours
Stamp(day, hour) == [day |-> day, hour |-> hour]
DateOnly(s) == Stamp(s.day, None)

\* An event of whole days is stored from midnight to midnight UTC of its first and
\* last day; an event that ends at local midnight is not on the day that begins.
SpanDays(ev) ==
    LET first == IF ev.allDay THEN ev.start \div Hours ELSE LocalDay(ev.start)
        last == IF ev.allDay THEN ev.end \div Hours
                ELSE IF Local(ev.end) % Hours = 0 /\ ev.end > ev.start
                THEN LocalDay(ev.end - 1) ELSE LocalDay(ev.end)
        days == {d \in first..last : d - first < MaxSpan}
    IN  IF days = {} THEN {LocalDay(ev.start)} ELSE days

Shown == {ev \in calLists.events : ev.cal \notin calView.hidden}
MonthOf(d) == d \div MonthDays
MonthAgenda ==
    {ev \in Shown : \E d \in SpanDays(ev) :
        /\ MonthOf(d) = calView.month
        /\ \A c \in SpanDays(ev) : MonthOf(c) = calView.month => d <= c
        /\ calView.month = MonthOf(Today) => d >= Today}
Grid == {ev \in Shown : \E d \in SpanDays(ev) : MonthOf(d) = calView.month}
AgendaList == {ev \in Shown : Local(ev.start) >= Today * Hours}

Clickable == IF calView.mode = "month" THEN Grid \cup MonthAgenda
             ELSE IF calView.mode = "agenda" THEN AgendaList \cup MonthAgenda ELSE {}
Modeless == detail = None /\ calForm = None /\ calView.popup = None

-----------------------------------------------------------------------------
(* Looking *)

Look(v) == calView' = v
           /\ UNCHANGED <<detail, calForm, calBusy, calLists, calCalls, calServer>>
SetMode(m) == Modeless /\ m # calView.mode /\ Look([calView EXCEPT !.mode = m])
\* The day selected is forgotten: the button for a new event would use it unseen.
Shift(delta) ==
    /\ Modeless /\ calView.month + delta \in MonthOf(0)..MonthOf(LastDay)
    /\ Look([calView EXCEPT !.month = @ + delta, !.day = None])
GoToday == Modeless /\ Look([calView EXCEPT !.month = MonthOf(Today), !.day = None])
SelectDay(d) ==
    /\ Modeless /\ calView.mode = "month" /\ MonthOf(d) = calView.month
    /\ Look([calView EXCEPT !.day = d, !.popup = d])
ClosePopup == calView.popup # None /\ calForm = None /\ Look([calView EXCEPT !.popup = None])

OpenDetail(ev) ==
    /\ Modeless /\ ev \in Clickable /\ detail' = ev
    /\ UNCHANGED <<calView, calForm, calBusy, calLists, calCalls, calServer>>
CloseDetail ==
    /\ detail # None /\ ~calBusy /\ calForm = None /\ detail' = None
    /\ UNCHANGED <<calView, calForm, calBusy, calLists, calCalls, calServer>>

-----------------------------------------------------------------------------
(* The form *)

\* Any writable calendar: the one chosen as default, the primary one, the first.
DefaultTargets ==
    IF calLists.cals \cap Writable = {} THEN {"local"}
    ELSE {"local"} \cup (calLists.cals \cap Writable)

OpenForm(f) ==
    /\ calForm' = f /\ detail' = None /\ calView' = [calView EXCEPT !.popup = None]
    /\ UNCHANGED <<calBusy, calLists, calCalls, calServer>>

\* From nine to ten on the day of the popup, the day selected, or today.
OpenCreate ==
    /\ detail = None /\ calForm = None /\ calView.mode # "tasks"
    /\ LET day == IF calView.day = None THEN Today ELSE calView.day
       IN  \E target \in DefaultTargets :
             OpenForm([seen |-> None, start |-> Stamp(day, 0), end |-> Stamp(day, 1),
                       allDay |-> FALSE, target |-> target, initial |-> target,
                       retarget |-> TRUE, edited |-> FALSE])

\* Also while a deletion runs.
OpenEdit(ev) ==
    /\ calForm = None
    /\ ev = detail \/ (calView.popup # None /\ ev \in Shown /\ calView.popup \in SpanDays(ev))
    /\ LET Field(t) == IF ev.allDay THEN Stamp(t \div Hours, None)
                       ELSE Stamp(LocalDay(t), Local(t) % Hours)
       IN  OpenForm([seen |-> ev, start |-> Field(ev.start), end |-> Field(ev.end),
                     allDay |-> ev.allDay, target |-> ev.cal, initial |-> ev.cal,
                     retarget |-> ev.cal # "foreign", edited |-> FALSE])

Edited(f) ==
    /\ calForm # None
    /\ calForm' = [f EXCEPT !.edited = TRUE]
    /\ UNCHANGED <<calView, detail, calBusy, calLists, calCalls, calServer>>
Timed(s, hour) == IF s.hour = None THEN Stamp(s.day, hour) ELSE s
ToggleAllDay ==
    Edited(IF calForm.allDay
           THEN [calForm EXCEPT !.allDay = FALSE, !.start = Timed(@, 0), !.end = Timed(@, 1)]
           ELSE [calForm EXCEPT !.allDay = TRUE, !.start = DateOnly(@), !.end = DateOnly(@)])
SetEnd(d) == Edited([calForm EXCEPT !.end.day = d])
SetTarget(c) ==
    /\ calForm # None /\ calForm.retarget /\ calLists.cals # {}
    /\ c \in {"local"} \cup (calLists.cals \cap Writable) /\ c # calForm.target
    /\ Edited([calForm EXCEPT !.target = c])

CloseForm ==
    /\ calForm # None /\ ~calBusy /\ calForm' = None
    /\ UNCHANGED <<calView, detail, calBusy, calLists, calCalls, calServer>>

Before(s, t) == s.day < t.day \/ (s.day = t.day /\ s.hour # None /\ s.hour < t.hour)
\* Mutant: dates without a time are shifted by the zone as well.
ShiftedUtc(s) == s.day * Hours + (IF s.hour = None THEN 0 ELSE s.hour) - Zone
Utc(s) == IF s.hour = None THEN s.day * Hours ELSE s.day * Hours + s.hour - Zone
KeepCal == "keep"
Call(op, payload, seen, edited) ==
    [op |-> op, payload |-> payload, seen |-> seen, edited |-> edited,
     stage |-> "sent", got |-> None]

\* The calendar is sent only if it was changed.
Add ==
    /\ calForm # None /\ ~calBusy /\ ~Before(calForm.end, calForm.start)
    /\ calBusy' = TRUE
    /\ LET moved == calForm.seen = None \/ (calForm.retarget /\ calForm.target # calForm.initial)
           payload == [start |-> Utc(calForm.start), end |-> Utc(calForm.end),
                       allDay |-> calForm.allDay,
                       cal |-> IF moved THEN calForm.target ELSE KeepCal]
       IN  calCalls' = calCalls \cup {Call("save", payload, calForm.seen, calForm.edited)}
    /\ UNCHANGED <<calView, detail, calForm, calLists, calServer>>

RemoveEvent ==
    /\ detail # None /\ ~calBusy /\ calForm = None /\ calBusy' = TRUE
    /\ calCalls' = calCalls \cup {Call("remove", None, detail, FALSE)}
    /\ UNCHANGED <<calView, detail, calForm, calLists, calServer>>

\* Tasks go without a busy mark; the box sends the opposite of what it shows.
TaskCall(op, payload) ==
    /\ Modeless /\ calView.mode = "tasks"
    /\ calCalls' = calCalls \cup {Call(op, payload, None, FALSE)}
    /\ UNCHANGED <<calView, detail, calForm, calBusy, calLists, calServer>>
AddTask == TaskCall("addTask", None)
ToggleTask == calLists.task # "none" /\ TaskCall("setTask", IF calLists.task = "done" THEN "open" ELSE "done")
RemoveTask == calLists.task # "none" /\ TaskCall("setTask", "none")

-----------------------------------------------------------------------------
(* The server and its answers *)

NewId(evs) == CHOOSE i \in 1..Cardinality(evs) + 1 : \A ev \in evs : ev.id # i
Saved(c) ==
    LET cal == IF c.payload.cal = KeepCal THEN c.seen.cal ELSE c.payload.cal
        at(id) == [id |-> id, start |-> c.payload.start, end |-> c.payload.end,
                   allDay |-> c.payload.allDay, cal |-> cal]
    IN  IF c.seen = None THEN calServer.events \cup {at(NewId(calServer.events))}
        ELSE {ev \in calServer.events : ev.id # c.seen.id} \cup {at(c.seen.id)}

\* An event that is gone refuses to be edited, deleting it again is an error too.
Exists(c) == c.seen = None \/ \E ev \in calServer.events : ev.id = c.seen.id
CalServerDoes(c) ==
    /\ c.stage = "sent"
    /\ calCalls' = (calCalls \ {c}) \cup
          {IF c.op = "load" THEN [c EXCEPT !.stage = "lists", !.got = calServer]
           ELSE [c EXCEPT !.stage = IF Exists(c) THEN "done" ELSE "refused"]}
    /\ calServer' = CASE ~Exists(c) \/ c.op = "load" -> calServer
                      [] Exists(c) /\ c.op = "save" -> [calServer EXCEPT !.events = Saved(c)]
                      [] Exists(c) /\ c.op = "remove" ->
                           [calServer EXCEPT !.events = {ev \in @ : ev.id # c.seen.id}]
                      [] c.op = "addTask" -> [calServer EXCEPT !.task = "open"]
                      [] c.op = "setTask" -> [calServer EXCEPT !.task = c.payload]
    /\ UNCHANGED <<calView, detail, calForm, calBusy, calLists>>

\* Every success loads all the lists again; the loads are not put in order.
LoadCall == Call("load", None, None, FALSE)
CalAnswers(c) ==
    /\ c.stage \in {"done", "refused"} /\ c.op # "load"
    /\ calCalls' = (calCalls \ {c}) \cup (IF c.stage = "done" THEN {LoadCall} ELSE {})
    /\ calBusy' = IF c.op \in {"save", "remove"} THEN FALSE ELSE calBusy
    /\ calForm' = IF c.op = "save" /\ c.stage = "done" THEN None ELSE calForm
    /\ detail' = IF c.op = "remove" /\ c.stage = "done" THEN None ELSE detail
    /\ UNCHANGED <<calView, calLists, calServer>>

\* load, step by step: events and tasks, then the calendars of each account (none
\* of one that fails), then which are hidden.
Loaded(c) ==
    /\ c.op = "load" /\ c.stage \in {"lists", "calendars", "hidden"}
    /\ calCalls' = (calCalls \ {c}) \cup
          (CASE c.stage = "lists" -> {[c EXCEPT !.stage = "calendars"]}
             [] c.stage = "calendars" -> {[c EXCEPT !.stage = "hidden"]}
             [] c.stage = "hidden" -> {})
    /\ calLists' = CASE c.stage = "lists" -> [calLists EXCEPT !.events = c.got.events, !.task = c.got.task]
                     [] c.stage = "calendars" -> [calLists EXCEPT !.cals = Calendars]
                     [] c.stage = "hidden" -> calLists
    /\ calView' = IF c.stage = "hidden" THEN [calView EXCEPT !.hidden = c.got.hidden] ELSE calView
    /\ UNCHANGED <<detail, calForm, calBusy, calServer>>

\* The form stays with its content and the message.
CalFails(c) ==
    /\ calCalls' = calCalls \ {c}
    /\ calBusy' = IF c.op \in {"save", "remove"} THEN FALSE ELSE calBusy
    /\ calLists' = IF c.stage = "calendars" THEN [calLists EXCEPT !.cals = {}] ELSE calLists
    /\ UNCHANGED <<calView, detail, calForm, calServer>>

-----------------------------------------------------------------------------
CalInit ==
    /\ calView = [mode |-> "month", month |-> MonthOf(Today), day |-> None, popup |-> None, hidden |-> {}]
    /\ detail = None /\ calForm = None /\ calBusy = FALSE /\ calCalls = {LoadCall}
    /\ calLists = [events |-> {}, task |-> "none", cals |-> {}]
    /\ calServer \in Beginning("calendar",
          [events : {{ev} : ev \in FirstEvents}, task : {"none"}, hidden : SUBSET {"local"}])

CalUser ==
    \/ \E m \in {"month", "agenda", "tasks"} : SetMode(m)
    \/ \E delta \in {-1, 1} : Shift(delta)
    \/ GoToday \/ ClosePopup \/ CloseDetail \/ OpenCreate \/ CloseForm \/ ToggleAllDay
    \/ \E d \in 0..LastDay : SelectDay(d) \/ SetEnd(d)
    \/ \E ev \in calLists.events : OpenDetail(ev) \/ OpenEdit(ev)
    \/ \E c \in Calendars \cup {"local"} : SetTarget(c)
    \/ Add \/ RemoveEvent \/ AddTask \/ ToggleTask \/ RemoveTask

CalNext ==
    \/ ByUser(CalUser)
    \/ ByFault(\E c \in calCalls : CalFails(c))
    \/ ByItself(\E c \in calCalls : CalServerDoes(c) \/ CalAnswers(c) \/ Loaded(c))

-----------------------------------------------------------------------------
(* Properties *)

CalViews == [mode : {"month", "agenda", "tasks"}, month : Int, day : 0..LastDay \cup {None},
             popup : 0..LastDay \cup {None}, hidden : SUBSET {"local"}]
CalTasks == {"none", "open", "done"}
CalServers == [events : SUBSET CalEvents, task : CalTasks, hidden : SUBSET {"local"}]
CalPayloads ==
    {p \in [start : Int, end : Int, allDay : BOOLEAN, cal : Calendars \cup {"local", "foreign", KeepCal}] :
        p.allDay => p.start % Hours = 0 /\ p.end % Hours = 0}
CalOps == {"save", "remove", "addTask", "setTask", "load"}
CalCallOK(c) ==
    /\ c \in [op : CalOps, payload : {c.payload}, seen : CalEvents \cup {None}, edited : BOOLEAN,
              stage : {"sent", "done", "refused", "lists", "calendars", "hidden"},
              got : CalServers \cup {None}]
    /\ c.op = "save" =>
          c.payload \in CalPayloads /\ (c.payload.cal = KeepCal => c.seen # None)
    /\ c.op = "setTask" => c.payload \in CalTasks
    /\ c.op \in {"addTask", "setTask"} => c.seen = None
    /\ c.stage \in {"lists", "calendars", "hidden"} => c.got \in CalServers

CalTypeOK ==
    /\ calView \in CalViews /\ calBusy \in BOOLEAN
    /\ detail \in CalEvents \cup {None} /\ calForm \in CalForms \cup {None}
    /\ calLists \in [events : SUBSET CalEvents, task : CalTasks, cals : SUBSET Calendars]
    /\ calServer \in CalServers /\ IsFiniteSet(calServer.events) /\ \A c \in calCalls : CalCallOK(c)

\* Opening an event and saving it without a change to its dates or calendar asks
\* the server for the times it had, whatever the time zone, and for no move, and
\* what is created goes to a calendar that can be written.
SavedAsShown ==
    \A c \in calCalls : c.op = "save" =>
        /\ c.payload.cal \in Writable \cup {"local", KeepCal}
        /\ c.seen # None /\ ~c.edited =>
              c.payload = [start |-> c.seen.start, end |-> c.seen.end,
                           allDay |-> c.seen.allDay, cal |-> KeepCal]

\* An event is on exactly the local days it has an hour of (or the one it starts
\* on), an event of whole days on the days it names, however the zone lies; of a long
\* one these are the first MaxSpan days.
OnItsDays ==
    \A ev \in Shown : ev.end >= ev.start =>
        LET days == IF ev.allDay THEN (ev.start \div Hours)..(ev.end \div Hours)
                    ELSE {LocalDay(h) : h \in ev.start..(IF ev.end > ev.start THEN ev.end - 1 ELSE ev.end)}
        IN  SpanDays(ev) = {d \in days : Cardinality({e \in days : e < d}) < MaxSpan}
=============================================================================
