---------------------------- MODULE DialogQueue -----------------------------
(* The confirmations and prompts of the web client (lib/dialog.tsx): anything  *)
(* may ask at any time, one question is on the screen, each is answered once.  *)
EXTENDS Naturals, Sequences

CONSTANTS
    Askers,     \* who asks, with what is done after the answer
    Replies,    \* what can be answered
    No,         \* the reply given to everybody when the host goes away
    Nobody

ASSUME DialogAssumption == No \in Replies /\ Nobody \notin [id: Nat, who: Askers]

VARIABLES
    host,       \* DialogHost is mounted
    sequence,   \* the number of the last question
    pending,    \* the questions not answered yet
    active,     \* the one to be shown
    screen,     \* the one rendered: its buttons hold it until the next rendering
    answers     \* history: the replies by the number of their question

dialogVars == <<host, sequence, pending, active, screen, answers>>

Questions == [id: Nat, who: Askers]
First(queue) == IF queue = <<>> THEN Nobody ELSE Head(queue)

MountHost ==
    /\ ~host /\ host' = TRUE /\ UNCHANGED <<sequence, pending, active, screen, answers>>

\* Everybody still waiting is told no.  (A new host counts from one again; the
\* numbers go on here, two hosts never meet.)
UnmountHost ==
    /\ host /\ host' = FALSE
    /\ pending' = <<>> /\ active' = Nobody /\ screen' = Nobody
    /\ answers' = answers \cup {[id |-> pending[i].id, reply |-> No] : i \in DOMAIN pending}
    /\ UNCHANGED sequence

Ask(who) ==
    /\ host /\ sequence' = sequence + 1
    /\ pending' = Append(pending, [id |-> sequence + 1, who |-> who])
    /\ active' = IF pending = <<>> THEN [id |-> sequence + 1, who |-> who] ELSE active
    /\ UNCHANGED <<host, screen, answers>>

Render == screen # active /\ screen' = active
          /\ UNCHANGED <<host, sequence, pending, active, answers>>

\* done: a second click on the same dialog finds another question at the head.
Answered == screen # Nobody /\ pending # <<>> /\ Head(pending).id = screen.id
\* Mutant: a late click is taken for an answer.
DoneUnchecked(reply) ==
    /\ screen # Nobody
    /\ pending' = IF pending = <<>> THEN <<>> ELSE Tail(pending)
    /\ active' = First(pending')
    /\ answers' = answers \cup {[id |-> screen.id, reply |-> reply]}
    /\ UNCHANGED <<host, sequence, screen>>
Done(reply) ==
    /\ screen # Nobody
    /\ IF Answered
       THEN /\ pending' = Tail(pending) /\ active' = First(Tail(pending))
            /\ answers' = answers \cup {[id |-> screen.id, reply |-> reply]}
       ELSE UNCHANGED <<pending, active, answers>>
    /\ UNCHANGED <<host, sequence, screen>>

DialogInit ==
    /\ host = TRUE /\ sequence = 0 /\ pending = <<>> /\ active = Nobody
    /\ screen = Nobody /\ answers = {}

DialogNext ==
    \/ MountHost \/ UnmountHost \/ Render
    \/ \E who \in Askers : Ask(who)
    \/ \E reply \in Replies : Done(reply)

DialogSpec == DialogInit /\ [][DialogNext]_dialogVars

-----------------------------------------------------------------------------
DialogTypeOK ==
    /\ host \in BOOLEAN /\ sequence \in Nat
    /\ pending \in Seq(Questions)
    /\ active \in Questions \cup {Nobody} /\ screen \in Questions \cup {Nobody}
    /\ answers \subseteq [id: Nat, reply: Replies]

\* Who waits for an answer is at the screen or behind the question that is:
\* nobody waits with no dialog to be answered (DialogHost's pending and active).
WaitingIsShown == active = First(pending)

\* A question gets one answer and is then gone from the queue, however often and
\* however late its buttons are clicked.
AnsweredOnce ==
    \A a \in answers :
        /\ \A b \in answers : a.id = b.id => a.reply = b.reply
        /\ \A i \in DOMAIN pending : pending[i].id # a.id
=============================================================================
