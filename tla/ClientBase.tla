----------------------------- MODULE ClientBase -----------------------------
(* What the models of the web client's pages have in common.  A behaviour      *)
(* follows one page: pages share nothing but the server.  The user makes a     *)
(* bounded number of moves and a bounded number of requests fail; answers are  *)
(* not bounded.                                                                *)
EXTENDS Naturals, Sequences, FiniteSets

CONSTANTS
    Pages,          \* the pages followed
    MaxMoves,       \* MaxMoves[p]: moves of the user on page p
    MaxFailures,    \* requests that fail or get lost
    MaxCalls,       \* requests under way before the user waits for an answer
    None

ASSUME BaseAssumption == MaxMoves \in [Pages -> Nat] /\ {MaxFailures, MaxCalls} \subseteq Nat

VARIABLES page, moves, failures

baseVars == <<page, moves, failures>>

Room(calls) == Cardinality(calls) < MaxCalls

\* The states page p may start in; while another page is followed, one of them.
Beginning(p, states) == IF page = p THEN states ELSE {CHOOSE s \in states : TRUE}

\* A list in which x is at most once, without x.
Without(list, x) ==
    IF \E i \in DOMAIN list : list[i] = x
    THEN LET at == CHOOSE i \in DOMAIN list : list[i] = x
         IN  SubSeq(list, 1, at - 1) \o SubSeq(list, at + 1, Len(list))
    ELSE list

BaseInit == page \in Pages /\ moves = 0 /\ failures = 0

ByUser(Action) ==
    /\ moves < MaxMoves[page] /\ moves' = moves + 1 /\ Action
    /\ UNCHANGED <<page, failures>>

ByFault(Action) ==
    /\ failures < MaxFailures /\ failures' = failures + 1 /\ Action
    /\ UNCHANGED <<page, moves>>

\* An answer, a timer, the server.
ByItself(Action) == Action /\ UNCHANGED baseVars
=============================================================================
