-------------------------- MODULE MCScheduledSend --------------------------
(* Small instances of ScheduledSend: two requests from two accounts.        *)
EXTENDS ScheduledSend, TLC

CONSTANTS m1, m2, a1, a2

MCTwoMails == {m1, m2}
MCAccounts == {a1, a2}
MCTwoAccountOf == (m1 :> a1) @@ (m2 :> a2)
=============================================================================
