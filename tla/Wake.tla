-------------------------------- MODULE Wake --------------------------------
(***************************************************************************)
(* What the coalescing of IDLE notifications promises, per account: a      *)
(* notification is owed a pass that begins after it, passes of one account *)
(* never overlap, and an owed pass begins in the end.  One pass may serve  *)
(* any number of notifications.                                            *)
(***************************************************************************)
CONSTANT Accounts

VARIABLES
  owed,   \* accounts notified since their last pass began
  busy    \* accounts a pass is running for

vars == <<owed, busy>>

Init == owed = {} /\ busy = {}

Notify(a) == owed' = owed \cup {a} /\ UNCHANGED busy

Begin(a) ==
  /\ a \notin busy
  /\ busy' = busy \cup {a}
  /\ owed' = owed \ {a}

End(a) == a \in busy /\ busy' = busy \ {a} /\ UNCHANGED owed

\* The pass that ends is followed by another one in the same step.
Again(a) == a \in busy /\ owed' = owed \ {a} /\ UNCHANGED busy

Next == \E a \in Accounts : Notify(a) \/ Begin(a) \/ End(a) \/ Again(a)

Spec == Init /\ [][Next]_vars

\* No account stays owed for ever.
FairSpec == Spec /\ \A a \in Accounts : (a \in owed) ~> (a \notin owed)
=============================================================================
