----------------------------- MODULE MCIdleWatch -----------------------------
(* Small instances of IdleWatch.                                            *)
EXTENDS IdleWatch

CONSTANTS a1, a2, t1, t2, t3

TwoAccounts == {a1, a2}
ThreeThreads == {t1, t2, t3}
=============================================================================
