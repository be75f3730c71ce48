------------------------------ MODULE SendOnce ------------------------------
(***************************************************************************)
(* What scheduled sending promises, without rows, keys, claims or crashes: *)
(* a parked mail is either withdrawn or handed to SMTP, never both, and    *)
(* handed to SMTP at most once.                                            *)
(***************************************************************************)
EXTENDS Naturals

CONSTANT Mails          \* the requests to send later

VARIABLES fate,         \* what the user knows of each request
          tries         \* how often SMTP was entered for it

promise == <<fate, tries>>

Init == /\ fate = [m \in Mails |-> "unknown"]
        /\ tries = [m \in Mails |-> 0]

Park(m) == /\ fate[m] = "unknown"
           /\ fate' = [fate EXCEPT ![m] = "parked"]
           /\ UNCHANGED tries

Withdraw(m) == /\ fate[m] = "parked"
               /\ tries[m] = 0
               /\ fate' = [fate EXCEPT ![m] = "withdrawn"]
               /\ UNCHANGED tries

Try(m) == /\ fate[m] = "parked"
          /\ tries[m] = 0
          /\ tries' = [tries EXCEPT ![m] = 1]
          /\ UNCHANGED fate

Next == \E m \in Mails : Park(m) \/ Withdraw(m) \/ Try(m)

Spec == Init /\ [][Next]_promise
=============================================================================
