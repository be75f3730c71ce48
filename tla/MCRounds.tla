------------------------------ MODULE MCRounds ------------------------------
(* A small account: the first mails reach the inbox, the last another folder. *)
EXTENDS Rounds

CONSTANTS inbox, spam

TwoFolders == {inbox, spam}
FirstToInbox == [m \in Mails |-> IF m = 1 \/ m < Cardinality(Mails) THEN inbox ELSE spam]
=============================================================================
