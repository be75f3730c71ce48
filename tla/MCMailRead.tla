----------------------------- MODULE MCMailRead -----------------------------
(* An inbox with a conversation of two mails, their reply in the folder of     *)
(* sent mails, and there also a draft with the UID of the first mail.          *)
EXTENDS MailRead

CONSTANTS inbox, sent

TwoFolders == {inbox, sent}
HomeOf == [m \in Mails |-> IF m <= 2 THEN inbox ELSE sent]
UidOf == [m \in Mails |-> IF m <= 2 THEN m ELSE m - 2]
=============================================================================
