----------------------------- MODULE MCMailList -----------------------------
(* Two folders: the inbox with two mails on pages of one, and another with one. *)
EXTENDS MailList

CONSTANTS inbox, other, a, ab, none

TwoFolders == {inbox, other}
HomeOf == [m \in Mails |-> IF m = 1 THEN other ELSE inbox]
ThreeTexts == {none, a, ab}
=============================================================================
