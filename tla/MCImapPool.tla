----------------------------- MODULE MCImapPool -----------------------------
(* A small instance of ImapPool: one place, and an extra one for the user.   *)
EXTENDS ImapPool

CONSTANTS u1, b1, b2, c1, c2, c3, c4, inbox, other, s1, s2

OneUser == {u1}
TwoInBackground == {b1, b2}
FourConns == {c1, c2, c3, c4}
TwoFolders == {inbox, other}
TwoLogins == {s1, s2}
=============================================================================
