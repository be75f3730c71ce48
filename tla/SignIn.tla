------------------------------- MODULE SignIn -------------------------------
(* Signing in and out of the web client (App.tsx, pages/Login.tsx), changing   *)
(* the password and the second factor (components/TotpSettings.tsx), with what *)
(* the server does (api/auth.py).  Tokens and secrets are numbers, each handed *)
(* out once; the browser keeps the session's in a cookie no script reads.      *)
EXTENDS ClientBase

Tokens == Nat \cup {None}
TotpDialogs == [on: {None, TRUE, FALSE}, setup: Tokens, codes: Tokens, busy: BOOLEAN]
ASSUME SignInAssumption == None \notin Nat \cup TotpDialogs

VARIABLES
    app,        \* what is shown, the dialog of the password, and who is busy
    login,      \* the login form: whether a first user is needed, the challenge
    totp,       \* the dialog of the second factor, or None
    device,     \* the user's authenticator: the secret it scanned last
    cookie,     \* the session's token, or None
    authCalls,  \* requests under way
    authServer, \* tokens that are good, the second factor, whether there are users
    overlap     \* history: two handlers that change the second factor or the
                \* sessions ran at the same time

signInVars == <<app, login, totp, device, cookie, authCalls, authServer, overlap>>

-----------------------------------------------------------------------------
(* Requests *)

\* cookie: as of sending.  Whatever changes sessions or secrets reads the user
\* first and writes later; stage says how far the server is with it.
AuthCall(op, arg) ==
    [op |-> op, arg |-> arg, cookie |-> cookie, mine |-> TRUE, stage |-> "sent", out |-> None]
SignInForms == {"password", "setup", "enable", "disable"}
AuthOps == SignInForms \cup {"me", "needsSetup", "first", "login", "code", "logout", "status"}
SendAuth(op, arg) == authCalls' = authCalls \cup {AuthCall(op, arg)}
Pending(op) == \E c \in authCalls : c.op = op
Abandoned(calls) ==
    {IF c.op \in {"status", "setup", "enable", "disable"} THEN [c EXCEPT !.mine = FALSE] ELSE c : c \in calls}

FreshTotp == [on |-> None, setup |-> None, codes |-> None, busy |-> FALSE]
LoginForm == [needsSetup |-> None, challenge |-> None]

\* loadMe: only the server can tell whether the cookie is good.
LoadMe(calls) ==
    /\ app' = [app EXCEPT !.shows = "loading", !.busy = FALSE]
    /\ authCalls' = calls \cup {AuthCall("me", None)}

-----------------------------------------------------------------------------
(* The login form *)

LoginShown == app.shows = "login" /\ login.needsSetup # None /\ ~app.busy /\ Room(authCalls)

\* With no user yet the first one is made.
Submit(right) ==
    /\ LoginShown /\ login.challenge = None
    /\ app' = [app EXCEPT !.busy = TRUE]
    /\ SendAuth(IF login.needsSetup THEN "first" ELSE "login", right)
    /\ UNCHANGED <<login, totp, device, cookie, authServer, overlap>>

\* The code is the authenticator's, or a mistyped one.
SubmitCode(right) ==
    /\ LoginShown /\ login.challenge # None
    /\ app' = [app EXCEPT !.busy = TRUE]
    /\ SendAuth("code", [challenge |-> login.challenge, of |-> IF right THEN device ELSE None])
    /\ UNCHANGED <<login, totp, device, cookie, authServer, overlap>>

\* Also while the code is on its way.
CancelMfa ==
    /\ app.shows = "login" /\ login.challenge # None
    /\ login' = [login EXCEPT !.challenge = None]
    /\ UNCHANGED <<app, totp, device, cookie, authCalls, authServer, overlap>>

-----------------------------------------------------------------------------
(* Signed in *)

InApp == app.shows = "app" /\ ~app.password /\ totp = None

SignOut ==
    /\ InApp /\ ~Pending("logout") /\ Room(authCalls)
    /\ SendAuth("logout", None)
    /\ UNCHANGED <<app, login, totp, device, cookie, authServer, overlap>>

OpenPassword ==
    /\ InApp /\ app' = [app EXCEPT !.password = TRUE]
    /\ UNCHANGED <<login, totp, device, cookie, authCalls, authServer, overlap>>

\* Either dialog closes at any time, whatever it has sent.
ClosePassword ==
    /\ app.shows = "app" /\ app.password /\ app' = [app EXCEPT !.password = FALSE]
    /\ UNCHANGED <<login, totp, device, cookie, authCalls, authServer, overlap>>

ChangePassword(right) ==
    /\ app.shows = "app" /\ app.password /\ ~Pending("password") /\ Room(authCalls)
    /\ SendAuth("password", right)
    /\ UNCHANGED <<app, login, totp, device, cookie, authServer, overlap>>

OpenTotp ==
    /\ InApp /\ totp' = FreshTotp /\ SendAuth("status", None)
    /\ UNCHANGED <<app, login, device, cookie, authServer, overlap>>

CloseTotp ==
    /\ totp # None /\ totp' = None /\ authCalls' = Abandoned(authCalls)
    /\ UNCHANGED <<app, login, device, cookie, authServer, overlap>>

TotpForm(op, arg) ==
    /\ ~totp.busy /\ Room(authCalls)
    /\ totp' = [totp EXCEPT !.busy = TRUE] /\ SendAuth(op, arg)
    /\ UNCHANGED <<app, login, device, cookie, authServer, overlap>>

StartSetup == totp # None /\ totp.on = FALSE /\ totp.setup = None /\ totp.codes = None
              /\ TotpForm("setup", None)
Enable(right) == totp # None /\ totp.setup # None
                 /\ TotpForm("enable", IF right THEN device ELSE None)
Disable(right) == totp # None /\ totp.on = TRUE /\ totp.codes = None /\ TotpForm("disable", right)

CancelSetup ==
    /\ totp # None /\ totp.setup # None /\ totp' = [totp EXCEPT !.setup = None]
    /\ UNCHANGED <<app, login, device, cookie, authCalls, authServer, overlap>>

\* The QR code on the screen is scanned.
Scan ==
    /\ totp # None /\ totp.setup \notin {None, device} /\ device' = totp.setup
    /\ UNCHANGED <<app, login, totp, cookie, authCalls, authServer, overlap>>

-----------------------------------------------------------------------------
(* The server *)

New == authServer.serial + 1
Becomes(c, stage, out) ==
    authCalls' = (authCalls \ {c}) \cup {[c EXCEPT !.stage = stage, !.out = out]}
Refused(c) == Becomes(c, "refused", None) /\ UNCHANGED authServer
\* revoke_all and a cookie of its own for who asked.
Revoking(c, changed, out) ==
    /\ Becomes(c, "done", out)
    /\ authServer' = [changed EXCEPT !.live = {New}, !.serial = New]

\* Mutant: a set-up begins though the second factor is on.
ReadUserUnasked(c) ==
    /\ c.op \in SignInForms /\ c.stage = "sent"
    /\ IF /\ c.cookie \in authServer.live
          /\ CASE c.op = "setup" -> TRUE
               [] c.op = "enable" -> ~authServer.enabled /\ authServer.secret # None
                                     /\ c.arg = authServer.secret
               [] OTHER -> c.arg
       THEN Becomes(c, "read", None) ELSE Becomes(c, "refused", None)
    /\ overlap' = (overlap \/ \E d \in authCalls : d.stage = "read")
    /\ UNCHANGED <<app, login, totp, device, cookie, authServer>>

\* The session, the password or the code are right for the user as read now.
ReadUser(c) ==
    /\ c.op \in SignInForms /\ c.stage = "sent"
    /\ IF /\ c.cookie \in authServer.live
          /\ CASE c.op = "setup" -> ~authServer.enabled
               [] c.op = "enable" -> ~authServer.enabled /\ authServer.secret # None
                                     /\ c.arg = authServer.secret
               [] OTHER -> c.arg
       THEN Becomes(c, "read", None) ELSE Becomes(c, "refused", None)
    /\ overlap' = (overlap \/ \E d \in authCalls : d.stage = "read")
    /\ UNCHANGED <<app, login, totp, device, cookie, authServer>>

WriteUser(c) ==
    /\ c.stage = "read"
    /\ CASE c.op = "password" -> Revoking(c, authServer, New)
         [] c.op = "setup" ->
              /\ authServer' = [authServer EXCEPT !.secret = New, !.serial = New]
              /\ Becomes(c, "done", New)
         [] c.op = "enable" -> Revoking(c, [authServer EXCEPT !.enabled = TRUE, !.codes = New], New)
         [] c.op = "disable" ->
              Revoking(c, [authServer EXCEPT !.enabled = FALSE, !.secret = None, !.codes = None], New)
    /\ UNCHANGED <<app, login, totp, device, cookie, overlap>>

\* A wrong code gives the challenge back; one used before uses it up as well.
ServerSignsIn(c) ==
    /\ c.op \in {"first", "login", "code", "logout"} /\ c.stage = "sent"
    /\ LET good == authServer.live
           Issue(live) == Becomes(c, "done", New)
                          /\ authServer' = [authServer EXCEPT !.live = live \cup {New}, !.serial = New, !.users = TRUE]
       IN  CASE c.op = "first" -> IF authServer.users THEN Refused(c) ELSE Issue({})
             [] c.op = "login" ->
                  IF ~c.arg \/ ~authServer.users THEN Refused(c)
                  ELSE IF authServer.enabled
                  THEN /\ Becomes(c, "challenged", New)
                       /\ authServer' = [authServer EXCEPT !.live = good \cup {New}, !.serial = New]
                  ELSE Issue(good)
             [] c.op = "code" ->
                  IF c.arg.challenge \notin good \/ ~authServer.enabled \/ c.arg.of # authServer.secret
                  THEN Refused(c)
                  ELSE \/ Issue(good \ {c.arg.challenge})
                       \/ /\ Becomes(c, "refused", None)
                          /\ authServer' = [authServer EXCEPT !.live = good \ {c.arg.challenge}]
             [] c.op = "logout" ->
                  /\ Becomes(c, "done", None)
                  /\ authServer' = [authServer EXCEPT !.live = good \ {c.cookie}]
    /\ overlap' = (overlap \/ \E d \in authCalls : d.stage = "read")
    /\ UNCHANGED <<app, login, totp, device, cookie>>

-----------------------------------------------------------------------------
(* Answers *)

\* 200: signed in; anything else: the login form.  A dialog left open is there
\* again, the one of the second factor anew.
MeAnswer(c) ==
    /\ c.op = "me"
    /\ LET in == c.cookie \in authServer.live IN
       /\ app' = [app EXCEPT !.shows = IF in THEN "app" ELSE "login"]
       /\ login' = IF in THEN login ELSE LoginForm
       /\ authCalls' = (authCalls \ {c}) \cup (IF in THEN {} ELSE {AuthCall("needsSetup", None)})
    /\ UNCHANGED <<totp, device, cookie, authServer, overlap>>

NeedsSetupAnswer(c) ==
    /\ c.op = "needsSetup"
    /\ login' = [login EXCEPT !.needsSetup = ~authServer.users] /\ authCalls' = authCalls \ {c}
    /\ UNCHANGED <<app, totp, device, cookie, authServer, overlap>>

LoginAnswer(c) ==
    /\ c.op \in {"first", "login", "code"} /\ c.stage # "sent"
    /\ CASE c.stage = "refused" ->
              app' = [app EXCEPT !.busy = FALSE] /\ authCalls' = authCalls \ {c} /\ UNCHANGED <<login, cookie>>
         [] c.stage = "challenged" ->
              /\ app' = [app EXCEPT !.busy = FALSE] /\ authCalls' = authCalls \ {c}
              /\ login' = [login EXCEPT !.challenge = c.out] /\ UNCHANGED cookie
         [] c.stage = "done" ->
              /\ cookie' = c.out /\ login' = [login EXCEPT !.challenge = None]
              /\ app' = [app EXCEPT !.shows = "loading", !.busy = FALSE]
              /\ authCalls' = (authCalls \ {c}) \cup {[AuthCall("me", None) EXCEPT !.cookie = c.out]}
    /\ UNCHANGED <<totp, device, authServer, overlap>>

LogoutAnswer(c) ==
    /\ c.op = "logout" /\ c.stage = "done" /\ cookie' = None
    /\ app' = [app EXCEPT !.shows = "login"] /\ login' = LoginForm
    /\ totp' = None
    /\ authCalls' = (Abandoned(authCalls) \ {c}) \cup {[AuthCall("needsSetup", None) EXCEPT !.cookie = None]}
    /\ UNCHANGED <<device, authServer, overlap>>

\* The cookie comes with the answer, the dialog may be gone.
FormAnswer(c) ==
    /\ c.op \in SignInForms /\ c.stage \in {"done", "refused"}
    /\ LET done == c.stage = "done"
           here == c.mine /\ c.op # "password"
           after == [totp EXCEPT !.busy = FALSE]
       IN  /\ cookie' = IF done /\ c.op # "setup" THEN c.out ELSE cookie
           /\ totp' = IF ~here THEN totp
                      ELSE IF ~done THEN after
                      ELSE CASE c.op = "setup" -> [after EXCEPT !.setup = c.out]
                             [] c.op = "enable" -> [after EXCEPT !.setup = None, !.codes = c.out]
                             [] c.op = "disable" -> after
           /\ authCalls' = (authCalls \ {c}) \cup
                 (IF here /\ done /\ c.op # "setup"
                  THEN {[AuthCall("status", None) EXCEPT !.cookie = c.out]} ELSE {})
    /\ UNCHANGED <<app, login, device, authServer, overlap>>

StatusAnswer(c) ==
    /\ c.op = "status" /\ authCalls' = authCalls \ {c}
    /\ totp' = IF c.mine /\ c.cookie \in authServer.live
               THEN [totp EXCEPT !.on = authServer.enabled] ELSE totp
    /\ UNCHANGED <<app, login, device, cookie, authServer, overlap>>

\* No answer, whether or not the server did it.
AuthFails(c) ==
    /\ c.stage # "read"
    /\ authCalls' = (authCalls \ {c}) \cup (IF c.op = "me" THEN {AuthCall("needsSetup", None)} ELSE {})
    /\ app' = CASE c.op = "me" -> [app EXCEPT !.shows = "login"]
                [] c.op \in {"first", "login", "code"} -> [app EXCEPT !.busy = FALSE]
                [] OTHER -> app
    /\ login' = CASE c.op = "me" -> LoginForm
                  [] c.op = "needsSetup" -> [login EXCEPT !.needsSetup = FALSE]
                  [] OTHER -> login
    /\ totp' = IF c.op \in {"setup", "enable", "disable"} /\ c.mine
               THEN [totp EXCEPT !.busy = FALSE] ELSE totp
    /\ UNCHANGED <<device, cookie, authServer, overlap>>

-----------------------------------------------------------------------------
SignInInit ==
    /\ app = [shows |-> "loading", busy |-> FALSE, password |-> FALSE]
    /\ login = LoginForm /\ totp = None /\ overlap = FALSE
    /\ \E users \in Beginning("signin", {"none", "plain", "totp"}) :
          /\ authServer = [live |-> IF users = "plain" THEN {1} ELSE {}, serial |-> 2,
                           enabled |-> users = "totp", users |-> users # "none", codes |-> None,
                           secret |-> IF users = "totp" THEN 2 ELSE None]
          /\ device = IF users = "totp" THEN 2 ELSE None
          /\ cookie = IF users = "plain" THEN 1 ELSE None
    /\ authCalls = {AuthCall("me", None)}

SignInUser ==
    \/ \E right \in BOOLEAN : Submit(right) \/ SubmitCode(right) \/ ChangePassword(right)
                              \/ Enable(right) \/ Disable(right)
    \/ CancelMfa \/ SignOut \/ OpenPassword \/ OpenTotp \/ StartSetup
\* Closing a dialog and scanning its code: part of the move that opened it.
SignInPopup == ClosePassword \/ CloseTotp \/ CancelSetup \/ Scan

SignInNext ==
    \/ ByUser(SignInUser)
    \/ ByFault(\E c \in authCalls : AuthFails(c))
    \/ ByItself(SignInPopup \/ \E c \in authCalls :
          \/ ReadUser(c) \/ WriteUser(c) \/ ServerSignsIn(c) \/ MeAnswer(c) \/ NeedsSetupAnswer(c)
          \/ LoginAnswer(c) \/ LogoutAnswer(c) \/ FormAnswer(c) \/ StatusAnswer(c))

-----------------------------------------------------------------------------
(* Properties *)

SignInTypeOK ==
    /\ app \in [shows: {"loading", "login", "app"}, busy: BOOLEAN, password: BOOLEAN]
    /\ login \in [needsSetup: {None, TRUE, FALSE}, challenge: Tokens]
    /\ totp \in TotpDialogs \cup {None} /\ (totp # None => app.shows = "app")
    /\ {device, cookie} \subseteq Tokens /\ overlap \in BOOLEAN
    /\ authServer \in [live: SUBSET Nat, serial: Nat, enabled: BOOLEAN, users: BOOLEAN,
                       codes: Tokens, secret: Tokens]
    /\ authServer.live \subseteq 1..authServer.serial
    /\ \A c \in authCalls : c \in [op: AuthOps, arg: {c.arg}, cookie: Tokens, mine: BOOLEAN,
          stage: {"sent", "read", "done", "refused", "challenged"}, out: Tokens]

\* Nobody is locked out: a second factor the server asks for is the one the
\* user's authenticator has, however often the set-up was begun, cancelled, or
\* its dialog closed with requests under way.  (Unless two handlers overlap.)
AuthenticatorFits == authServer.enabled /\ ~overlap => device = authServer.secret
=============================================================================
