----------------------------- MODULE RulesPage ------------------------------
(* The filter rules of an account in the web client (pages/Rules.tsx): every   *)
(* answer is compared with the account chosen since (accountEpoch) and, for    *)
(* the list, with the lists asked for since (rulesRequest); one write at a     *)
(* time (writing), except that choosing an account forgets the one under way.  *)
EXTENDS ClientBase

CONSTANTS
    RuleAccounts, FirstRuleAccount, RuleTexts,
    MaxRules        \* bound: rules ever created

ASSUME RulesAssumption ==
    /\ FirstRuleAccount \in RuleAccounts /\ None \notin RuleAccounts /\ RuleTexts # {}
    /\ MaxRules \in Nat

VARIABLES
    rulesView,  \* account, rules and folders shown, form, rule edited, loading, writing
    ruleCalls,  \* requests under way
    ruleServer, \* the rules there are and the next number
    ruleDoubt   \* history: an account was left during a write, or a request failed

rulesVars == <<rulesView, ruleCalls, ruleServer, ruleDoubt>>

-----------------------------------------------------------------------------
\* mine: no account chosen since; newest: no list asked for since.
RuleCall(op, acc, rule) ==
    [op |-> op, acc |-> acc, rule |-> rule, mine |-> TRUE, newest |-> TRUE, stage |-> "sent", got |-> {}]
RuleWrites == {"create", "change", "delete", "apply"}
Superseded(calls) == {[c EXCEPT !.newest = FALSE] : c \in calls}

\* chooseAccount and the effect it triggers.
RulesOf(a, calls) ==
    /\ rulesView' = [acc |-> a, rows |-> {}, folders |-> None, text |-> None, edited |-> None,
                     loading |-> TRUE, writing |-> FALSE]
    /\ ruleCalls' = {[c EXCEPT !.mine = FALSE] : c \in Superseded(calls)}
                       \cup {RuleCall("list", a, None), RuleCall("folders", a, None)}

ChooseRuleAccount(a) ==
    /\ rulesView.acc \notin {None, a} /\ RulesOf(a, ruleCalls)
    /\ ruleDoubt' = (ruleDoubt \/ \E c \in ruleCalls : c.op \in RuleWrites)
    /\ UNCHANGED ruleServer

RulesIdle == rulesView.acc # None /\ ~rulesView.writing /\ ~rulesView.loading
TypeRule(x) ==
    /\ RulesIdle /\ rulesView.text # x /\ rulesView' = [rulesView EXCEPT !.text = x]
    /\ UNCHANGED <<ruleCalls, ruleServer, ruleDoubt>>
StartRuleEdit(r) ==
    /\ RulesIdle /\ rulesView.edited # r
    /\ rulesView' = [rulesView EXCEPT !.edited = r, !.text = r.text]
    /\ UNCHANGED <<ruleCalls, ruleServer, ruleDoubt>>
NoRuleEdit(view) == [view EXCEPT !.edited = None, !.text = None]
CancelRuleEdit ==
    /\ RulesIdle /\ rulesView.edited # None /\ rulesView' = NoRuleEdit(rulesView)
    /\ UNCHANGED <<ruleCalls, ruleServer, ruleDoubt>>

WriteRule(op, rule) ==
    /\ RulesIdle /\ rulesView' = [rulesView EXCEPT !.writing = TRUE]
    /\ ruleCalls' = ruleCalls \cup {RuleCall(op, rulesView.acc, rule)}
    /\ UNCHANGED <<ruleServer, ruleDoubt>>
\* Without a text or without anything to do it is refused on the page.
SubmitRule ==
    /\ rulesView.text # None
    /\ IF rulesView.edited # None
       THEN WriteRule("change", [rulesView.edited EXCEPT !.text = rulesView.text])
       ELSE WriteRule("create", [id |-> 0, acc |-> rulesView.acc, text |-> rulesView.text])
RemoveRule(r) == WriteRule("delete", r)
ApplyRulesNow == WriteRule("apply", None)

-----------------------------------------------------------------------------
(* The server and its answers *)

SameRule(r) == {s \in ruleServer.rules : s.id = r.id /\ s.acc = r.acc}
RuleServerDoes(c) ==
    /\ c.stage = "sent" /\ c.op # "accounts"
    /\ c.op = "change" => SameRule(c.rule) # {}
    /\ ruleServer' =
          CASE c.op = "create" -> [next |-> ruleServer.next + 1,
                   rules |-> ruleServer.rules \cup {[c.rule EXCEPT !.id = ruleServer.next]}]
            [] c.op = "change" -> [ruleServer EXCEPT !.rules = (@ \ SameRule(c.rule)) \cup {c.rule}]
            [] c.op = "delete" -> [ruleServer EXCEPT !.rules = @ \ SameRule(c.rule)]
            [] OTHER -> ruleServer
    /\ ruleCalls' = (ruleCalls \ {c}) \cup
          {[c EXCEPT !.stage = "done",
                     !.got = IF c.op = "list" THEN {r \in ruleServer.rules : r.acc = c.acc} ELSE {}]}
    /\ UNCHANGED <<rulesView, ruleDoubt>>

\* The page is mounted: the first account is chosen.
RuleAccountsCome(c) ==
    /\ c.op = "accounts" /\ RulesOf(FirstRuleAccount, ruleCalls \ {c})
    /\ UNCHANGED <<ruleServer, ruleDoubt>>

\* A list asked for by a write ends it; the write's own mark is its epoch.
RuleListComes(c, ok) ==
    /\ c.op = "list" /\ c.stage = "done" /\ ruleCalls' = ruleCalls \ {c}
    /\ rulesView' = [rulesView EXCEPT
           !.rows = IF ok /\ c.mine /\ c.newest THEN c.got ELSE @,
           !.loading = @ /\ ~(c.mine /\ c.newest),
           !.writing = @ /\ ~(c.mine /\ c.rule # None)]
    /\ ruleDoubt' = (ruleDoubt \/ ~ok) /\ UNCHANGED ruleServer
RuleFoldersCome(c) ==
    /\ c.op = "folders" /\ c.stage = "done" /\ ruleCalls' = ruleCalls \ {c}
    /\ rulesView' = IF c.mine THEN [rulesView EXCEPT !.folders = c.acc] ELSE rulesView
    /\ UNCHANGED <<ruleServer, ruleDoubt>>

Unwritten(view) == [view EXCEPT !.writing = FALSE]
RuleSaved(c) ==
    /\ c.op \in {"create", "change"} /\ c.stage = "done"
    /\ IF c.mine
       THEN /\ rulesView' = NoRuleEdit(rulesView)
            /\ ruleCalls' = Superseded(ruleCalls \ {c}) \cup {RuleCall("list", c.acc, c.rule)}
       ELSE rulesView' = rulesView /\ ruleCalls' = ruleCalls \ {c}
    /\ UNCHANGED <<ruleServer, ruleDoubt>>
RuleRemoved(c) ==
    /\ c.op = "delete" /\ c.stage = "done"
    /\ IF c.mine
       THEN LET left == Unwritten([rulesView EXCEPT !.rows = {r \in @ : r.id # c.rule.id}]) IN
            /\ rulesView' = IF left.edited # None /\ left.edited.id = c.rule.id
                            THEN NoRuleEdit(left) ELSE left
            /\ ruleCalls' = Superseded(ruleCalls \ {c})
       ELSE rulesView' = rulesView /\ ruleCalls' = ruleCalls \ {c}
    /\ UNCHANGED <<ruleServer, ruleDoubt>>
RulesApplied(c) ==
    /\ c.op = "apply" /\ c.stage = "done" /\ ruleCalls' = ruleCalls \ {c}
    /\ rulesView' = IF c.mine THEN Unwritten(rulesView) ELSE rulesView
    /\ UNCHANGED <<ruleServer, ruleDoubt>>
RuleCallFails(c) ==
    /\ c.op \notin {"list", "accounts"} /\ ruleCalls' = ruleCalls \ {c} /\ ruleDoubt' = TRUE
    /\ rulesView' = IF c.mine /\ c.op \in RuleWrites THEN Unwritten(rulesView) ELSE rulesView
    /\ UNCHANGED ruleServer

-----------------------------------------------------------------------------
RulesInit ==
    /\ rulesView = [acc |-> None, rows |-> {}, folders |-> None, text |-> None, edited |-> None,
                    loading |-> TRUE, writing |-> FALSE]
    /\ ruleCalls = {RuleCall("accounts", None, None)} /\ ruleDoubt = FALSE
    /\ \E x \in Beginning("rules", RuleTexts) :
          ruleServer = [next |-> 2, rules |-> {[id |-> 1, acc |-> FirstRuleAccount, text |-> x]}]

RulesUser ==
    \/ \E a \in RuleAccounts : ChooseRuleAccount(a)
    \/ \E x \in RuleTexts : TypeRule(x)
    \/ \E r \in rulesView.rows : StartRuleEdit(r) \/ RemoveRule(r)
    \/ CancelRuleEdit \/ ApplyRulesNow \/ (ruleServer.next <= MaxRules /\ SubmitRule)

RulesNext ==
    \/ ByUser(RulesUser)
    \/ ByFault(\E c \in ruleCalls : RuleCallFails(c) \/ RuleListComes(c, FALSE))
    \/ ByItself(\E c \in ruleCalls :
          \/ RuleServerDoes(c) \/ RuleAccountsCome(c) \/ RuleListComes(c, TRUE) \/ RuleFoldersCome(c)
          \/ RuleSaved(c) \/ RuleRemoved(c) \/ RulesApplied(c))

-----------------------------------------------------------------------------
(* Properties *)

RuleOps == RuleWrites \cup {"accounts", "list", "folders"}
RuleRows == [id: Nat, acc: RuleAccounts, text: RuleTexts]
RuleViews == [acc: RuleAccounts \cup {None}, rows: SUBSET RuleRows, folders: RuleAccounts \cup {None},
              text: RuleTexts \cup {None}, edited: RuleRows \cup {None}, loading: BOOLEAN, writing: BOOLEAN]
RuleServers == [next: Nat, rules: SUBSET RuleRows]
RuleCallOK(c) ==
    /\ c \in [op: RuleOps, acc: RuleAccounts \cup {None}, rule: RuleRows \cup {None}, mine: BOOLEAN,
              newest: BOOLEAN, stage: {"sent", "done"}, got: SUBSET RuleRows]
    /\ c.op \in RuleWrites \ {"apply"} => c.rule \in RuleRows
RulesTypeOK ==
    /\ rulesView \in RuleViews /\ ruleServer \in RuleServers /\ ruleDoubt \in BOOLEAN
    /\ \A c \in ruleCalls : RuleCallOK(c)

\* Whatever answers arrive in which order, the rules, the rule edited and the
\* folders offered are those of the account chosen, one write of it is under way
\* at most, and at rest the list is what the server has - unless an account was
\* left during a write, whose answer no longer reloads the list.
RulesOfAccount ==
    /\ \A r \in rulesView.rows : r.acc = rulesView.acc
    /\ rulesView.edited # None => rulesView.edited.acc = rulesView.acc
    /\ rulesView.folders \in {None, rulesView.acc}
    /\ \A c, d \in ruleCalls : {c.op, d.op} \subseteq RuleWrites /\ c.mine /\ d.mine => c = d
    /\ RulesIdle /\ ~ruleDoubt => rulesView.rows = {r \in ruleServer.rules : r.acc = rulesView.acc}
=============================================================================
