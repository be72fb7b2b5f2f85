------------------------------- MODULE RuleView -------------------------------
(***************************************************************************)
(* The collection rules of sys.js: the rule list dialog                    *)
(* (collection-rule-modal, loadCollectionRules, renderCollectionRulesTable) *)
(* and the rule edit dialog (rule-edit-modal) with editCollectionRule,     *)
(* saveCollectionRule and deleteCollectionRule.  Fetches are modelled as   *)
(* in PointView.  A rule is abstracted to its id; the device filter the    *)
(* list query carries (device-select) is modelled in DeviceView.           *)
(***************************************************************************)
EXTENDS Integers, FiniteSets, Sequences

CONSTANTS
    MaxRules,     \* the backend stores rules with ids 1..MaxRules
    MaxRequests   \* bound: requests the operator sends

ASSUME MaxRulesAssumption == MaxRules \in Nat
ASSUME MaxRequestsAssumption == MaxRequests \in Nat

RuleIds == 1..MaxRules

\* A blank rule-id field.
NoRule == 0

VARIABLES
    listModal,    \* collection-rule-modal display is 'flex'
    editModal,    \* rule-edit-modal display is 'flex'
    fromList,     \* history: the list was shown when rule-edit-modal opened
    ruleRows,     \* the rules in collection-rule-body
    formRule,     \* the rule-id field of rule-edit-form
    reqs,         \* fetches sent and not yet resumed
    nextRid,      \* requests sent so far, plus one
    rules,        \* ids of the rules the backend holds
    notices       \* notification-container children, oldest first

vars == <<listModal, editModal, fromList, ruleRows, formRule, reqs, nextRid,
          rules, notices>>

-----------------------------------------------------------------------------
Ops == {"list", "get", "save", "delete"}

Request == [rid : Nat, op : Ops, arg : 0..MaxRules, state : {"sent", "answered"},
            ok : BOOLEAN, rows : SUBSET RuleIds]

NewReq(op, arg) ==
    [rid |-> nextRid, op |-> op, arg |-> arg, state |-> "sent", ok |-> FALSE,
     rows |-> {}]

Send(op, arg) ==
    /\ reqs' = reqs \cup {NewReq(op, arg)}
    /\ nextRid' = nextRid + 1

CanSend == nextRid <= MaxRequests

Notify(kind) == notices' = Append(notices, kind)

(* The backend (spec section 6, /api/collection-rules[/:id]).              *)
Answer(r, ok) == [rid |-> r.rid, op |-> r.op, arg |-> r.arg, state |-> "answered",
                  ok |-> ok, rows |-> rules]

Reply(r, ok) == reqs' = (reqs \ {r}) \cup {Answer(r, ok)}

Apply(r) ==
    \/ /\ r.op = "list"
       /\ UNCHANGED rules
    \/ /\ r.op = "get" \/ (r.op = "save" /\ r.arg # NoRule)
       /\ r.arg \in rules
       /\ UNCHANGED rules
    \/ /\ r.op = "save" /\ r.arg = NoRule
       /\ \E id \in RuleIds \ rules : rules' = rules \cup {id}
    \/ /\ r.op = "delete"
       /\ r.arg \in rules
       /\ rules' = rules \ {r.arg}

ServeReq(r) ==
    /\ r.state = "sent"
    /\ \/ Apply(r) /\ Reply(r, TRUE)
       \/ Apply(r) /\ r.op \in {"save", "delete"} /\ Reply(r, FALSE)
       \/ Reply(r, FALSE) /\ UNCHANGED rules
    /\ UNCHANGED <<listModal, editModal, fromList, ruleRows, formRule, nextRid,
                   notices>>

Serve == \E r \in reqs : ServeReq(r)

-----------------------------------------------------------------------------
(* The page's controls are under the dialogs' full-window backdrops; the  *)
(* list's own buttons are under rule-edit-modal when that is shown.        *)
PageUsable == ~listModal /\ ~editModal

ListUsable == listModal /\ ~editModal

\* collection-rule-btn (sys.js 68-71): loadCollectionRules(), show the list.
\* loadCollectionRules shows no spinner: the old rows stay until the answer.
OpenRuleList ==
    /\ PageUsable /\ CanSend
    /\ listModal' = TRUE
    /\ Send("list", NoRule)
    /\ UNCHANGED <<editModal, fromList, ruleRows, formRule, rules, notices>>

\* add-rule-btn (sys.js 74-79): reset the form, blank the id, show
\* rule-edit-modal; collection-rule-modal is left displayed.
AddRule ==
    /\ ListUsable
    /\ editModal' = TRUE
    /\ fromList' = listModal
    /\ formRule' = NoRule
    /\ UNCHANGED <<listModal, ruleRows, reqs, nextRid, rules, notices>>

\* A row's 修改 button: editCollectionRule up to its await (460-467).
EditRule(id) ==
    /\ ListUsable /\ CanSend
    /\ id \in ruleRows
    /\ Send("get", id)
    /\ UNCHANGED <<listModal, editModal, fromList, ruleRows, formRule, rules,
                   notices>>

\* A row's 删除 button, confirmed: deleteCollectionRule up to its await.
DeleteRule(id) ==
    /\ ListUsable /\ CanSend
    /\ id \in ruleRows
    /\ Send("delete", id)
    /\ UNCHANGED <<listModal, editModal, fromList, ruleRows, formRule, rules,
                   notices>>

\* Either dialog's close control, cancel-rule, or a backdrop: closeModals
\* (sys.js 82-105) hides every dialog, the list included.
CloseRuleModals ==
    /\ listModal \/ editModal
    /\ listModal' = FALSE
    /\ editModal' = FALSE
    /\ UNCHANGED <<fromList, ruleRows, formRule, reqs, nextRid, rules, notices>>

\* Submitting rule-edit-form: saveCollectionRule up to its await (494-513).
SubmitRule ==
    /\ editModal /\ CanSend
    /\ Send("save", formRule)
    /\ UNCHANGED <<listModal, editModal, fromList, ruleRows, formRule, rules,
                   notices>>

-----------------------------------------------------------------------------
(* Continuations.                                                          *)

Resume(r) == reqs' = reqs \ {r}

\* Resume r and call loadCollectionRules().
ResumeAndReload(r) == reqs' = (reqs \ {r}) \cup {NewReq("list", NoRule)}

\* loadCollectionRules after the await (sys.js 419-420): render the rules.
LoadRulesOk(r) ==
    /\ r.op = "list" /\ r.ok
    /\ Resume(r)
    /\ ruleRows' = r.rows
    /\ UNCHANGED <<listModal, editModal, fromList, formRule, nextRid, rules, notices>>

\* The catch of loadCollectionRules: notify.
LoadRulesFail(r) ==
    /\ r.op = "list" /\ ~r.ok
    /\ Resume(r)
    /\ Notify("error")
    /\ UNCHANGED <<listModal, editModal, fromList, ruleRows, formRule, nextRid, rules>>

\* Mutant: the form's id filled from the request's own number.
MutEditRuleOkWrongId(r) ==
    /\ r.op = "get" /\ r.ok
    /\ Resume(r)
    /\ formRule' = r.rid
    /\ editModal' = TRUE
    /\ fromList' = listModal
    /\ listModal' = FALSE
    /\ UNCHANGED <<ruleRows, nextRid, rules, notices>>

\* editCollectionRule after the await (sys.js 473-486): fill the form, show
\* rule-edit-modal, hide collection-rule-modal.
EditRuleOk(r) ==
    /\ r.op = "get" /\ r.ok
    /\ Resume(r)
    /\ formRule' = r.arg
    /\ editModal' = TRUE
    /\ fromList' = listModal
    /\ listModal' = FALSE
    /\ UNCHANGED <<ruleRows, nextRid, rules, notices>>

\* saveCollectionRule after the await (sys.js 520-523): notify, hide
\* rule-edit-modal, show collection-rule-modal, loadCollectionRules().
SaveRuleOk(r) ==
    /\ r.op = "save" /\ r.ok
    /\ Notify("success")
    /\ editModal' = FALSE
    /\ listModal' = TRUE
    /\ ResumeAndReload(r)
    /\ nextRid' = nextRid + 1
    /\ UNCHANGED <<fromList, ruleRows, formRule, rules>>

\* deleteCollectionRule after the await (sys.js 545-546): notify, reload.
DeleteRuleOk(r) ==
    /\ r.op = "delete" /\ r.ok
    /\ Notify("success")
    /\ ResumeAndReload(r)
    /\ nextRid' = nextRid + 1
    /\ UNCHANGED <<listModal, editModal, fromList, ruleRows, formRule, rules>>

\* The catch of editCollectionRule, saveCollectionRule or
\* deleteCollectionRule: notify; the dialogs stay as they are.
MutationFail(r) ==
    /\ r.op \in {"get", "save", "delete"} /\ ~r.ok
    /\ Resume(r)
    /\ Notify("error")
    /\ UNCHANGED <<listModal, editModal, fromList, ruleRows, formRule, nextRid, rules>>

DeliverReq(r) ==
    /\ r.state = "answered"
    /\ \/ LoadRulesOk(r) \/ LoadRulesFail(r) \/ EditRuleOk(r)
       \/ SaveRuleOk(r) \/ DeleteRuleOk(r) \/ MutationFail(r)

Deliver == \E r \in reqs : DeliverReq(r)

\* The 3-second timers of showNotification fire in order (sys.js 925-929).
DismissNotice ==
    /\ notices # <<>>
    /\ notices' = Tail(notices)
    /\ UNCHANGED <<listModal, editModal, fromList, ruleRows, formRule, reqs,
                   nextRid, rules>>

-----------------------------------------------------------------------------
\* Both dialogs hidden, the rule table empty, the backend holding any rules.
Init ==
    /\ listModal = FALSE
    /\ editModal = FALSE
    /\ fromList = FALSE
    /\ ruleRows = {}
    /\ formRule = NoRule
    /\ reqs = {}
    /\ nextRid = 1
    /\ rules \in SUBSET RuleIds
    /\ notices = <<>>

Next ==
    \/ OpenRuleList \/ AddRule \/ CloseRuleModals \/ SubmitRule
    \/ \E id \in RuleIds : EditRule(id) \/ DeleteRule(id)
    \/ Serve \/ Deliver \/ DismissNotice

Spec == Init /\ [][Next]_vars

-----------------------------------------------------------------------------
(* Properties.                                                             *)

TypeOK ==
    /\ listModal \in BOOLEAN
    /\ editModal \in BOOLEAN
    /\ fromList \in BOOLEAN
    /\ ruleRows \subseteq RuleIds
    /\ formRule \in {NoRule} \cup RuleIds
    /\ reqs \subseteq Request
    /\ nextRid \in Nat \ {0}
    /\ rules \subseteq RuleIds
    /\ notices \in Seq({"success", "error"})

(* Spec section 4.3: the dialogs follow the lifecycle of                   *)
(* RuleModalLifecycle, the dialog shown being the one on top and RuleEdit  *)
(* counting as stacked when the list was shown as it opened.               *)
Lifecycle == INSTANCE RuleModalLifecycle WITH
    am <- IF editModal THEN "edit" ELSE IF listModal THEN "list" ELSE "closed",
    stacked <- editModal /\ fromList

RuleModalsFollowLifecycle == Lifecycle!Spec

=============================================================================
