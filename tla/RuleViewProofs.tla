-------------------------- MODULE RuleViewProofs ----------------------------
(***************************************************************************)
(* Proofs about the collection-rule dialogs, for every number of rules and *)
(* every request bound: the type invariant of the two dialogs, the rule    *)
(* table, the edit form and the backend's rules under every interleaving  *)
(* of handlers, backend answers and continuations.                         *)
(***************************************************************************)
EXTENDS RuleView, TLAPS

USE MaxRulesAssumption, MaxRequestsAssumption

(* A rule id, or the blank id field, is an argument of a request.         *)
LEMMA ArgRange == NoRule \in 0..MaxRules /\ RuleIds \subseteq 0..MaxRules
  BY DEF NoRule, RuleIds

(* A request just built by a handler is well typed.                       *)
LEMMA NewReqType ==
    ASSUME nextRid \in Nat, NEW op \in Ops, NEW a \in 0..MaxRules
    PROVE  NewReq(op, a) \in Request
  BY DEF NewReq, Request

(* Sending keeps the in-flight set and the request counter typed.         *)
LEMMA SendType ==
    ASSUME reqs \subseteq Request, nextRid \in Nat \ {0},
           NEW op \in Ops, NEW a \in 0..MaxRules, Send(op, a)
    PROVE  reqs' \subseteq Request /\ nextRid' \in Nat \ {0}
  BY NewReqType DEF Send

(* The backend's answer carries a snapshot of a well-typed rule store.    *)
LEMMA AnswerType ==
    ASSUME rules \subseteq RuleIds, NEW r \in Request, NEW ok \in BOOLEAN
    PROVE  Answer(r, ok) \in Request
  BY DEF Answer, Request

(* Every backend operation keeps the rule store typed: a create takes a    *)
(* free id, a delete removes one.                                          *)
LEMMA ApplyType ==
    ASSUME rules \subseteq RuleIds, NEW r \in Request, Apply(r)
    PROVE  rules' \subseteq RuleIds
  BY DEF Apply

(* The backend's step keeps the in-flight set and the rule store typed.    *)
LEMMA ServeType ==
    ASSUME reqs \subseteq Request, rules \subseteq RuleIds, Serve
    PROVE  /\ reqs' \subseteq Request /\ rules' \subseteq RuleIds
           /\ UNCHANGED <<listModal, editModal, fromList, ruleRows, formRule,
                          nextRid, notices>>
<1>1. PICK r \in reqs : ServeReq(r)
  BY DEF Serve
<1>2. r \in Request
  OBVIOUS
<1>3. rules' \subseteq RuleIds
  BY <1>1, <1>2, ApplyType DEF ServeReq
<1>4. \E ok \in BOOLEAN : reqs' = (reqs \ {r}) \cup {Answer(r, ok)}
  BY <1>1 DEF ServeReq, Reply
<1>5. reqs' \subseteq Request
  BY <1>2, <1>4, AnswerType
<1>. QED  BY <1>1, <1>3, <1>5 DEF ServeReq

(* A continuation keeps the dialogs typed: a list response carries the    *)
(* backend's rule ids, a get response a rule id, and a reload sends a list. *)
LEMMA DeliverType ==
    ASSUME TypeOK, Deliver
    PROVE  TypeOK'
<1>1. PICK r \in reqs : DeliverReq(r)
  BY DEF Deliver
<1>2. /\ r.rows \subseteq RuleIds /\ r.arg \in {NoRule} \cup RuleIds
      /\ reqs \ {r} \subseteq Request
  BY DEF TypeOK, Request, NoRule, RuleIds
<1>3. NewReq("list", NoRule) \in Request
  BY ArgRange, NewReqType DEF TypeOK, Ops
<1>a. ASSUME ResumeAndReload(r), nextRid' = nextRid + 1
      PROVE  reqs' \subseteq Request /\ nextRid' \in Nat \ {0}
  <2>1. reqs' = (reqs \ {r}) \cup {NewReq("list", NoRule)}
    BY <1>a DEF ResumeAndReload
  <2>2. nextRid + 1 \in Nat \ {0}
    BY DEF TypeOK
  <2>. QED  BY <1>a, <2>1, <2>2, <1>2, <1>3
<1>b. ASSUME Notify("success") PROVE notices' \in Seq({"success", "error"})
  BY <1>b DEF Notify, TypeOK
<1>4. CASE LoadRulesOk(r)
  BY <1>2, <1>4 DEF LoadRulesOk, Resume, TypeOK
<1>5. CASE LoadRulesFail(r)
  BY <1>2, <1>5 DEF LoadRulesFail, Resume, Notify, TypeOK
<1>6. CASE EditRuleOk(r)
  BY <1>2, <1>6 DEF EditRuleOk, Resume, TypeOK
<1>7. CASE SaveRuleOk(r)
  <2>1. /\ ResumeAndReload(r) /\ nextRid' = nextRid + 1 /\ Notify("success")
        /\ editModal' = FALSE /\ listModal' = TRUE
        /\ UNCHANGED <<fromList, ruleRows, formRule, rules>>
    BY <1>7 DEF SaveRuleOk
  <2>. QED  BY <2>1, <1>a, <1>b DEF TypeOK
<1>8. CASE DeleteRuleOk(r)
  <2>1. /\ ResumeAndReload(r) /\ nextRid' = nextRid + 1 /\ Notify("success")
        /\ UNCHANGED <<listModal, editModal, fromList, ruleRows, formRule, rules>>
    BY <1>8 DEF DeleteRuleOk
  <2>. QED  BY <2>1, <1>a, <1>b DEF TypeOK
<1>9. CASE MutationFail(r)
  BY <1>2, <1>9 DEF MutationFail, Resume, Notify, TypeOK
<1>. QED  BY <1>1, <1>4, <1>5, <1>6, <1>7, <1>8, <1>9 DEF DeliverReq

(* Every step keeps the type.                                             *)
LEMMA TypeStep == TypeOK /\ [Next]_vars => TypeOK'
<1>. SUFFICES ASSUME TypeOK, [Next]_vars PROVE TypeOK'
  OBVIOUS
<1>0. /\ reqs \subseteq Request /\ nextRid \in Nat \ {0}
      /\ NoRule \in 0..MaxRules /\ RuleIds \subseteq 0..MaxRules
  BY ArgRange DEF TypeOK
<1>1. CASE OpenRuleList
  <2>1. reqs' \subseteq Request /\ nextRid' \in Nat \ {0}
    BY <1>0, <1>1, SendType DEF OpenRuleList, Ops
  <2>. QED  BY <1>1, <2>1 DEF OpenRuleList, TypeOK
<1>2. CASE AddRule
  BY <1>2 DEF AddRule, TypeOK, NoRule
<1>3. CASE CloseRuleModals
  BY <1>3 DEF CloseRuleModals, TypeOK
<1>4. CASE SubmitRule
  <2>1. formRule \in 0..MaxRules
    BY DEF TypeOK, NoRule, RuleIds
  <2>2. reqs' \subseteq Request /\ nextRid' \in Nat \ {0}
    BY <1>0, <1>4, <2>1, SendType DEF SubmitRule, Ops
  <2>. QED  BY <1>4, <2>2 DEF SubmitRule, TypeOK
<1>5. CASE \E id \in RuleIds : EditRule(id) \/ DeleteRule(id)
  <2>1. PICK id \in RuleIds : EditRule(id) \/ DeleteRule(id)
    BY <1>5
  <2>2. CASE EditRule(id)
    <3>1. reqs' \subseteq Request /\ nextRid' \in Nat \ {0}
      BY <1>0, <2>2, SendType DEF EditRule, Ops
    <3>. QED  BY <2>2, <3>1 DEF EditRule, TypeOK
  <2>3. CASE DeleteRule(id)
    <3>1. reqs' \subseteq Request /\ nextRid' \in Nat \ {0}
      BY <1>0, <2>3, SendType DEF DeleteRule, Ops
    <3>. QED  BY <2>3, <3>1 DEF DeleteRule, TypeOK
  <2>. QED  BY <2>1, <2>2, <2>3
<1>6. CASE Serve
  BY <1>6, ServeType DEF TypeOK
<1>7. CASE Deliver
  BY <1>7, DeliverType
<1>8. CASE DismissNotice
  BY <1>8 DEF DismissNotice, TypeOK
<1>9. CASE UNCHANGED vars
  BY <1>9 DEF vars, TypeOK
<1>. QED  BY <1>1, <1>2, <1>3, <1>4, <1>5, <1>6, <1>7, <1>8, <1>9 DEF Next

(* Both dialogs hidden and nothing in flight is a well-typed state.       *)
LEMMA InitType == Init => TypeOK
<1>. SUFFICES ASSUME Init PROVE TypeOK
  OBVIOUS
<1>1. /\ listModal \in BOOLEAN /\ editModal \in BOOLEAN /\ fromList \in BOOLEAN
  BY DEF Init
<1>2. /\ ruleRows \subseteq RuleIds /\ formRule \in {NoRule} \cup RuleIds
      /\ reqs \subseteq Request /\ nextRid \in Nat \ {0}
      /\ rules \subseteq RuleIds /\ notices \in Seq({"success", "error"})
  BY DEF Init
<1>. QED  BY <1>1, <1>2 DEF TypeOK

(* The rule dialogs, the rule table, the edit form and the backend's rule *)
(* store keep their types under every interleaving of the handlers of     *)
(* sys.js, the backend's answers and the continuations after each await.  *)
THEOREM TypeCorrect == Spec => []TypeOK
<1>1. Init => TypeOK
  BY InitType
<1>. QED  BY <1>1, TypeStep, PTL DEF Spec

=============================================================================
