-------------------------- MODULE PointViewProofs ---------------------------
(***************************************************************************)
(* Proofs about the point view, for every page size, id space and request *)
(* bound: the type invariant, and that once list loads settle with a      *)
(* success the pager highlights the live currentPage.points.               *)
(***************************************************************************)
EXTENDS PointView, PaginationLemmas, FiniteSetTheorems, TLAPS

USE PageSizeAssumption, MaxIdsAssumption, MaxRequestsAssumption

(* Any set of stored points is finite and has at most MaxIds elements.    *)
LEMMA CardinalityOfStore ==
    ASSUME NEW S \in SUBSET Ids
    PROVE  Cardinality(S) \in 0..MaxIds
<1>1. IsFiniteSet(Ids) /\ Cardinality(Ids) = MaxIds
  BY FS_Interval DEF Ids
<1>2. IsFiniteSet(S) /\ Cardinality(S) <= Cardinality(Ids)
  BY <1>1, FS_Subset
<1>. QED  BY <1>1, <1>2, FS_CardinalityType

(* An answer is a request of the same operation and argument.              *)
LEMMA AnswerType ==
    ASSUME NEW r \in Request, NEW S \in SUBSET Ids, NEW ok \in BOOLEAN
    PROVE  /\ Answer(r, S, ok) \in Request
           /\ Answer(r, S, ok).op = r.op
           /\ Answer(r, S, ok).arg = r.arg
<1>1. PageRows(S, r.arg) \subseteq Ids
  BY DEF PageRows
<1>2. Cardinality(S) \in 0..MaxIds
  BY CardinalityOfStore
<1>. QED  BY <1>1, <1>2 DEF Answer, Request

(* A request just sent is well typed when its argument is.                 *)
LEMMA NewReqType ==
    ASSUME NEW op \in Ops, NEW a \in Int, nextRid \in Nat
    PROVE  /\ NewReq(op, a) \in Request
           /\ NewReq(op, a).op = op /\ NewReq(op, a).arg = a
  BY DEF NewReq, Request

(* Replacing a request by one of the same operation and argument, or       *)
(* adding a list request, keeps the arguments typed.                       *)
LEMMA ArgsTypedReplace ==
    ASSUME NEW R, NEW r, NEW x, ArgsTyped(R), r \in R, x.op = r.op, x.arg = r.arg
    PROVE  ArgsTyped((R \ {r}) \cup {x})
  BY DEF ArgsTyped

LEMMA ArgsTypedAdd ==
    ASSUME NEW R, NEW x, ArgsTyped(R),
           x.op \in {"get", "delete"} => x.arg \in Ids,
           x.op = "save" => x.arg \in {NoId} \cup Ids
    PROVE  ArgsTyped(R \cup {x})
  BY DEF ArgsTyped

(* Sending a request with a typed argument keeps the requests typed.      *)
LEMMA SendType ==
    ASSUME TypeOK, NEW op \in Ops, NEW a \in Int,
           op \in {"get", "delete"} => a \in Ids,
           op = "save" => a \in {NoId} \cup Ids,
           Send(op, a)
    PROVE  /\ reqs' \subseteq Request
           /\ ArgsTyped(reqs')
           /\ nextRid' \in Nat \ {0}
<1>1. NewReq(op, a) \in Request /\ NewReq(op, a).op = op /\ NewReq(op, a).arg = a
  BY NewReqType DEF TypeOK
<1>2. ArgsTyped(reqs \cup {NewReq(op, a)})
  BY <1>1, ArgsTypedAdd DEF TypeOK
<1>. QED  BY <1>1, <1>2 DEF Send, TypeOK

(* The backend's answer keeps the requests typed.                          *)
LEMMA ReplyType ==
    ASSUME TypeOK, NEW r \in reqs, NEW ok \in BOOLEAN, Reply(r, ok)
    PROVE  reqs' \subseteq Request /\ ArgsTyped(reqs')
<1>1. r \in Request /\ server \in SUBSET Ids
  BY DEF TypeOK
<1>2. Answer(r, server, ok) \in Request /\ Answer(r, server, ok).op = r.op
      /\ Answer(r, server, ok).arg = r.arg
  BY <1>1, AnswerType
<1>. QED  BY <1>1, <1>2, ArgsTypedReplace DEF Reply, TypeOK

(* The backend only stores ids of Ids.                                     *)
LEMMA ApplyType ==
    ASSUME TypeOK, NEW r \in reqs, Apply(r)
    PROVE  server' \subseteq Ids
  BY DEF Apply, TypeOK

(* Appending a notification or dismissing the oldest keeps a sequence.    *)
LEMMA NotifyType ==
    ASSUME TypeOK, NEW k \in {"success", "error"}, Notify(k)
    PROVE  notices' \in Seq({"success", "error"})
  BY DEF Notify, TypeOK

(* Resuming a request and reloading keeps the requests typed.              *)
LEMMA ReloadType ==
    ASSUME TypeOK, NEW r \in reqs, ResumeAndReload(r)
    PROVE  /\ reqs' \subseteq Request /\ ArgsTyped(reqs')
           /\ nextRid' \in Nat \ {0} /\ tbody' = Loading
<1>1. NewReq("list", curPage) \in Request /\ NewReq("list", curPage).op = "list"
  BY NewReqType DEF TypeOK, Ops
<1>2. ArgsTyped((reqs \ {r}) \cup {NewReq("list", curPage)})
  BY <1>1 DEF ArgsTyped, TypeOK
<1>. QED  BY <1>1, <1>2 DEF ResumeAndReload, TypeOK

(* The view's state keeps its type.                                        *)
THEOREM TypeCorrect == Spec => []TypeOK
<1>1. Init => TypeOK
  <2>. SUFFICES ASSUME Init PROVE TypeOK
    OBVIOUS
  <2>1. tbody \in [kind : {"blank", "loading", "rows"}, rows : SUBSET Ids,
                   page : Int, count : 0..MaxIds]
    BY DEF Init, Blank
  <2>2. pager \in [cp : Int, tp : 0..MaxIds]
    BY DEF Init
  <2>3. notices \in Seq({"success", "error"})
    BY DEF Init
  <2>4. reqs \subseteq Request /\ ArgsTyped(reqs)
    BY DEF Init, ArgsTyped
  <2>5. curPage \in Int /\ totalPoints \in 0..MaxIds
    BY DEF Init
  <2>6. pointModal \in BOOLEAN
    BY DEF Init
  <2>7. formId \in {NoId} \cup Ids
    BY DEF Init, NoId
  <2>8. nextRid \in Nat \ {0} /\ server \subseteq Ids
    BY DEF Init
  <2>9. lastLoad \in {"none", "ok", "failed"}
    BY DEF Init
  <2>. QED  BY <2>1, <2>2, <2>3, <2>4, <2>5, <2>6, <2>7, <2>8, <2>9 DEF TypeOK
<1>2. TypeOK /\ [Next]_vars => TypeOK'
  <2>. SUFFICES ASSUME TypeOK, [Next]_vars PROVE TypeOK'
    OBVIOUS
  <2>0. Loading \in [kind : {"blank", "loading", "rows"}, rows : SUBSET Ids,
                     page : Int, count : 0..MaxIds]
    BY DEF Loading
  <2>1. CASE ActivatePointTab
    BY <2>0, <2>1, SendType DEF ActivatePointTab, LoadPoints, TypeOK, Ops
  <2>2. CASE Search
    BY <2>0, <2>2, SendType DEF Search, LoadPoints, TypeOK, Ops
  <2>3. CASE PrevPage
    BY <2>0, <2>3, SendType DEF PrevPage, LoadPoints, TypeOK, Ops
  <2>4. CASE NextPage
    BY <2>0, <2>4, SendType DEF NextPage, LoadPoints, TypeOK, Ops
  <2>5. CASE \E i \in PageButtons(pager.cp, pager.tp) : GotoPage(i)
    <3>1. PICK i \in PageButtons(pager.cp, pager.tp) : GotoPage(i)
      BY <2>5
    <3>2. i \in Int
      BY DEF PageButtons, StartPage, EndPage, TypeOK
    <3>. QED  BY <2>0, <3>1, <3>2, SendType DEF GotoPage, LoadPoints, TypeOK, Ops
  <2>6. CASE AddPoint
    BY <2>6 DEF AddPoint, TypeOK, NoId
  <2>7. CASE ClosePointModal
    BY <2>7 DEF ClosePointModal, TypeOK
  <2>8. CASE SubmitPoint
    BY <2>8, SendType DEF SubmitPoint, TypeOK, Ops, Ids, NoId
  <2>9. CASE \E id \in Ids : EditPoint(id) \/ DeletePoint(id)
    <3>1. PICK id \in Ids : EditPoint(id) \/ DeletePoint(id)
      BY <2>9
    <3>0. id \in Int
      BY DEF Ids
    <3>2. CASE EditPoint(id)
      <4>1. Send("get", id)
        BY <3>2 DEF EditPoint
      <4>2. reqs' \subseteq Request /\ ArgsTyped(reqs') /\ nextRid' \in Nat \ {0}
        BY <3>0, <3>1, <4>1, SendType DEF Ops
      <4>. QED  BY <3>2, <4>2 DEF EditPoint, TypeOK
    <3>3. CASE DeletePoint(id)
      <4>1. Send("delete", id)
        BY <3>3 DEF DeletePoint
      <4>2. reqs' \subseteq Request /\ ArgsTyped(reqs') /\ nextRid' \in Nat \ {0}
        BY <3>0, <3>1, <4>1, SendType DEF Ops
      <4>. QED  BY <3>3, <4>2 DEF DeletePoint, TypeOK
    <3>. QED  BY <3>1, <3>2, <3>3
  <2>10. CASE Serve
    <3>1. PICK r \in reqs :
            /\ r.state = "sent"
            /\ \/ Apply(r) /\ Reply(r, TRUE)
               \/ Apply(r) /\ r.op \in {"save", "delete"} /\ Reply(r, FALSE)
               \/ Reply(r, FALSE) /\ UNCHANGED server
            /\ UNCHANGED <<curPage, totalPoints, tbody, pager, pointModal, formId,
                           nextRid, notices, lastLoad>>
      BY <2>10 DEF Serve, ServeReq
    <3>2. reqs' \subseteq Request /\ ArgsTyped(reqs')
      BY <3>1, ReplyType
    <3>3. server' \subseteq Ids
      BY <3>1, ApplyType DEF TypeOK
    <3>. QED  BY <3>1, <3>2, <3>3 DEF TypeOK
  <2>11. CASE Deliver
    <3>1. PICK r \in reqs :
            /\ r.state = "answered"
            /\ \/ LoadPointsOk(r) \/ LoadPointsFail(r) \/ EditPointOk(r)
               \/ SavePointOk(r) \/ DeletePointOk(r) \/ MutationFail(r)
      BY <2>11 DEF Deliver, DeliverReq
    <3>0. /\ r \in Request /\ (reqs \ {r}) \subseteq Request
          /\ ArgsTyped(reqs \ {r})
      BY DEF TypeOK, ArgsTyped
    <3>2. CASE LoadPointsOk(r)
      <4>1. r.count \in 0..MaxIds /\ r.rows \subseteq Ids /\ r.arg \in Int
        BY <3>0 DEF Request
      <4>2. TotalPages(r.count, PageSize) \in 0..MaxIds
        BY <4>1, TotalPagesBounds
      <4>. QED  BY <3>0, <3>2, <4>1, <4>2 DEF LoadPointsOk, Resume, Rows, TypeOK
    <3>3. CASE LoadPointsFail(r)
      BY <3>0, <3>3, NotifyType DEF LoadPointsFail, Resume, TypeOK
    <3>4. CASE EditPointOk(r)
      BY <3>0, <3>4 DEF EditPointOk, Resume, TypeOK, ArgsTyped
    <3>5. CASE SavePointOk(r)
      BY <2>0, <3>5, NotifyType, ReloadType DEF SavePointOk, TypeOK
    <3>6. CASE DeletePointOk(r)
      BY <2>0, <3>6, NotifyType, ReloadType DEF DeletePointOk, TypeOK
    <3>7. CASE MutationFail(r)
      BY <3>0, <3>7, NotifyType DEF MutationFail, Resume, TypeOK
    <3>. QED  BY <3>1, <3>2, <3>3, <3>4, <3>5, <3>6, <3>7
  <2>12. CASE DismissNotice
    BY <2>12 DEF DismissNotice, TypeOK
  <2>13. CASE UNCHANGED vars
    BY <2>13 DEF vars, TypeOK
  <2>. QED  BY <2>1, <2>2, <2>3, <2>4, <2>5, <2>6, <2>7, <2>8, <2>9, <2>10,
               <2>11, <2>12, <2>13 DEF Next
<1>. QED  BY <1>1, <1>2, PTL DEF Spec


(* A step that leaves curPage, the pager and lastLoad alone, and takes no *)
(* list request out of flight, keeps PagerTracksCurPage.                   *)
LEMMA QuietStepKeepsTracking ==
    ASSUME PagerTracksCurPage,
           UNCHANGED <<curPage, pager, lastLoad>>,
           NoListInFlight' => NoListInFlight
    PROVE  PagerTracksCurPage'
  BY DEF PagerTracksCurPage

(* A step that puts a list request in flight keeps PagerTracksCurPage.    *)
LEMMA ListSentKeepsTracking ==
    ASSUME NEW x \in reqs', x.op = "list"
    PROVE  PagerTracksCurPage'
  BY DEF PagerTracksCurPage, NoListInFlight

(* Every step keeps PagerTracksCurPage: each page change (and each reload *)
(* after a save or delete) sends a list load for the live                  *)
(* currentPage.points, and of the continuations that retire a list load    *)
(* the success redraws the pager from currentPage.points and the failure  *)
(* sets lastLoad to "failed".  No strengthening is needed.                 *)
LEMMA TrackingStep ==
    ASSUME PagerTracksCurPage, [Next]_vars
    PROVE  PagerTracksCurPage'
<1>1. CASE ActivatePointTab \/ Search \/ PrevPage \/ NextPage
  <2>1. \E p : NewReq("list", p) \in reqs'
    BY <1>1 DEF ActivatePointTab, Search, PrevPage, NextPage, LoadPoints, Send
  <2>. QED  BY <2>1, ListSentKeepsTracking DEF NewReq
<1>2. CASE \E i \in PageButtons(pager.cp, pager.tp) : GotoPage(i)
  <2>1. \E p : NewReq("list", p) \in reqs'
    BY <1>2 DEF GotoPage, LoadPoints, Send
  <2>. QED  BY <2>1, ListSentKeepsTracking DEF NewReq
<1>3. CASE AddPoint \/ ClosePointModal
  BY <1>3, QuietStepKeepsTracking DEF AddPoint, ClosePointModal, NoListInFlight
<1>4. CASE SubmitPoint \/ \E id \in Ids : EditPoint(id) \/ DeletePoint(id)
  <2>1. reqs \subseteq reqs' /\ UNCHANGED <<curPage, pager, lastLoad>>
    BY <1>4 DEF SubmitPoint, EditPoint, DeletePoint, Send
  <2>. QED  BY <2>1, QuietStepKeepsTracking DEF NoListInFlight
<1>5. CASE Serve
  <2>1. PICK r \in reqs, ok \in BOOLEAN :
          /\ reqs' = (reqs \ {r}) \cup {Answer(r, server, ok)}
          /\ UNCHANGED <<curPage, pager, lastLoad>>
    BY <1>5 DEF Serve, ServeReq, Reply
  <2>2. Answer(r, server, ok).op = r.op
    BY DEF Answer
  <2>. QED  BY <2>1, <2>2, QuietStepKeepsTracking DEF NoListInFlight
<1>6. CASE Deliver
  <2>1. PICK r \in reqs :
          \/ LoadPointsOk(r) \/ LoadPointsFail(r) \/ EditPointOk(r)
          \/ SavePointOk(r) \/ DeletePointOk(r) \/ MutationFail(r)
    BY <1>6 DEF Deliver, DeliverReq
  <2>2. CASE LoadPointsOk(r)
    BY <2>2 DEF LoadPointsOk, PagerTracksCurPage
  <2>3. CASE LoadPointsFail(r)
    BY <2>3 DEF LoadPointsFail, PagerTracksCurPage
  <2>4. CASE EditPointOk(r) \/ MutationFail(r)
    <3>1. r.op # "list" /\ reqs' = reqs \ {r} /\ UNCHANGED <<curPage, pager, lastLoad>>
      BY <2>4 DEF EditPointOk, MutationFail, Resume
    <3>. QED  BY <3>1, QuietStepKeepsTracking DEF NoListInFlight
  <2>5. CASE SavePointOk(r) \/ DeletePointOk(r)
    <3>1. NewReq("list", curPage) \in reqs'
      BY <2>5 DEF SavePointOk, DeletePointOk, ResumeAndReload
    <3>. QED  BY <3>1, ListSentKeepsTracking DEF NewReq
  <2>. QED  BY <2>1, <2>2, <2>3, <2>4, <2>5
<1>7. CASE DismissNotice
  BY <1>7, QuietStepKeepsTracking DEF DismissNotice, NoListInFlight
<1>8. CASE UNCHANGED vars
  BY <1>8, QuietStepKeepsTracking DEF vars, NoListInFlight
<1>. QED  BY <1>1, <1>2, <1>3, <1>4, <1>5, <1>6, <1>7, <1>8 DEF Next

(* Whatever order the list responses come back in, once every list load   *)
(* has resumed and the last succeeded, the pager highlights the live       *)
(* currentPage.points (sys.js 296: renderPagination reads the global).     *)
THEOREM PagerTracksCurPageHolds == Spec => []PagerTracksCurPage
<1>1. Init => PagerTracksCurPage
  BY DEF Init, PagerTracksCurPage
<1>. QED  BY <1>1, TrackingStep, PTL DEF Spec

=============================================================================
