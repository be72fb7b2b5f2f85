------------------------------ MODULE PointView ------------------------------
(***************************************************************************)
(* The point-configuration tab of sys.js: the paged point list             *)
(* (loadPoints, renderPointsTable, updatePointsPagination), its search and *)
(* page controls, and the point CRUD handlers (editPoint, savePoint,       *)
(* deletePoint) with the point modal and the notifications they raise.     *)
(*                                                                         *)
(* Every fetch is split in three steps: the handler that sends it, the     *)
(* backend that answers it (Serve), and the continuation after the await   *)
(* (one action per handler outcome).  Requests in flight form a set, so    *)
(* they are answered and delivered in any order: fetch promises resolve in *)
(* arrival order and the code neither sequences nor cancels them.          *)
(*                                                                         *)
(* The backend is not in the repository; Serve models it from spec         *)
(* section 6.  Point records are abstracted to their ids; the device and   *)
(* mark filters are left to the composition with the device view.          *)
(***************************************************************************)
EXTENDS Integers, FiniteSets, Sequences, Pagination

CONSTANTS
    PageSize,     \* pageSize (sys.js line 6)
    MaxIds,       \* the backend stores points with ids 1..MaxIds
    MaxRequests   \* bound: the operator sends a request only while fewer
                  \* than MaxRequests requests have been sent

ASSUME PageSizeAssumption == PageSize \in Nat \ {0}
ASSUME MaxIdsAssumption == MaxIds \in Nat
ASSUME MaxRequestsAssumption == MaxRequests \in Nat

Ids == 1..MaxIds

\* The value of a blank id field (document.getElementById('point-id').value = '').
NoId == 0

VARIABLES
    curPage,      \* currentPage.points
    totalPoints,  \* totalPoints
    tbody,        \* what #point-config tbody shows
    pager,        \* the controls in #point-config .pagination, by the
                  \* (currentPage, totalPages) they were rendered from
    pointModal,   \* point-modal display is 'flex'
    formId,       \* the point-id field of point-form
    reqs,         \* fetches sent and not yet resumed
    nextRid,      \* requests sent so far, plus one
    server,       \* ids of the points the backend holds
    notices,      \* notification-container children, oldest first
    lastLoad      \* history: outcome of the latest list response to arrive

vars == <<curPage, totalPoints, tbody, pager, pointModal, formId, reqs,
          nextRid, server, notices, lastLoad>>

-----------------------------------------------------------------------------
(* Values of the table body and of requests.                               *)

Blank == [kind |-> "blank", rows |-> {}, page |-> 0, count |-> 0]

\* showLoading: the spinner row (sys.js 877-880).
Loading == [kind |-> "loading", rows |-> {}, page |-> 0, count |-> 0]

\* renderPointsTable(data.points): the rows, or the "暂无点位数据" row when empty.
Rows(rs, p, c) == [kind |-> "rows", rows |-> rs, page |-> p, count |-> c]

Ops == {"list", "get", "save", "delete"}

Request == [rid : Nat, op : Ops, arg : Int, state : {"sent", "answered"},
            ok : BOOLEAN, rows : SUBSET Ids, count : 0..MaxIds]

\* A fetch just sent: arg is the page for a list, the id for the others.
NewReq(op, arg) == [rid |-> nextRid, op |-> op, arg |-> arg, state |-> "sent",
                    ok |-> FALSE, rows |-> {}, count |-> 0]

Send(op, arg) ==
    /\ reqs' = reqs \cup {NewReq(op, arg)}
    /\ nextRid' = nextRid + 1

\* The operator can still start a request (the bound MaxRequests).
CanSend == nextRid <= MaxRequests

Notify(kind) == notices' = Append(notices, kind)

-----------------------------------------------------------------------------
(* The backend (spec section 6: GET /api/points?page=&pageSize= returns    *)
(* {points, totalCount}; ids are kept in ascending order).                 *)

\* Position of point x in the backend's ordering.
Rank(S, x) == Cardinality({y \in S : y <= x})

\* The points of page p: positions (p-1)*pageSize+1 .. p*pageSize.
PageRows(S, p) == {x \in S : Rank(S, x) \in ((p - 1) * PageSize + 1)..(p * PageSize)}

\* The answer to r, with the page of S it read (used by lists only).
Answer(r, S, ok) == [rid |-> r.rid, op |-> r.op, arg |-> r.arg, state |-> "answered",
                     ok |-> ok, rows |-> PageRows(S, r.arg), count |-> Cardinality(S)]

Reply(r, ok) == reqs' = (reqs \ {r}) \cup {Answer(r, server, ok)}

\* What the backend does with a request it accepts: a list or get reads, a
\* save with a blank id creates a point under a free id, a save with an id
\* updates it (the record's fields are abstracted away), a delete removes.
Apply(r) ==
    \/ /\ r.op = "list"
       /\ UNCHANGED server
    \/ /\ r.op = "get" \/ (r.op = "save" /\ r.arg # NoId)
       /\ r.arg \in server
       /\ UNCHANGED server
    \/ /\ r.op = "save" /\ r.arg = NoId
       /\ \E id \in Ids \ server : server' = server \cup {id}
    \/ /\ r.op = "delete"
       /\ r.arg \in server
       /\ server' = server \ {r.arg}

\* The backend answers one request: it succeeds; or a mutation takes effect
\* but its response is lost or unreadable, so the client's await throws; or
\* the request fails (transport, non-2xx, unknown id) with no effect.
ServeReq(r) ==
    /\ r.state = "sent"
    /\ \/ Apply(r) /\ Reply(r, TRUE)
       \/ Apply(r) /\ r.op \in {"save", "delete"} /\ Reply(r, FALSE)
       \/ Reply(r, FALSE) /\ UNCHANGED server
    /\ UNCHANGED <<curPage, totalPoints, tbody, pager, pointModal, formId,
                   nextRid, notices, lastLoad>>

Serve == \E r \in reqs : ServeReq(r)

-----------------------------------------------------------------------------
(* loadPoints (sys.js 263-299) up to its await: showLoading, then GET the  *)
(* page held in currentPage.points when it is called.                      *)

LoadPoints(page) ==
    /\ tbody' = Loading
    /\ Send("list", page)

(* The point modal is a full-window backdrop (clicking it closes it, sys.js *)
(* 100-105), so while it is open the page's own controls cannot be used.    *)
PageUsable == ~pointModal

\* Clicking the point-config tab (sys.js 19-36): the page is not reset.
ActivatePointTab ==
    /\ PageUsable /\ CanSend
    /\ LoadPoints(curPage)
    /\ UNCHANGED <<curPage, totalPoints, pager, pointModal, formId, server,
                   notices, lastLoad>>

\* search-btn (sys.js 123-126): back to page 1 and reload.
Search ==
    /\ PageUsable /\ CanSend
    /\ curPage' = 1
    /\ LoadPoints(1)
    /\ UNCHANGED <<totalPoints, pager, pointModal, formId, server, notices, lastLoad>>

(* The pager's buttons (sys.js 361-395) exist as last rendered; their      *)
(* handlers change the live currentPage.points, not the value rendered.    *)
PrevPage ==
    /\ PageUsable /\ CanSend
    /\ HasPrev(pager.cp)
    /\ curPage' = curPage - 1
    /\ LoadPoints(curPage - 1)
    /\ UNCHANGED <<totalPoints, pager, pointModal, formId, server, notices, lastLoad>>

NextPage ==
    /\ PageUsable /\ CanSend
    /\ HasNext(pager.cp, pager.tp)
    /\ curPage' = curPage + 1
    /\ LoadPoints(curPage + 1)
    /\ UNCHANGED <<totalPoints, pager, pointModal, formId, server, notices, lastLoad>>

GotoPage(i) ==
    /\ PageUsable /\ CanSend
    /\ i \in PageButtons(pager.cp, pager.tp)
    /\ curPage' = i
    /\ LoadPoints(i)
    /\ UNCHANGED <<totalPoints, pager, pointModal, formId, server, notices, lastLoad>>

\* add-point-btn (sys.js 61-65): reset the form, blank the id, show the modal.
AddPoint ==
    /\ PageUsable
    /\ pointModal' = TRUE
    /\ formId' = NoId
    /\ UNCHANGED <<curPage, totalPoints, tbody, pager, reqs, nextRid, server,
                   notices, lastLoad>>

\* A row's 修改 button: editPoint(id) up to its await (sys.js 712-719).
EditPoint(id) ==
    /\ PageUsable /\ CanSend
    /\ id \in tbody.rows
    /\ Send("get", id)
    /\ UNCHANGED <<curPage, totalPoints, tbody, pager, pointModal, formId, server,
                   notices, lastLoad>>

\* A row's 删除 button: deletePoint(id), the operator confirms (sys.js 779-789);
\* declining returns before any state change.
DeletePoint(id) ==
    /\ PageUsable /\ CanSend
    /\ id \in tbody.rows
    /\ Send("delete", id)
    /\ UNCHANGED <<curPage, totalPoints, tbody, pager, pointModal, formId, server,
                   notices, lastLoad>>

\* The close control, cancel-point or a click on the backdrop: closeModals.
ClosePointModal ==
    /\ pointModal
    /\ pointModal' = FALSE
    /\ UNCHANGED <<curPage, totalPoints, tbody, pager, formId, reqs, nextRid,
                   server, notices, lastLoad>>

(* Submitting point-form: savePoint up to its await (sys.js 621-656).  The *)
(* id is read from the form now; a blank id means POST, otherwise PUT.     *)
(* The modal stays open and the submit button enabled while it is in flight.*)
SubmitPoint ==
    /\ pointModal /\ CanSend
    /\ Send("save", formId)
    /\ UNCHANGED <<curPage, totalPoints, tbody, pager, pointModal, formId, server,
                   notices, lastLoad>>

-----------------------------------------------------------------------------
(* Continuations: the rest of each handler once its fetch settles.  The    *)
(* response r is removed from the requests in flight.                      *)

Resume(r) == reqs' = reqs \ {r}

\* Mutant: the success path shows the spinner but the reload's fetch is never made.
MutReloadNoFetch(r) ==
    /\ tbody' = Loading
    /\ reqs' = reqs \ {r}
    /\ nextRid' = nextRid + 1

\* Resume r and call loadPoints() for the live currentPage.points.
ResumeAndReload(r) ==
    /\ tbody' = Loading
    /\ reqs' = (reqs \ {r}) \cup {NewReq("list", curPage)}
    /\ nextRid' = nextRid + 1

\* Mutant: the pager rendered for the page the request asked for.
MutLoadPointsOkRequestPage(r) ==
    /\ r.op = "list" /\ r.ok
    /\ Resume(r)
    /\ tbody' = Rows(r.rows, r.arg, r.count)
    /\ totalPoints' = r.count
    /\ pager' = [cp |-> r.arg, tp |-> TotalPages(r.count, PageSize)]
    /\ lastLoad' = "ok"
    /\ UNCHANGED <<curPage, pointModal, formId, nextRid, server, notices>>

(* loadPoints after the await (sys.js 286-298): render the rows, then set  *)
(* totalPoints and render the pager from the live currentPage.points.      *)
LoadPointsOk(r) ==
    /\ r.op = "list" /\ r.ok
    /\ Resume(r)
    /\ tbody' = Rows(r.rows, r.arg, r.count)
    /\ totalPoints' = r.count
    /\ pager' = [cp |-> curPage, tp |-> TotalPages(r.count, PageSize)]
    /\ lastLoad' = "ok"
    /\ UNCHANGED <<curPage, pointModal, formId, nextRid, server, notices>>

\* Mutant: the catch replaces the table with an error row, as fetchDeviceData does.
MutLoadPointsFailErrorRow(r) ==
    /\ r.op = "list" /\ ~r.ok
    /\ Resume(r)
    /\ Notify("error")
    /\ tbody' = [kind |-> "error", rows |-> {}, page |-> 0, count |-> 0]
    /\ lastLoad' = "failed"
    /\ UNCHANGED <<curPage, totalPoints, pager, pointModal, formId,
                   nextRid, server>>

\* The catch of loadPoints: notify; the table keeps what showLoading put there.
LoadPointsFail(r) ==
    /\ r.op = "list" /\ ~r.ok
    /\ Resume(r)
    /\ Notify("error")
    /\ lastLoad' = "failed"
    /\ UNCHANGED <<curPage, totalPoints, tbody, pager, pointModal, formId,
                   nextRid, server>>

\* editPoint after the await (sys.js 721-749): fill the form, show the modal.
EditPointOk(r) ==
    /\ r.op = "get" /\ r.ok
    /\ Resume(r)
    /\ formId' = r.arg
    /\ pointModal' = TRUE
    /\ UNCHANGED <<curPage, totalPoints, tbody, pager, nextRid, server, notices,
                   lastLoad>>

\* savePoint after the await (sys.js 658-665): notify, hide, loadPoints().
SavePointOk(r) ==
    /\ r.op = "save" /\ r.ok
    /\ Notify("success")
    /\ pointModal' = FALSE
    /\ ResumeAndReload(r)
    /\ UNCHANGED <<curPage, totalPoints, pager, formId, server, lastLoad>>

\* deletePoint after the await (sys.js 790-795): notify, loadPoints().
DeletePointOk(r) ==
    /\ r.op = "delete" /\ r.ok
    /\ Notify("success")
    /\ ResumeAndReload(r)
    /\ UNCHANGED <<curPage, totalPoints, pager, pointModal, formId, server, lastLoad>>

\* The catch of editPoint, savePoint or deletePoint: notify, nothing else.
MutationFail(r) ==
    /\ r.op \in {"get", "save", "delete"} /\ ~r.ok
    /\ Resume(r)
    /\ Notify("error")
    /\ UNCHANGED <<curPage, totalPoints, tbody, pager, pointModal, formId,
                   nextRid, server, lastLoad>>

\* The await of the handler that sent r resumes with r's outcome.
DeliverReq(r) ==
    /\ r.state = "answered"
    /\ \/ LoadPointsOk(r) \/ LoadPointsFail(r) \/ EditPointOk(r)
       \/ SavePointOk(r) \/ DeletePointOk(r) \/ MutationFail(r)

Deliver == \E r \in reqs : DeliverReq(r)

\* The setTimeout of showNotification (sys.js 925-929): all use 3000 ms, so
\* they fire in the order the notifications were added.
DismissNotice ==
    /\ notices # <<>>
    /\ notices' = Tail(notices)
    /\ UNCHANGED <<curPage, totalPoints, tbody, pager, pointModal, formId, reqs,
                   nextRid, server, lastLoad>>

-----------------------------------------------------------------------------

(* The page as served: the globals of sys.js 2-8, an empty form and table, *)
(* and whatever points the backend already holds.                          *)
Init ==
    /\ curPage = 1
    /\ totalPoints = 0
    /\ tbody = Blank
    /\ pager = [cp |-> 1, tp |-> 0]
    /\ pointModal = FALSE
    /\ formId = NoId
    /\ reqs = {}
    /\ nextRid = 1
    /\ server \in SUBSET Ids
    /\ notices = <<>>
    /\ lastLoad = "none"

Next ==
    \/ ActivatePointTab \/ Search \/ PrevPage \/ NextPage
    \/ \E i \in PageButtons(pager.cp, pager.tp) : GotoPage(i)
    \/ AddPoint \/ ClosePointModal \/ SubmitPoint
    \/ \E id \in Ids : EditPoint(id) \/ DeletePoint(id)
    \/ Serve \/ Deliver \/ DismissNotice

Spec == Init /\ [][Next]_vars

(* Fairness.  Every fetch settles: the backend answers or the transport    *)
(* fails (the browser times a dead connection out), and the event loop      *)
(* then runs the continuation of its await.  Both hold per request (ids are *)
(* unique), so no request is starved by others.  The operator's actions get *)
(* no fairness: the operator may stop at any time.                          *)
ServeRid(i) == \E r \in reqs : r.rid = i /\ ServeReq(r)

DeliverRid(i) == \E r \in reqs : r.rid = i /\ DeliverReq(r)

\* Request ids in use: the operator sends at most MaxRequests, and each of
\* them triggers at most one reload (SavePointOk, DeletePointOk).
RidBound == 2 * MaxRequests

FairSpec ==
    /\ Spec
    /\ \A i \in 1..RidBound : WF_vars(ServeRid(i)) /\ WF_vars(DeliverRid(i))

-----------------------------------------------------------------------------
(* Properties.                                                             *)

\* No point-list request is in flight.
NoListInFlight == \A r \in reqs : r.op # "list"

\* A get or delete names a stored id; a save names one or is blank.
ArgsTyped(R) ==
    \A r \in R : /\ r.op \in {"get", "delete"} => r.arg \in Ids
                 /\ r.op = "save" => r.arg \in {NoId} \cup Ids

TypeOK ==
    /\ curPage \in Int
    /\ totalPoints \in 0..MaxIds
    /\ tbody \in [kind : {"blank", "loading", "rows"}, rows : SUBSET Ids,
                  page : Int, count : 0..MaxIds]
    /\ pager \in [cp : Int, tp : 0..MaxIds]
    /\ pointModal \in BOOLEAN
    /\ formId \in {NoId} \cup Ids
    /\ reqs \subseteq Request
    /\ ArgsTyped(reqs)
    /\ nextRid \in Nat \ {0}
    /\ server \subseteq Ids
    /\ notices \in Seq({"success", "error"})
    /\ lastLoad \in {"none", "ok", "failed"}

(* Once every list request has resumed and the last to arrive succeeded,   *)
(* the pager highlights the live currentPage.points, whatever order the    *)
(* responses came back in: each page change sends a load, and each load    *)
(* renders the pager from the global, not from its own request.            *)
PagerTracksCurPage ==
    (NoListInFlight /\ lastLoad = "ok") => pager.cp = curPage

(* Spec section 4.1: currentPage >= 1.  Every page the view asks the       *)
(* backend for is a real page number (sys.js 269).                         *)
PageRequestValid == \A r \in reqs : r.op = "list" => r.arg >= 1

(* Spec section 4.1: the "暂无点位数据" placeholder is the rendering of an  *)
(* empty collection (totalCount = 0); it is never shown while the backend  *)
(* reported points.                                                        *)
PlaceholderOnlyWhenEmpty ==
    (tbody.kind = "rows" /\ tbody.rows = {}) => tbody.count = 0

(* Spec section 9 (last-arrival-wins is a latent ordering bug): once every *)
(* list request has resumed and the last succeeded, the rows shown are     *)
(* those of the page the pager highlights.                                 *)
ShownPageIsCurrent ==
    (NoListInFlight /\ lastLoad = "ok") => tbody.page = curPage

(* Liveness: the spinner that showLoading puts in the table (on a tab     *)
(* click, a page change, or the reload after a save or delete) is always   *)
(* followed by rendered rows, or by the end of all list loads with the     *)
(* last one failed.  It needs every fetch to settle and every continuation *)
(* to run (FairSpec), and that every path that shows the spinner also     *)
(* sends the list fetch whose continuation replaces it.                    *)
SpinnerResolves ==
    tbody.kind = "loading"
        ~> (tbody.kind = "rows" \/ (NoListInFlight /\ lastLoad = "failed"))

=============================================================================
