------------------------------ MODULE UserActions ------------------------------
(***************************************************************************)
(* The user-action cards of sys.js: a click on a card's button calls      *)
(* executeUserAction with the card's h3 text (sys.js 128-135), which       *)
(* dispatches on it (802-875): three system actions POST to their          *)
(* endpoint, 导入 opens a file picker whose change handler uploads the     *)
(* file, 下载模板 opens the template download, anything else is reported as *)
(* 未知操作.  The card titles live in the page template; they are           *)
(* abstracted to the case of the switch they reach.                        *)
(***************************************************************************)
EXTENDS Integers, Sequences

CONSTANTS
    Cards,        \* the cases the cards' titles reach, a subset of AllCases
    MaxRequests   \* bound: actions the operator starts (clicks and uploads)

\* 暂停, 刷新, 清空 (POST /api/system/pause, /api/system/flush, /api/data/clear).
SystemOps == {"pause", "flush", "clear"}

AllCases == SystemOps \cup {"import", "template", "other"}

ASSUME CardsAssumption == Cards \subseteq AllCases
ASSUME MaxRequestsAssumption == MaxRequests \in Nat

VARIABLES
    picker,       \* the hidden file input's picker is open
    reqs,         \* fetches sent and not yet settled
    nextRid,      \* actions started so far, plus one
    notices,      \* notification-container children, oldest first, each
                  \* with the number of the action it reports
    reported      \* history: requests whose outcome has been notified

vars == <<picker, reqs, nextRid, notices, reported>>

Request == [rid : Nat, op : SystemOps \cup {"import"}, state : {"sent", "answered"},
            ok : BOOLEAN]

Send(op) ==
    /\ reqs' = reqs \cup {[rid |-> nextRid, op |-> op, state |-> "sent", ok |-> FALSE]}
    /\ nextRid' = nextRid + 1

CanSend == nextRid <= MaxRequests

Notify(kind, op, rid) ==
    notices' = Append(notices, [kind |-> kind, op |-> op, rid |-> rid])

-----------------------------------------------------------------------------
(* executeUserAction(action), for a card reaching case c.  The file       *)
(* picker is the browser's own dialog and blocks the page while open.      *)
ClickCard(c) ==
    /\ ~picker /\ CanSend
    /\ \/ /\ c \in SystemOps
          /\ Send(c)
          /\ UNCHANGED <<picker, notices>>
       \/ /\ c = "import"
          /\ picker' = TRUE
          /\ UNCHANGED <<reqs, nextRid, notices>>
       \/ /\ c = "template"
          /\ Notify("info", c, nextRid)
          /\ nextRid' = nextRid + 1
          /\ UNCHANGED <<picker, reqs>>
       \/ /\ c = "other"
          /\ Notify("error", c, nextRid)
          /\ nextRid' = nextRid + 1
          /\ UNCHANGED <<picker, reqs>>
    /\ UNCHANGED reported

\* A file is chosen: onchange posts it to /api/config/import (823-834).
PickFile ==
    /\ picker /\ CanSend
    /\ picker' = FALSE
    /\ Send("import")
    /\ UNCHANGED <<notices, reported>>

\* The picker is dismissed, or onchange finds no file and returns (825).
CancelPicker ==
    /\ picker
    /\ picker' = FALSE
    /\ UNCHANGED <<reqs, nextRid, notices, reported>>

\* The backend answers, or the transport fails.
ServeReq(r) ==
    /\ r.state = "sent"
    /\ \E ok \in BOOLEAN :
         reqs' = (reqs \ {r}) \cup {[r EXCEPT !.state = "answered", !.ok = ok]}
    /\ UNCHANGED <<picker, nextRid, notices, reported>>

Serve == \E r \in reqs : ServeReq(r)

\* Mutant: the catch of the upload handler swallows the error.
MutDeliverImportFailSilent(r) ==
    /\ r.state = "answered"
    /\ reqs' = reqs \ {r}
    /\ IF r.op = "import" /\ ~r.ok THEN UNCHANGED <<notices, reported>>
       ELSE /\ Notify(IF r.ok THEN "success" ELSE "error", r.op, r.rid)
            /\ reported' = reported \cup {r.rid}
    /\ UNCHANGED <<picker, nextRid>>

\* Mutant: the catch reports the failure and then retries the same request.
MutDeliverRetryOnFail(r) ==
    /\ r.state = "answered"
    /\ reqs' = IF r.ok THEN reqs \ {r}
               ELSE (reqs \ {r}) \cup {[r EXCEPT !.state = "sent"]}
    /\ Notify(IF r.ok THEN "success" ELSE "error", r.op, r.rid)
    /\ reported' = reported \cup {r.rid}
    /\ UNCHANGED <<picker, nextRid>>

(* After the await (837-843 for the upload, 859-872 for the system        *)
(* actions): 'success' on a 2xx, otherwise the catch's 'error'.            *)
DeliverReq(r) ==
    /\ r.state = "answered"
    /\ reqs' = reqs \ {r}
    /\ Notify(IF r.ok THEN "success" ELSE "error", r.op, r.rid)
    /\ reported' = reported \cup {r.rid}
    /\ UNCHANGED <<picker, nextRid>>

Deliver == \E r \in reqs : DeliverReq(r)

\* The 3-second timers of showNotification fire in order (sys.js 925-929).
DismissNotice ==
    /\ notices # <<>>
    /\ notices' = Tail(notices)
    /\ UNCHANGED <<picker, reqs, nextRid, reported>>

Init ==
    /\ picker = FALSE
    /\ reqs = {}
    /\ nextRid = 1
    /\ notices = <<>>
    /\ reported = {}

Next ==
    \/ \E c \in Cards : ClickCard(c)
    \/ PickFile \/ CancelPicker \/ Serve \/ Deliver \/ DismissNotice

Spec == Init /\ [][Next]_vars

(* Every fetch settles and its continuation runs; each notification's     *)
(* timer fires.  The operator's clicks get no fairness.                    *)
ServeRid(i) == \E r \in reqs : r.rid = i /\ ServeReq(r)

DeliverRid(i) == \E r \in reqs : r.rid = i /\ DeliverReq(r)

FairSpec ==
    /\ Spec
    /\ \A i \in 1..MaxRequests : WF_vars(ServeRid(i)) /\ WF_vars(DeliverRid(i))
    /\ WF_vars(DismissNotice)

-----------------------------------------------------------------------------
TypeOK ==
    /\ picker \in BOOLEAN
    /\ reqs \subseteq Request
    /\ nextRid \in Nat \ {0}
    /\ notices \in Seq([kind : {"success", "error", "info"}, op : AllCases, rid : Nat])
    /\ reported \subseteq 1..(nextRid - 1)

(* Spec section 7: every failure is caught and surfaced as a notification, *)
(* which dismisses itself.  Each system action or upload that is sent ends *)
(* with its outcome notified, and that notice is later dismissed.        *)
EveryRequestReported ==
    \A i \in 1..MaxRequests :
        (\E r \in reqs : r.rid = i)
            ~> (i \in reported /\ \A k \in 1..Len(notices) : notices[k].rid # i)

(* Spec section 7, as a refinement: the numbers of the requests in flight *)
(* are OutcomeLog's pending actions and the reported ones its done         *)
(* actions.  Each system action or upload is then sent once, its outcome   *)
(* is notified exactly once, after it was sent, and it is never resent.    *)
Outcomes == INSTANCE OutcomeLog WITH
    Ids <- 1..MaxRequests,
    pending <- {r.rid : r \in reqs},
    done <- reported

ReportsFollowOutcomeLog == Outcomes!Spec

=============================================================================
