------------------------------ MODULE MonitorView ------------------------------
(***************************************************************************)
(* The system-monitor tab of sys.js: fetchDeviceData with the refresh      *)
(* button's loading class, updateStats and renderDeviceTable, and the      *)
(* alarm overlay of showAlarmDetails / renderAlarmTable.  Both fetches are *)
(* promise chains that are never sequenced or cancelled; they are sent,    *)
(* answered by the backend and resumed in any order, as in PointView.  A   *)
(* device row is abstracted to its id and whether it has alarms.           *)
(***************************************************************************)
EXTENDS Integers, FiniteSets, Sequences

CONSTANTS
    MaxDevices,   \* monitored devices have ids 1..MaxDevices
    MaxRequests   \* bound: requests the operator sends

ASSUME MaxDevicesAssumption == MaxDevices \in Nat
ASSUME MaxRequestsAssumption == MaxRequests \in Nat

DevIds == 1..MaxDevices

NoDev == 0

VARIABLES
    refreshing,   \* refreshBtn has the class 'loading'
    monTable,     \* what deviceTableBody shows
    alarmModal,   \* alarmModal display is 'flex'
    nameDev,      \* the device whose name modalDeviceName shows
    overlay,      \* which of modalLoading, alarmTable, modalError is shown
    shownAlarms,  \* the device whose alarms alarmTableBody holds
    reqs,         \* fetches sent and not yet settled
    nextRid,      \* requests sent so far, plus one
    alarming      \* devices the backend reports with currentAlarmCount > 0

vars == <<refreshing, monTable, alarmModal, nameDev, overlay, shownAlarms, reqs,
          nextRid, alarming>>

-----------------------------------------------------------------------------
\* The spinner row fetchDeviceData writes (sys.js 1088-1096).
Loading == [kind |-> "loading", alarmed |-> {}]

\* renderDeviceTable (945-995): rows, a clickable badge on each with alarms.
Rows(a) == [kind |-> "rows", alarmed |-> a]

\* The 加载设备数据失败 row of the catch (1115-1123).
ErrorRow == [kind |-> "error", alarmed |-> {}]

Request == [rid : Nat, op : {"snapshot", "alarms"}, arg : 0..MaxDevices,
            state : {"sent", "answered"}, ok : BOOLEAN, alarmed : SUBSET DevIds]

NewReq(op, arg) == [rid |-> nextRid, op |-> op, arg |-> arg, state |-> "sent",
                    ok |-> FALSE, alarmed |-> {}]

Send(op, arg) ==
    /\ reqs' = reqs \cup {NewReq(op, arg)}
    /\ nextRid' = nextRid + 1

CanSend == nextRid <= MaxRequests

(* The backend (spec section 6): POST /api/system/monitor returns the     *)
(* device array, GET /api/system/monitor?id= the alarms of one device.     *)
(* Both only read; either may fail.                                        *)
ServeReq(r) ==
    /\ r.state = "sent"
    /\ \E ok \in BOOLEAN :
         reqs' = (reqs \ {r}) \cup {[r EXCEPT !.state = "answered", !.ok = ok,
                                              !.alarmed = alarming]}
    /\ UNCHANGED <<refreshing, monTable, alarmModal, nameDev, overlay, shownAlarms,
                   nextRid, alarming>>

Serve == \E r \in reqs : ServeReq(r)

-----------------------------------------------------------------------------
(* The alarm overlay is a full-window backdrop (a click on it closes it,  *)
(* sys.js 157-162), so the page's controls are unusable while it is shown. *)
PageUsable == ~alarmModal

(* fetchDeviceData up to its fetch (sys.js 1083-1102), run by refreshBtn  *)
(* (147-149) or a click on the system-monitor tab (33-34).                 *)
FetchDeviceData ==
    /\ PageUsable /\ CanSend
    /\ refreshing' = TRUE
    /\ monTable' = Loading
    /\ Send("snapshot", NoDev)
    /\ UNCHANGED <<alarmModal, nameDev, overlay, shownAlarms, alarming>>

(* A click on an alarm badge: showAlarmDetails up to its fetch (997-1016): *)
(* the device's name is shown at once, with the overlay in Loading.        *)
ShowAlarmDetails(d) ==
    /\ PageUsable /\ CanSend
    /\ monTable.kind = "rows" /\ d \in monTable.alarmed
    /\ nameDev' = d
    /\ alarmModal' = TRUE
    /\ overlay' = "loading"
    /\ Send("alarms", d)
    /\ UNCHANGED <<refreshing, monTable, shownAlarms, alarming>>

\* The overlay's close button or its backdrop (sys.js 152-162).
CloseAlarmModal ==
    /\ alarmModal
    /\ alarmModal' = FALSE
    /\ UNCHANGED <<refreshing, monTable, nameDev, overlay, shownAlarms, reqs,
                   nextRid, alarming>>

-----------------------------------------------------------------------------
(* Continuations.                                                          *)

\* Mutant: the catch leaves the refresh button spinning.
MutSnapshotFailKeepsLoading(r) ==
    /\ r.op = "snapshot" /\ ~r.ok
    /\ reqs' = reqs \ {r}
    /\ monTable' = ErrorRow
    /\ UNCHANGED <<refreshing, alarmModal, nameDev, overlay, shownAlarms,
                   nextRid, alarming>>

\* fetchDeviceData's success (1110-1114): updateStats, renderDeviceTable,
\* remove the loading class.
SnapshotOk(r) ==
    /\ r.op = "snapshot" /\ r.ok
    /\ reqs' = reqs \ {r}
    /\ monTable' = Rows(r.alarmed)
    /\ refreshing' = FALSE
    /\ UNCHANGED <<alarmModal, nameDev, overlay, shownAlarms, nextRid, alarming>>

\* fetchDeviceData's catch (1115-1125): the error row, remove the class.
SnapshotFail(r) ==
    /\ r.op = "snapshot" /\ ~r.ok
    /\ reqs' = reqs \ {r}
    /\ monTable' = ErrorRow
    /\ refreshing' = FALSE
    /\ UNCHANGED <<alarmModal, nameDev, overlay, shownAlarms, nextRid, alarming>>

(* showAlarmDetails' success (1023-1039): hide modalLoading, render the    *)
(* alarms (or 该设备暂无告警信息) and show the table, whether or not the   *)
(* overlay is still open and whichever device it now names.                *)
AlarmsOk(r) ==
    /\ r.op = "alarms" /\ r.ok
    /\ reqs' = reqs \ {r}
    /\ overlay' = "loaded"
    /\ shownAlarms' = r.arg
    /\ UNCHANGED <<refreshing, monTable, alarmModal, nameDev, nextRid, alarming>>

\* showAlarmDetails' catch (1041-1045): hide modalLoading, show modalError.
AlarmsFail(r) ==
    /\ r.op = "alarms" /\ ~r.ok
    /\ reqs' = reqs \ {r}
    /\ overlay' = "error"
    /\ UNCHANGED <<refreshing, monTable, alarmModal, nameDev, shownAlarms, nextRid,
                   alarming>>

DeliverReq(r) ==
    /\ r.state = "answered"
    /\ \/ SnapshotOk(r) \/ SnapshotFail(r) \/ AlarmsOk(r) \/ AlarmsFail(r)

Deliver == \E r \in reqs : DeliverReq(r)

-----------------------------------------------------------------------------
(* Before the tab is first shown: no class, the table as served, the      *)
(* overlay hidden; the backend reports any devices as alarming.            *)
Init ==
    /\ refreshing = FALSE
    /\ monTable = Rows({})
    /\ alarmModal = FALSE
    /\ nameDev = NoDev
    /\ overlay = "loading"
    /\ shownAlarms = NoDev
    /\ reqs = {}
    /\ nextRid = 1
    /\ alarming \in SUBSET DevIds

Next ==
    \/ FetchDeviceData \/ CloseAlarmModal
    \/ \E d \in DevIds : ShowAlarmDetails(d)
    \/ Serve \/ Deliver

Spec == Init /\ [][Next]_vars

(* Every fetch settles and its continuation runs: the browser resolves or  *)
(* rejects each fetch and then runs its then or catch callback, whatever   *)
(* else is pending.  The operator's clicks get no fairness.                *)
ServeRid(i) == \E r \in reqs : r.rid = i /\ ServeReq(r)

DeliverRid(i) == \E r \in reqs : r.rid = i /\ DeliverReq(r)

FairSpec ==
    /\ Spec
    /\ \A i \in 1..MaxRequests : WF_vars(ServeRid(i)) /\ WF_vars(DeliverRid(i))

-----------------------------------------------------------------------------
(* Properties.                                                             *)

TypeOK ==
    /\ refreshing \in BOOLEAN
    /\ monTable \in [kind : {"loading", "rows", "error"}, alarmed : SUBSET DevIds]
    /\ alarmModal \in BOOLEAN
    /\ nameDev \in {NoDev} \cup DevIds
    /\ overlay \in {"loading", "loaded", "error"}
    /\ shownAlarms \in {NoDev} \cup DevIds
    /\ reqs \subseteq Request
    /\ nextRid \in Nat \ {0}
    /\ alarming \subseteq DevIds

(* Liveness, spec section 4.5: every loading state the tab shows is      *)
(* replaced.  The refresh button's loading class and the spinner row of   *)
(* fetchDeviceData, and the modalLoading of showAlarmDetails, are each     *)
(* eventually cleared, under any overlap of refreshes and drill-downs:     *)
(* every path out of both promise chains, then or catch, must clear them.  *)
MonitorSettles ==
    /\ refreshing ~> ~refreshing
    /\ monTable.kind = "loading" ~> monTable.kind # "loading"
    /\ (alarmModal /\ overlay = "loading") ~> overlay # "loading"

(* Spec sections 4.5 and 8 (alarm drill-down): the loaded overlay lists   *)
(* the alarms of the device whose badge was clicked, the one it names.     *)
AlarmsMatchName ==
    (alarmModal /\ overlay = "loaded") => shownAlarms = nameDev

=============================================================================
