------------------------------ MODULE DeviceView ------------------------------
(***************************************************************************)
(* The device-configuration tab of sys.js: the device list (loadDevices,   *)
(* renderDevicesTable, updateDeviceSelect), the device-select filter it    *)
(* rebuilds, the device CRUD handlers (editDevice, saveDevice,             *)
(* deleteDevice) with the device modal, and the running/stopped switch of  *)
(* each row (toggleDeviceStatus).                                          *)
(*                                                                         *)
(* Fetches are modelled as in PointView: the handler sends a request, the  *)
(* backend (Serve, from spec section 6) answers it, and the continuation   *)
(* after the await runs, all in any order.  A device is abstracted to its  *)
(* id and its running flag; the other fields of the form are left out.     *)
(***************************************************************************)
EXTENDS Integers, FiniteSets, Sequences

CONSTANTS
    MaxDevices,   \* the backend stores devices with ids 1..MaxDevices
    MaxRequests   \* bound: requests the operator sends (DOMContentLoaded's
                  \* loadDevices included)

ASSUME MaxDevicesAssumption == MaxDevices \in Nat
ASSUME MaxRequestsAssumption == MaxRequests \in Nat \ {0}

DevIds == 1..MaxDevices

\* A blank device-id field, and the "请选择" option (value '') of device-select.
NoDev == 0

VARIABLES
    devTable,     \* what #device-config tbody shows
    checked,      \* the checkbox of each rendered row, by device id
    options,      \* the device options of device-select
    sel,          \* device-select's value
    chosen,       \* history: the value the operator last selected
    deviceModal,  \* device-modal display is 'flex'
    formDev,      \* the device-id field of device-form
    reqs,         \* fetches sent and not yet resumed
    nextRid,      \* requests sent so far, plus one
    stored,       \* ids of the devices the backend holds
    status,       \* the backend's running flag of each device
    notices,      \* notification-container children, oldest first
    lastLoad      \* history: outcome of the latest device list to arrive

vars == <<devTable, checked, options, sel, chosen, deviceModal, formDev, reqs,
          nextRid, stored, status, notices, lastLoad>>

-----------------------------------------------------------------------------
\* showLoading('device-config') (sys.js 877-880).
Loading == [kind |-> "loading", rows |-> {}]

\* renderDevicesTable (sys.js 211-261): one row per device, or 暂无设备数据.
Rows(rs) == [kind |-> "rows", rows |-> rs]

Ops == {"list", "get", "save", "delete", "status"}

Mutations == {"save", "delete", "status"}

\* arg: the device id ('' for a create); val: the running flag sent by a
\* save (the form's initial-status) or a toggle (this.checked).
Request == [rid : Nat, op : Ops, arg : 0..MaxDevices, val : BOOLEAN,
            state : {"sent", "answered"}, ok : BOOLEAN,
            rows : SUBSET DevIds, stat : [DevIds -> BOOLEAN]]

NewReq(op, arg, val) ==
    [rid |-> nextRid, op |-> op, arg |-> arg, val |-> val, state |-> "sent",
     ok |-> FALSE, rows |-> {}, stat |-> [d \in DevIds |-> FALSE]]

Send(op, arg, val) ==
    /\ reqs' = reqs \cup {NewReq(op, arg, val)}
    /\ nextRid' = nextRid + 1

CanSend == nextRid <= MaxRequests

Notify(kind) == notices' = Append(notices, kind)

-----------------------------------------------------------------------------
(* The backend (spec section 6): GET /api/devices returns every device;    *)
(* POST and PUT /api/devices[/:id] create or overwrite one, status         *)
(* included; DELETE removes one; PUT /api/devices/:id/status sets the flag. *)

Answer(r, ok) == [rid |-> r.rid, op |-> r.op, arg |-> r.arg, val |-> r.val,
                  state |-> "answered", ok |-> ok, rows |-> stored, stat |-> status]

Reply(r, ok) == reqs' = (reqs \ {r}) \cup {Answer(r, ok)}

Apply(r) ==
    \/ /\ r.op = "list"
       /\ UNCHANGED <<stored, status>>
    \/ /\ r.op = "get"
       /\ r.arg \in stored
       /\ UNCHANGED <<stored, status>>
    \/ /\ r.op = "save" /\ r.arg = NoDev
       /\ \E d \in DevIds \ stored :
            /\ stored' = stored \cup {d}
            /\ status' = [status EXCEPT ![d] = r.val]
    \/ /\ r.op \in {"save", "status"} /\ r.arg # NoDev
       /\ r.arg \in stored
       /\ status' = [status EXCEPT ![r.arg] = r.val]
       /\ UNCHANGED stored
    \/ /\ r.op = "delete"
       /\ r.arg \in stored
       /\ stored' = stored \ {r.arg}
       /\ UNCHANGED status

\* Success; a mutation applied whose response is lost or unreadable; or a
\* failure with no effect.
ServeReq(r) ==
    /\ r.state = "sent"
    /\ \/ Apply(r) /\ Reply(r, TRUE)
       \/ Apply(r) /\ r.op \in Mutations /\ Reply(r, FALSE)
       \/ Reply(r, FALSE) /\ UNCHANGED <<stored, status>>
    /\ UNCHANGED <<devTable, checked, options, sel, chosen, deviceModal, formDev,
                   nextRid, notices, lastLoad>>

Serve == \E r \in reqs : ServeReq(r)

-----------------------------------------------------------------------------
(* loadDevices (sys.js 166-172) up to its await.                           *)
LoadDevices ==
    /\ devTable' = Loading
    /\ Send("list", NoDev, FALSE)

\* The device modal is a full-window backdrop (sys.js 100-105).
PageUsable == ~deviceModal

\* Clicking the device-config tab (sys.js 19-36).
ActivateDeviceTab ==
    /\ PageUsable /\ CanSend
    /\ LoadDevices
    /\ UNCHANGED <<checked, options, sel, chosen, deviceModal, formDev, stored,
                   status, notices, lastLoad>>

\* The operator picks an option of device-select (the point and rule filter).
SelectDevice(d) ==
    /\ PageUsable
    /\ d \in options \cup {NoDev}
    /\ sel' = d
    /\ chosen' = d
    /\ UNCHANGED <<devTable, checked, options, deviceModal, formDev, reqs,
                   nextRid, stored, status, notices, lastLoad>>

\* add-device-btn (sys.js 54-58): reset the form, blank the id, show.
AddDevice ==
    /\ PageUsable
    /\ deviceModal' = TRUE
    /\ formDev' = NoDev
    /\ UNCHANGED <<devTable, checked, options, sel, chosen, reqs, nextRid, stored,
                   status, notices, lastLoad>>

\* A row's 修改 button: editDevice up to its await (sys.js 672-679).
EditDevice(d) ==
    /\ PageUsable /\ CanSend
    /\ d \in devTable.rows
    /\ Send("get", d, FALSE)
    /\ UNCHANGED <<devTable, checked, options, sel, chosen, deviceModal, formDev,
                   stored, status, notices, lastLoad>>

\* A row's 删除 button, confirmed: deleteDevice up to its await (756-765).
DeleteDevice(d) ==
    /\ PageUsable /\ CanSend
    /\ d \in devTable.rows
    /\ Send("delete", d, FALSE)
    /\ UNCHANGED <<devTable, checked, options, sel, chosen, deviceModal, formDev,
                   stored, status, notices, lastLoad>>

(* A click on a row's switch: the browser flips the checkbox, then the    *)
(* onchange handler toggleDeviceStatus(id, this.checked) sends the new     *)
(* value (sys.js 554-562).                                                  *)
ToggleDevice(d) ==
    /\ PageUsable /\ CanSend
    /\ d \in devTable.rows
    /\ checked' = [checked EXCEPT ![d] = ~checked[d]]
    /\ Send("status", d, ~checked[d])
    /\ UNCHANGED <<devTable, options, sel, chosen, deviceModal, formDev, stored,
                   status, notices, lastLoad>>

\* closeModals, the close control, cancel-device, the backdrop (81-105).
CloseDeviceModal ==
    /\ deviceModal
    /\ deviceModal' = FALSE
    /\ UNCHANGED <<devTable, checked, options, sel, chosen, formDev, reqs,
                   nextRid, stored, status, notices, lastLoad>>

(* Submitting device-form: saveDevice up to its await (sys.js 575-603);    *)
(* PUT when device-id is set, else POST; the running flag is whatever the  *)
(* initial-status field holds.                                              *)
SubmitDevice ==
    /\ deviceModal /\ CanSend
    /\ \E b \in BOOLEAN : Send("save", formDev, b)
    /\ UNCHANGED <<devTable, checked, options, sel, chosen, deviceModal, formDev,
                   stored, status, notices, lastLoad>>

-----------------------------------------------------------------------------
(* Continuations.                                                          *)

Resume(r) == reqs' = reqs \ {r}

\* Mutant: the success path shows the spinner but never sends the reload.
MutReloadNoFetch(r) ==
    /\ devTable' = Loading
    /\ reqs' = reqs \ {r}
    /\ nextRid' = nextRid + 1

\* Resume r and call loadDevices().
ResumeAndReload(r) ==
    /\ devTable' = Loading
    /\ reqs' = (reqs \ {r}) \cup {NewReq("list", NoDev, FALSE)}
    /\ nextRid' = nextRid + 1

\* Mutant: the catch replaces the table with an error row.
MutLoadDevicesFailErrorRow(r) ==
    /\ r.op = "list" /\ ~r.ok
    /\ Resume(r)
    /\ Notify("error")
    /\ devTable' = [kind |-> "error", rows |-> {}]
    /\ lastLoad' = "failed"
    /\ UNCHANGED <<checked, options, sel, chosen, deviceModal, formDev, nextRid,
                   stored, status>>

(* loadDevices after the await (sys.js 180-186): renderDevicesTable draws  *)
(* each switch from device.status; updateDeviceSelect (193-208) rebuilds   *)
(* the options, which selects "请选择", and restores currentDeviceId, which  *)
(* no code assigns, so the select is left at ''.                           *)
LoadDevicesOk(r) ==
    /\ r.op = "list" /\ r.ok
    /\ Resume(r)
    /\ devTable' = Rows(r.rows)
    /\ checked' = r.stat
    /\ options' = r.rows
    /\ sel' = NoDev
    /\ lastLoad' = "ok"
    /\ UNCHANGED <<chosen, deviceModal, formDev, nextRid, stored, status, notices>>

\* The catch of loadDevices (187-189): notify; the spinner stays.
LoadDevicesFail(r) ==
    /\ r.op = "list" /\ ~r.ok
    /\ Resume(r)
    /\ Notify("error")
    /\ lastLoad' = "failed"
    /\ UNCHANGED <<devTable, checked, options, sel, chosen, deviceModal, formDev,
                   nextRid, stored, status>>

\* editDevice after the await (sys.js 686-706): fill the form, show.
EditDeviceOk(r) ==
    /\ r.op = "get" /\ r.ok
    /\ Resume(r)
    /\ formDev' = r.arg
    /\ deviceModal' = TRUE
    /\ UNCHANGED <<devTable, checked, options, sel, chosen, nextRid, stored,
                   status, notices, lastLoad>>

\* saveDevice after the await (sys.js 609-613): notify, hide, loadDevices().
SaveDeviceOk(r) ==
    /\ r.op = "save" /\ r.ok
    /\ Notify("success")
    /\ deviceModal' = FALSE
    /\ ResumeAndReload(r)
    /\ UNCHANGED <<checked, options, sel, chosen, formDev, stored, status, lastLoad>>

\* deleteDevice after the await (sys.js 771-773): notify, loadDevices().
DeleteDeviceOk(r) ==
    /\ r.op = "delete" /\ r.ok
    /\ Notify("success")
    /\ ResumeAndReload(r)
    /\ UNCHANGED <<checked, options, sel, chosen, deviceModal, formDev, stored,
                   status, lastLoad>>

\* toggleDeviceStatus after the await (sys.js 568): notify only.
ToggleOk(r) ==
    /\ r.op = "status" /\ r.ok
    /\ Resume(r)
    /\ Notify("success")
    /\ UNCHANGED <<devTable, checked, options, sel, chosen, deviceModal, formDev,
                   nextRid, stored, status, lastLoad>>

\* The catch of editDevice, saveDevice, deleteDevice or toggleDeviceStatus:
\* notify; in particular the switch is not flipped back.
MutationFail(r) ==
    /\ r.op \in {"get"} \cup Mutations /\ ~r.ok
    /\ Resume(r)
    /\ Notify("error")
    /\ UNCHANGED <<devTable, checked, options, sel, chosen, deviceModal, formDev,
                   nextRid, stored, status, lastLoad>>

DeliverReq(r) ==
    /\ r.state = "answered"
    /\ \/ LoadDevicesOk(r) \/ LoadDevicesFail(r) \/ EditDeviceOk(r)
       \/ SaveDeviceOk(r) \/ DeleteDeviceOk(r) \/ ToggleOk(r) \/ MutationFail(r)

Deliver == \E r \in reqs : DeliverReq(r)

\* The 3-second timers of showNotification fire in order (sys.js 925-929).
DismissNotice ==
    /\ notices # <<>>
    /\ notices' = Tail(notices)
    /\ UNCHANGED <<devTable, checked, options, sel, chosen, deviceModal, formDev,
                   reqs, nextRid, stored, status, lastLoad>>

-----------------------------------------------------------------------------
(* Right after DOMContentLoaded (sys.js 11-14): the globals are set        *)
(* (currentDeviceId = ''), loadDevices has shown the spinner and sent its   *)
(* fetch, and the backend holds any devices.                               *)
Init ==
    /\ devTable = Loading
    /\ checked = [d \in DevIds |-> FALSE]
    /\ options = {}
    /\ sel = NoDev
    /\ chosen = NoDev
    /\ deviceModal = FALSE
    /\ formDev = NoDev
    /\ reqs = {[rid |-> 1, op |-> "list", arg |-> NoDev, val |-> FALSE,
                state |-> "sent", ok |-> FALSE, rows |-> {},
                stat |-> [d \in DevIds |-> FALSE]]}
    /\ nextRid = 2
    /\ stored \in SUBSET DevIds
    /\ status \in [DevIds -> BOOLEAN]
    /\ notices = <<>>
    /\ lastLoad = "none"

Next ==
    \/ ActivateDeviceTab \/ AddDevice \/ CloseDeviceModal \/ SubmitDevice
    \/ \E d \in options \cup {NoDev} : SelectDevice(d)
    \/ \E d \in DevIds : EditDevice(d) \/ DeleteDevice(d) \/ ToggleDevice(d)
    \/ Serve \/ Deliver \/ DismissNotice

Spec == Init /\ [][Next]_vars

(* Every fetch settles and its continuation runs (see PointView); request  *)
(* ids are at most twice MaxRequests, since only a successful save or      *)
(* delete sends a further request.                                         *)
ServeRid(i) == \E r \in reqs : r.rid = i /\ ServeReq(r)

DeliverRid(i) == \E r \in reqs : r.rid = i /\ DeliverReq(r)

RidBound == 2 * MaxRequests

FairSpec ==
    /\ Spec
    /\ \A i \in 1..RidBound : WF_vars(ServeRid(i)) /\ WF_vars(DeliverRid(i))

-----------------------------------------------------------------------------
(* Properties.                                                             *)

NoListInFlight == \A r \in reqs : r.op # "list"

TypeOK ==
    /\ devTable \in [kind : {"loading", "rows"}, rows : SUBSET DevIds]
    /\ checked \in [DevIds -> BOOLEAN]
    /\ options \subseteq DevIds
    /\ sel \in {NoDev} \cup DevIds
    /\ chosen \in {NoDev} \cup DevIds
    /\ deviceModal \in BOOLEAN
    /\ formDev \in {NoDev} \cup DevIds
    /\ reqs \subseteq Request
    /\ nextRid \in Nat \ {0}
    /\ stored \subseteq DevIds
    /\ status \in [DevIds -> BOOLEAN]
    /\ notices \in Seq({"success", "error"})
    /\ lastLoad \in {"none", "ok", "failed"}

(* Liveness: the spinner of loadDevices (on start-up, a tab click, or the  *)
(* reload after a save or delete) is always replaced by the device rows,   *)
(* or every device list has ended with the last one failed.                *)
DeviceSpinnerResolves ==
    devTable.kind = "loading"
        ~> (devTable.kind = "rows" \/ (NoListInFlight /\ lastLoad = "failed"))

(* Spec section 5: the selected-device state is written only by the       *)
(* operator, never by a fetch callback.  The comment at sys.js 203 says    *)
(* updateDeviceSelect restores the selected device.                        *)
SelectionOnlyByOperator == sel = chosen

=============================================================================
