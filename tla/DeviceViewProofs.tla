------------------------- MODULE DeviceViewProofs ---------------------------
(***************************************************************************)
(* Proofs about the device-configuration tab, for every number of devices  *)
(* and every request bound: the type invariant of the tab, the device      *)
(* select and the backend's store under every interleaving of handlers,    *)
(* backend answers and continuations.                                      *)
(***************************************************************************)
EXTENDS DeviceView, TLAPS

USE MaxDevicesAssumption, MaxRequestsAssumption

(* A device id, or the blank id field, is an argument of a request.       *)
LEMMA ArgRange == NoDev \in 0..MaxDevices /\ DevIds \subseteq 0..MaxDevices
  BY DEF NoDev, DevIds

(* A request just built by a handler is well typed.                       *)
LEMMA NewReqType ==
    ASSUME nextRid \in Nat, NEW op \in Ops, NEW a \in 0..MaxDevices,
           NEW v \in BOOLEAN
    PROVE  NewReq(op, a, v) \in Request
  BY DEF NewReq, Request

(* Sending keeps the in-flight set and the request counter typed.         *)
LEMMA SendType ==
    ASSUME reqs \subseteq Request, nextRid \in Nat \ {0},
           NEW op \in Ops, NEW a \in 0..MaxDevices, NEW v \in BOOLEAN,
           Send(op, a, v)
    PROVE  reqs' \subseteq Request /\ nextRid' \in Nat \ {0}
  BY NewReqType DEF Send

(* The backend's answer carries a snapshot of a well-typed store.         *)
LEMMA AnswerType ==
    ASSUME stored \subseteq DevIds, status \in [DevIds -> BOOLEAN],
           NEW r \in Request, NEW ok \in BOOLEAN
    PROVE  Answer(r, ok) \in Request
  BY DEF Answer, Request

(* Every backend operation keeps the store typed: a create takes a free   *)
(* id, an update or delete names a stored one.                            *)
LEMMA ApplyType ==
    ASSUME stored \subseteq DevIds, status \in [DevIds -> BOOLEAN],
           NEW r \in Request, Apply(r)
    PROVE  stored' \subseteq DevIds /\ status' \in [DevIds -> BOOLEAN]
<1>1. CASE r.op = "save" /\ r.arg = NoDev
      /\ \E d \in DevIds \ stored :
            /\ stored' = stored \cup {d}
            /\ status' = [status EXCEPT ![d] = r.val]
  <2>1. r.val \in BOOLEAN
    BY DEF Request
  <2>. QED  BY <1>1, <2>1
<1>2. CASE r.op \in {"save", "status"} /\ r.arg # NoDev /\ r.arg \in stored
      /\ status' = [status EXCEPT ![r.arg] = r.val] /\ UNCHANGED stored
  <2>1. r.val \in BOOLEAN
    BY DEF Request
  <2>. QED  BY <1>2, <2>1
<1>3. CASE r.arg \in stored /\ stored' = stored \ {r.arg} /\ UNCHANGED status
  BY <1>3
<1>4. CASE UNCHANGED <<stored, status>>
  BY <1>4
<1>. QED  BY <1>1, <1>2, <1>3, <1>4 DEF Apply

(* The backend's step keeps the in-flight set and the store typed.        *)
LEMMA ServeType ==
    ASSUME reqs \subseteq Request, stored \subseteq DevIds,
           status \in [DevIds -> BOOLEAN], Serve
    PROVE  /\ reqs' \subseteq Request
           /\ stored' \subseteq DevIds /\ status' \in [DevIds -> BOOLEAN]
           /\ UNCHANGED <<devTable, checked, options, sel, chosen, deviceModal,
                          formDev, nextRid, notices, lastLoad>>
<1>1. PICK r \in reqs : ServeReq(r)
  BY DEF Serve
<1>2. r \in Request
  OBVIOUS
<1>3. stored' \subseteq DevIds /\ status' \in [DevIds -> BOOLEAN]
  BY <1>1, <1>2, ApplyType DEF ServeReq
<1>4. \E ok \in BOOLEAN : reqs' = (reqs \ {r}) \cup {Answer(r, ok)}
  BY <1>1 DEF ServeReq, Reply
<1>5. reqs' \subseteq Request
  BY <1>2, <1>4, AnswerType
<1>. QED  BY <1>1, <1>3, <1>5 DEF ServeReq

(* A continuation keeps the tab typed: a list response carries a typed    *)
(* snapshot, a get response a device id, and a reload sends a list.       *)
LEMMA DeliverType ==
    ASSUME TypeOK, Deliver
    PROVE  TypeOK'
<1>1. PICK r \in reqs : DeliverReq(r)
  BY DEF Deliver
<1>2. /\ r.rows \subseteq DevIds /\ r.stat \in [DevIds -> BOOLEAN]
      /\ r.arg \in {NoDev} \cup DevIds
      /\ reqs \ {r} \subseteq Request
  BY DEF TypeOK, Request, NoDev, DevIds
<1>3. NewReq("list", NoDev, FALSE) \in Request
  BY ArgRange, NewReqType DEF TypeOK, Ops
<1>4. CASE LoadDevicesOk(r)
  BY <1>2, <1>4 DEF LoadDevicesOk, Resume, Rows, TypeOK, NoDev
<1>5. CASE LoadDevicesFail(r)
  BY <1>2, <1>5 DEF LoadDevicesFail, Resume, Notify, TypeOK
<1>6. CASE EditDeviceOk(r)
  BY <1>2, <1>6 DEF EditDeviceOk, Resume, TypeOK
<1>a. ASSUME ResumeAndReload(r)
      PROVE  /\ devTable' \in [kind : {"loading", "rows"}, rows : SUBSET DevIds]
             /\ reqs' \subseteq Request /\ nextRid' \in Nat \ {0}
  <2>1. devTable' = Loading /\ reqs' = (reqs \ {r}) \cup {NewReq("list", NoDev, FALSE)}
        /\ nextRid' = nextRid + 1
    BY <1>a DEF ResumeAndReload
  <2>2. Loading \in [kind : {"loading", "rows"}, rows : SUBSET DevIds]
    BY DEF Loading
  <2>3. nextRid + 1 \in Nat \ {0}
    BY DEF TypeOK
  <2>. QED  BY <2>1, <2>2, <2>3, <1>2, <1>3
<1>b. ASSUME Notify("success") PROVE notices' \in Seq({"success", "error"})
  BY <1>b DEF Notify, TypeOK
<1>7. CASE SaveDeviceOk(r)
  <2>1. ResumeAndReload(r) /\ Notify("success") /\ deviceModal' = FALSE
        /\ UNCHANGED <<checked, options, sel, chosen, formDev, stored, status, lastLoad>>
    BY <1>7 DEF SaveDeviceOk
  <2>. QED  BY <2>1, <1>a, <1>b DEF TypeOK
<1>8. CASE DeleteDeviceOk(r)
  <2>1. ResumeAndReload(r) /\ Notify("success")
        /\ UNCHANGED <<checked, options, sel, chosen, deviceModal, formDev, stored,
                       status, lastLoad>>
    BY <1>8 DEF DeleteDeviceOk
  <2>. QED  BY <2>1, <1>a, <1>b DEF TypeOK
<1>9. CASE ToggleOk(r)
  BY <1>2, <1>9 DEF ToggleOk, Resume, Notify, TypeOK
<1>10. CASE MutationFail(r)
  BY <1>2, <1>10 DEF MutationFail, Resume, Notify, TypeOK
<1>. QED  BY <1>1, <1>4, <1>5, <1>6, <1>7, <1>8, <1>9, <1>10 DEF DeliverReq

(* Every step keeps the type.                                             *)
LEMMA TypeStep == TypeOK /\ [Next]_vars => TypeOK'
<1>. SUFFICES ASSUME TypeOK, [Next]_vars PROVE TypeOK'
  OBVIOUS
<1>0. /\ reqs \subseteq Request /\ nextRid \in Nat \ {0}
      /\ NoDev \in 0..MaxDevices /\ DevIds \subseteq 0..MaxDevices
  BY ArgRange DEF TypeOK
<1>1. CASE ActivateDeviceTab
  <2>1. reqs' \subseteq Request /\ nextRid' \in Nat \ {0}
    BY <1>0, <1>1, SendType DEF ActivateDeviceTab, LoadDevices, Ops
  <2>. QED  BY <1>1, <2>1 DEF ActivateDeviceTab, LoadDevices, Loading, TypeOK
<1>2. CASE AddDevice
  BY <1>2 DEF AddDevice, TypeOK, NoDev
<1>3. CASE CloseDeviceModal
  BY <1>3 DEF CloseDeviceModal, TypeOK
<1>4. CASE SubmitDevice
  <2>1. formDev \in 0..MaxDevices
    BY DEF TypeOK, NoDev, DevIds
  <2>2. reqs' \subseteq Request /\ nextRid' \in Nat \ {0}
    BY <1>0, <1>4, <2>1, SendType DEF SubmitDevice, Ops
  <2>. QED  BY <1>4, <2>2 DEF SubmitDevice, TypeOK
<1>5. CASE \E d \in options \cup {NoDev} : SelectDevice(d)
  <2>1. PICK d \in options \cup {NoDev} : SelectDevice(d)
    BY <1>5
  <2>. QED  BY <2>1 DEF SelectDevice, TypeOK
<1>6. CASE \E d \in DevIds : EditDevice(d) \/ DeleteDevice(d) \/ ToggleDevice(d)
  <2>1. PICK d \in DevIds : EditDevice(d) \/ DeleteDevice(d) \/ ToggleDevice(d)
    BY <1>6
  <2>2. CASE EditDevice(d)
    <3>1. reqs' \subseteq Request /\ nextRid' \in Nat \ {0}
      BY <1>0, <2>2, SendType DEF EditDevice, Ops
    <3>. QED  BY <2>2, <3>1 DEF EditDevice, TypeOK
  <2>3. CASE DeleteDevice(d)
    <3>1. reqs' \subseteq Request /\ nextRid' \in Nat \ {0}
      BY <1>0, <2>3, SendType DEF DeleteDevice, Ops
    <3>. QED  BY <2>3, <3>1 DEF DeleteDevice, TypeOK
  <2>4. CASE ToggleDevice(d)
    <3>1. (~checked[d]) \in BOOLEAN
      BY DEF TypeOK
    <3>2. reqs' \subseteq Request /\ nextRid' \in Nat \ {0}
      BY <1>0, <2>4, <3>1, SendType DEF ToggleDevice, Ops
    <3>. QED  BY <2>4, <3>2 DEF ToggleDevice, TypeOK
  <2>. QED  BY <2>1, <2>2, <2>3, <2>4
<1>7. CASE Serve
  BY <1>7, ServeType DEF TypeOK
<1>8. CASE Deliver
  BY <1>8, DeliverType
<1>9. CASE DismissNotice
  BY <1>9 DEF DismissNotice, TypeOK
<1>10. CASE UNCHANGED vars
  BY <1>10 DEF vars, TypeOK
<1>. QED  BY <1>1, <1>2, <1>3, <1>4, <1>5, <1>6, <1>7, <1>8, <1>9, <1>10 DEF Next

(* The page's state right after DOMContentLoaded is well typed.           *)
LEMMA InitType == Init => TypeOK
<1>. SUFFICES ASSUME Init PROVE TypeOK
  OBVIOUS
<1>1. devTable \in [kind : {"loading", "rows"}, rows : SUBSET DevIds]
  BY DEF Init, Loading
<1>2. /\ checked \in [DevIds -> BOOLEAN] /\ options \subseteq DevIds
      /\ sel \in {NoDev} \cup DevIds /\ chosen \in {NoDev} \cup DevIds
      /\ deviceModal \in BOOLEAN /\ formDev \in {NoDev} \cup DevIds
  BY DEF Init
<1>3. reqs \subseteq Request /\ nextRid \in Nat \ {0}
  BY DEF Init, Request, NoDev, Ops
<1>4. /\ stored \subseteq DevIds /\ status \in [DevIds -> BOOLEAN]
      /\ notices \in Seq({"success", "error"}) /\ lastLoad \in {"none", "ok", "failed"}
  BY DEF Init
<1>. QED  BY <1>1, <1>2, <1>3, <1>4 DEF TypeOK

(* The device tab, its select and the backend's store keep their types    *)
(* under every interleaving of the handlers of sys.js, the backend's      *)
(* answers and the continuations after each await.                        *)
THEOREM TypeCorrect == Spec => []TypeOK
<1>1. Init => TypeOK
  BY InitType
<1>. QED  BY <1>1, TypeStep, PTL DEF Spec

=============================================================================
