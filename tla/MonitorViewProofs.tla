------------------------- MODULE MonitorViewProofs --------------------------
(***************************************************************************)
(* Proofs about the system-monitor tab, for every number of devices and   *)
(* every request bound: the type invariant of the tab, the alarm overlay  *)
(* and the requests in flight.                                             *)
(***************************************************************************)
EXTENDS MonitorView, TLAPS

USE MaxDevicesAssumption, MaxRequestsAssumption

(* A request just sent is well typed when its argument is a device or     *)
(* none.                                                                   *)
LEMMA SendType ==
    ASSUME reqs \subseteq Request, nextRid \in Nat \ {0},
           NEW op \in {"snapshot", "alarms"}, NEW a \in 0..MaxDevices,
           Send(op, a)
    PROVE  /\ reqs' \subseteq Request
           /\ reqs' = reqs \cup {NewReq(op, a)}
           /\ NewReq(op, a).op = op
           /\ nextRid' \in Nat \ {0}
<1>1. NewReq(op, a) \in Request /\ NewReq(op, a).op = op
  BY DEF NewReq, Request
<1>. QED  BY <1>1 DEF Send

(* The backend's answer is a request of the same operation and argument.  *)
LEMMA AnswerType ==
    ASSUME reqs \subseteq Request, alarming \subseteq DevIds, NEW r \in reqs,
           NEW ok \in BOOLEAN
    PROVE  LET a == [r EXCEPT !.state = "answered", !.ok = ok, !.alarmed = alarming]
           IN  /\ a \in Request
               /\ a.op = r.op
               /\ a.arg = r.arg
  BY DEF Request

(* Every step keeps the type.                                             *)
LEMMA TypeStep == TypeOK /\ [Next]_vars => TypeOK'
<1>. SUFFICES ASSUME TypeOK, [Next]_vars PROVE TypeOK'
  OBVIOUS
<1>0. NoDev \in 0..MaxDevices /\ DevIds \subseteq 0..MaxDevices
  BY DEF NoDev, DevIds
<1>1. CASE FetchDeviceData
  <2>1. reqs' \subseteq Request /\ nextRid' \in Nat \ {0}
    BY <1>0, <1>1, SendType DEF FetchDeviceData, TypeOK
  <2>. QED  BY <1>1, <2>1 DEF FetchDeviceData, Loading, TypeOK
<1>2. CASE CloseAlarmModal
  BY <1>2 DEF CloseAlarmModal, TypeOK
<1>3. CASE \E d \in DevIds : ShowAlarmDetails(d)
  <2>1. PICK d \in DevIds : ShowAlarmDetails(d)
    BY <1>3
  <2>2. reqs' \subseteq Request /\ nextRid' \in Nat \ {0}
    BY <1>0, <2>1, SendType DEF ShowAlarmDetails, TypeOK
  <2>. QED  BY <2>1, <2>2 DEF ShowAlarmDetails, TypeOK
<1>4. CASE Serve
  <2>1. PICK r \in reqs, ok \in BOOLEAN :
          /\ reqs' = (reqs \ {r}) \cup {[r EXCEPT !.state = "answered", !.ok = ok,
                                                   !.alarmed = alarming]}
          /\ UNCHANGED <<refreshing, monTable, alarmModal, nameDev, overlay,
                         shownAlarms, nextRid, alarming>>
    BY <1>4 DEF Serve, ServeReq
  <2>2. reqs' \subseteq Request
    BY <2>1, AnswerType DEF TypeOK
  <2>. QED  BY <2>1, <2>2 DEF TypeOK
<1>5. CASE Deliver
  <2>1. PICK r \in reqs : SnapshotOk(r) \/ SnapshotFail(r) \/ AlarmsOk(r) \/ AlarmsFail(r)
    BY <1>5 DEF Deliver, DeliverReq
  <2>2. r.alarmed \subseteq DevIds /\ r.arg \in {NoDev} \cup DevIds
        /\ reqs \ {r} \subseteq Request
    BY DEF TypeOK, Request, NoDev, DevIds
  <2>3. CASE SnapshotOk(r)
    BY <2>2, <2>3 DEF SnapshotOk, Rows, TypeOK
  <2>4. CASE SnapshotFail(r)
    BY <2>2, <2>4 DEF SnapshotFail, ErrorRow, TypeOK
  <2>5. CASE AlarmsOk(r)
    BY <2>2, <2>5 DEF AlarmsOk, TypeOK
  <2>6. CASE AlarmsFail(r)
    BY <2>2, <2>6 DEF AlarmsFail, TypeOK
  <2>. QED  BY <2>1, <2>3, <2>4, <2>5, <2>6
<1>6. CASE UNCHANGED vars
  BY <1>6 DEF vars, TypeOK
<1>. QED  BY <1>1, <1>2, <1>3, <1>4, <1>5, <1>6 DEF Next

(* The tab's state keeps its type.                                         *)
LEMMA InitType == Init => TypeOK
<1>. SUFFICES ASSUME Init PROVE TypeOK
  OBVIOUS
<1>1. refreshing \in BOOLEAN /\ alarmModal \in BOOLEAN
  BY DEF Init
<1>2. monTable \in [kind : {"loading", "rows", "error"}, alarmed : SUBSET DevIds]
  BY DEF Init, Rows
<1>3. nameDev \in {NoDev} \cup DevIds /\ shownAlarms \in {NoDev} \cup DevIds
      /\ overlay \in {"loading", "loaded", "error"}
  BY DEF Init
<1>4. reqs \subseteq Request /\ nextRid \in Nat \ {0} /\ alarming \subseteq DevIds
  BY DEF Init
<1>. QED  BY <1>1, <1>2, <1>3, <1>4 DEF TypeOK

THEOREM TypeCorrect == Spec => []TypeOK
<1>1. Init => TypeOK
  BY InitType
<1>. QED  BY <1>1, TypeStep, PTL DEF Spec

=============================================================================
