------------------------- MODULE UserActionsProofs --------------------------
(***************************************************************************)
(* Proofs about the user-action cards, for every set of cards and every   *)
(* request bound: the type invariant, and that executeUserAction and the  *)
(* upload handler implement OutcomeLog: each system action or upload is   *)
(* sent once, reported once after it was sent, and never resent.          *)
(***************************************************************************)
EXTENDS UserActions, TLAPS

USE CardsAssumption, MaxRequestsAssumption

\* The numbers of the requests in flight: OutcomeLog's pending actions.
InFlight == {r.rid : r \in reqs}

Notice == [kind : {"success", "error", "info"}, op : AllCases, rid : Nat]

\* The request Send(op) adds.
Sent(op) == [rid |-> nextRid, op |-> op, state |-> "sent", ok |-> FALSE]

(* A request just sent is well typed and carries the next number.         *)
LEMMA SendType ==
    ASSUME reqs \subseteq Request, nextRid \in Nat \ {0},
           NEW op \in SystemOps \cup {"import"}, Send(op)
    PROVE  /\ Sent(op) \in Request /\ Sent(op).rid = nextRid
           /\ reqs' = reqs \cup {Sent(op)} /\ reqs' \subseteq Request
           /\ nextRid' = nextRid + 1 /\ nextRid' \in Nat \ {0}
<1>1. Sent(op) \in Request /\ Sent(op).rid = nextRid
  BY DEF Sent, Request
<1>2. reqs' = reqs \cup {Sent(op)} /\ nextRid' = nextRid + 1
  BY DEF Send, Sent
<1>. QED  BY <1>1, <1>2

(* A notice appended to a well-typed list keeps it well typed.            *)
LEMMA NotifyType ==
    ASSUME notices \in Seq(Notice),
           NEW k \in {"success", "error", "info"}, NEW o \in AllCases,
           NEW i \in Nat, Notify(k, o, i)
    PROVE  notices' \in Seq(Notice)
  BY DEF Notify, Notice

(* The inductive invariant.  TypeOK alone is not inductive: a delivery   *)
(* adds the request's number to "reported", and TypeOK does not say that  *)
(* number was issued.  Every request in flight carries an issued number,  *)
(* not yet reported, and no two carry the same one.                        *)
RidsIssued == \A r \in reqs : r.rid \in 1..(nextRid - 1) /\ r.rid \notin reported

RidsUnique == \A r1, r2 \in reqs : r1.rid = r2.rid => r1 = r2

IInv ==
    /\ TypeOK
    /\ nextRid <= MaxRequests + 1
    /\ RidsIssued
    /\ RidsUnique

(* The console's state with no action started satisfies IInv.            *)
LEMMA InitIInv == Init => IInv
<1>. SUFFICES ASSUME Init PROVE IInv
  OBVIOUS
<1>1. picker \in BOOLEAN
  BY Zenon DEF Init
<1>2. reqs \subseteq Request /\ nextRid \in Nat \ {0} /\ nextRid <= MaxRequests + 1
  BY DEF Init
<1>3. notices \in Seq([kind : {"success", "error", "info"}, op : AllCases, rid : Nat])
  BY DEF Init
<1>4. reported \subseteq 1..(nextRid - 1)
  BY DEF Init
<1>5. RidsIssued /\ RidsUnique
  BY DEF Init, RidsIssued, RidsUnique
<1>. QED  BY <1>1, <1>2, <1>3, <1>4, <1>5 DEF IInv, TypeOK

(* A system action or an upload sent under the request bound keeps IInv's *)
(* facts about numbers and is OutcomeLog's Begin of the next number: that *)
(* number is fresh, since every number in flight or reported is below it. *)
LEMMA SendStep ==
    ASSUME IInv, CanSend, NEW op \in SystemOps \cup {"import"}, Send(op),
           UNCHANGED reported
    PROVE  /\ reqs' \subseteq Request /\ nextRid' \in Nat \ {0}
           /\ nextRid' <= MaxRequests + 1
           /\ reported' \subseteq 1..(nextRid' - 1)
           /\ RidsIssued' /\ RidsUnique'
           /\ nextRid \in 1..MaxRequests /\ Outcomes!Begin(nextRid)
<1>1. /\ Sent(op) \in Request /\ Sent(op).rid = nextRid
      /\ reqs' = reqs \cup {Sent(op)} /\ reqs' \subseteq Request
      /\ nextRid' = nextRid + 1 /\ nextRid' \in Nat \ {0}
  BY SendType DEF IInv, TypeOK
<1>2. nextRid \in 1..MaxRequests /\ nextRid' <= MaxRequests + 1
  BY <1>1 DEF CanSend, IInv, TypeOK
<1>3. reported \subseteq 1..(nextRid - 1) /\ reported' \subseteq 1..(nextRid' - 1)
  BY <1>1 DEF IInv, TypeOK
<1>4. \A r \in reqs : r.rid \in 1..(nextRid - 1) /\ r.rid \notin reported
  BY DEF IInv, RidsIssued
<1>5. RidsIssued'
  BY <1>1, <1>2, <1>3, <1>4 DEF RidsIssued
<1>6. RidsUnique'
  <2>1. \A r1, r2 \in reqs : r1.rid = r2.rid => r1 = r2
    BY DEF IInv, RidsUnique
  <2>. QED  BY <1>1, <1>4, <2>1 DEF RidsUnique
<1>7. nextRid \notin InFlight \cup reported
  BY <1>2, <1>3, <1>4 DEF InFlight
<1>8. InFlight' = InFlight \cup {nextRid}
  BY <1>1 DEF InFlight
<1>. QED  BY <1>1, <1>2, <1>3, <1>5, <1>6, <1>7, <1>8 DEF Outcomes!Begin, InFlight

(* The backend's answer replaces a request by one with the same number:  *)
(* IInv's facts hold on, and no action is issued or reported.             *)
LEMMA ServeStep ==
    ASSUME IInv, Serve
    PROVE  /\ reqs' \subseteq Request /\ RidsIssued' /\ RidsUnique'
           /\ InFlight' = InFlight
           /\ UNCHANGED <<picker, nextRid, notices, reported>>
<1>1. PICK r \in reqs, ok \in BOOLEAN :
        /\ reqs' = (reqs \ {r}) \cup {[r EXCEPT !.state = "answered", !.ok = ok]}
        /\ UNCHANGED <<picker, nextRid, notices, reported>>
  BY DEF Serve, ServeReq
<1> DEFINE a == [r EXCEPT !.state = "answered", !.ok = ok]
<1>2. a \in Request /\ a.rid = r.rid
  BY DEF IInv, TypeOK, Request
<1>3. reqs' \subseteq Request
  BY <1>1, <1>2 DEF IInv, TypeOK
<1>4. RidsIssued'
  BY <1>1, <1>2 DEF IInv, RidsIssued
<1>5. RidsUnique'
  <2>1. \A x, y \in reqs : x.rid = y.rid => x = y
    BY DEF IInv, RidsUnique
  <2>2. \A y \in reqs \ {r} : a.rid # y.rid
    BY <1>2, <2>1
  <2>. QED  BY <1>1, <2>1, <2>2 DEF RidsUnique
<1>6. InFlight' = InFlight
  BY <1>1, <1>2 DEF InFlight
<1>. QED  BY <1>1, <1>3, <1>4, <1>5, <1>6

(* The continuation of a request removes it and reports its number: IInv's *)
(* facts hold on, and the step is OutcomeLog's Finish of that number.  The  *)
(* number leaves the in-flight set only because no other request in        *)
(* flight carries it.                                                       *)
LEMMA DeliverStep ==
    ASSUME IInv, NEW r \in reqs, DeliverReq(r)
    PROVE  /\ reqs' \subseteq Request /\ notices' \in Seq(Notice)
           /\ reported' \subseteq 1..(nextRid' - 1)
           /\ RidsIssued' /\ RidsUnique'
           /\ r.rid \in 1..MaxRequests /\ Outcomes!Finish(r.rid)
           /\ UNCHANGED <<picker, nextRid>>
<1>1. /\ reqs' = reqs \ {r} /\ reported' = reported \cup {r.rid}
      /\ Notify(IF r.ok THEN "success" ELSE "error", r.op, r.rid)
      /\ UNCHANGED <<picker, nextRid>>
  BY DEF DeliverReq
<1>2. /\ r \in Request /\ r.rid \in 1..(nextRid - 1) /\ r.rid \notin reported
      /\ nextRid \in Nat /\ nextRid <= MaxRequests + 1
  BY DEF IInv, TypeOK, RidsIssued
<1>3. \A x, y \in reqs : x.rid = y.rid => x = y
  BY DEF IInv, RidsUnique
<1>4. reqs' \subseteq Request /\ reported' \subseteq 1..(nextRid' - 1)
  BY <1>1, <1>2 DEF IInv, TypeOK
<1>5. notices' \in Seq(Notice)
  <2>1. /\ r.op \in AllCases /\ r.rid \in Nat
        /\ (IF r.ok THEN "success" ELSE "error") \in {"success", "error", "info"}
    BY <1>2 DEF Request, AllCases
  <2>2. notices \in Seq(Notice)
    BY DEF IInv, TypeOK, Notice
  <2>. QED  BY <1>1, <2>1, <2>2, NotifyType
<1>6. RidsIssued'
  <2>1. \A x \in reqs \ {r} : x.rid # r.rid
    BY <1>3
  <2>. QED  BY <1>1, <2>1 DEF IInv, RidsIssued
<1>7. RidsUnique'
  BY <1>1, <1>3 DEF RidsUnique
<1>8. r.rid \in 1..MaxRequests
  BY <1>2
<1>9. InFlight' = InFlight \ {r.rid}
  <2>1. \A x \in reqs \ {r} : x.rid # r.rid
    BY <1>3
  <2>. QED  BY <1>1, <2>1 DEF InFlight
<1>10. r.rid \in InFlight
  BY DEF InFlight
<1>. QED  BY <1>1, <1>4, <1>5, <1>6, <1>7, <1>8, <1>9, <1>10 DEF Outcomes!Finish, InFlight

(* IInv' from its conjuncts, each typed part given on its own.           *)
LEMMA IInvPrime ==
    ASSUME picker' \in BOOLEAN, reqs' \subseteq Request, nextRid' \in Nat \ {0},
           notices' \in Seq(Notice), reported' \subseteq 1..(nextRid' - 1),
           nextRid' <= MaxRequests + 1, RidsIssued', RidsUnique'
    PROVE  IInv'
  BY DEF IInv, TypeOK, Notice

(* A step that sends nothing and reports nothing keeps the numbers' facts. *)
LEMMA QuietStep ==
    ASSUME reqs \subseteq Request, nextRid \in Nat \ {0},
           reported \subseteq 1..(nextRid - 1), RidsIssued, RidsUnique,
           reqs' = reqs, reported' = reported,
           nextRid' = nextRid \/ nextRid' = nextRid + 1
    PROVE  /\ reqs' \subseteq Request /\ nextRid' \in Nat \ {0}
           /\ reported' \subseteq 1..(nextRid' - 1) /\ RidsIssued' /\ RidsUnique'
           /\ UNCHANGED <<InFlight, reported>>
<1>1. nextRid' \in Nat \ {0}
  OBVIOUS
<1>2. 1..(nextRid - 1) \subseteq 1..(nextRid' - 1)
  <2>1. CASE nextRid' = nextRid
    BY <2>1
  <2>2. CASE nextRid' = nextRid + 1
    BY <2>2
  <2>. QED  BY <2>1, <2>2
<1>3. reported' \subseteq 1..(nextRid' - 1)
  BY <1>2
<1>4. RidsIssued'
  BY <1>2 DEF RidsIssued
<1>5. RidsUnique' /\ UNCHANGED InFlight
  BY DEF RidsUnique, InFlight
<1>. QED  BY <1>1, <1>3, <1>4, <1>5

(* Every step keeps IInv and is a step of OutcomeLog or leaves its state  *)
(* alone.                                                                  *)
LEMMA Step == IInv /\ [Next]_vars => IInv' /\ [Outcomes!Next]_<<InFlight, reported>>
<1>. SUFFICES ASSUME IInv, [Next]_vars
              PROVE  IInv' /\ [Outcomes!Next]_<<InFlight, reported>>
  OBVIOUS
<1>0. picker \in BOOLEAN /\ notices \in Seq(Notice) /\ nextRid \in Nat
  BY DEF IInv, TypeOK, Notice
<1>1. CASE \E c \in Cards : ClickCard(c)
  <2>1. PICK c \in Cards : ClickCard(c)
    BY <1>1
  <2>2. c \in AllCases /\ CanSend /\ UNCHANGED reported
    BY <2>1 DEF ClickCard
  <2>3. CASE c \in SystemOps /\ Send(c) /\ UNCHANGED <<picker, notices, reported>>
    <3>1. /\ reqs' \subseteq Request /\ nextRid' \in Nat \ {0}
          /\ nextRid' <= MaxRequests + 1 /\ reported' \subseteq 1..(nextRid' - 1)
          /\ RidsIssued' /\ RidsUnique'
          /\ nextRid \in 1..MaxRequests /\ Outcomes!Begin(nextRid)
      BY <2>2, <2>3, SendStep
    <3>2. IInv'
      BY <1>0, <2>3, <3>1, IInvPrime
    <3>3. Outcomes!Next
      BY <3>1 DEF Outcomes!Next, Outcomes!Begin
    <3>. QED  BY <3>2, <3>3
  <2>4. CASE c = "import" /\ picker' = TRUE /\ UNCHANGED <<reqs, nextRid, notices, reported>>
    <3>1. /\ reqs' \subseteq Request /\ nextRid' \in Nat \ {0}
          /\ reported' \subseteq 1..(nextRid' - 1) /\ RidsIssued' /\ RidsUnique'
          /\ UNCHANGED <<InFlight, reported>>
      BY <2>4, QuietStep DEF IInv, TypeOK
    <3>2. picker' \in BOOLEAN
      BY <2>4
    <3>3. IInv'
      BY <1>0, <2>4, <3>1, <3>2, IInvPrime DEF IInv
    <3>. QED  BY <3>1, <3>3
  <2>5. CASE \E k \in {"info", "error"} :
               /\ Notify(k, c, nextRid) /\ nextRid' = nextRid + 1
               /\ UNCHANGED <<picker, reqs, reported>>
    <3>1. nextRid' <= MaxRequests + 1
      BY <1>0, <2>2, <2>5 DEF CanSend
    <3>2. /\ reqs' \subseteq Request /\ nextRid' \in Nat \ {0}
          /\ reported' \subseteq 1..(nextRid' - 1) /\ RidsIssued' /\ RidsUnique'
          /\ UNCHANGED <<InFlight, reported>>
      BY <2>5, <3>1, QuietStep DEF IInv, TypeOK
    <3>3. notices' \in Seq(Notice)
      BY <1>0, <2>2, <2>5, NotifyType
    <3>4. IInv'
      BY <1>0, <2>5, <3>1, <3>2, <3>3, IInvPrime
    <3>. QED  BY <3>2, <3>4
  <2>. QED  BY <2>1, <2>3, <2>4, <2>5 DEF ClickCard
<1>2. CASE PickFile
  <2>1. CanSend /\ picker' = FALSE /\ Send("import") /\ UNCHANGED <<notices, reported>>
    BY <1>2 DEF PickFile
  <2>2. /\ reqs' \subseteq Request /\ nextRid' \in Nat \ {0}
        /\ nextRid' <= MaxRequests + 1 /\ reported' \subseteq 1..(nextRid' - 1)
        /\ RidsIssued' /\ RidsUnique'
        /\ nextRid \in 1..MaxRequests /\ Outcomes!Begin(nextRid)
    BY <2>1, SendStep
  <2>3. picker' \in BOOLEAN
    BY <2>1
  <2>4. IInv'
    BY <1>0, <2>1, <2>2, <2>3, IInvPrime
  <2>5. Outcomes!Next
    BY <2>2 DEF Outcomes!Next, Outcomes!Begin
  <2>. QED  BY <2>4, <2>5
<1>3. CASE CancelPicker
  <2>1. picker' = FALSE /\ UNCHANGED <<reqs, nextRid, notices, reported>>
    BY <1>3 DEF CancelPicker
  <2>2. /\ reqs' \subseteq Request /\ nextRid' \in Nat \ {0}
        /\ reported' \subseteq 1..(nextRid' - 1) /\ RidsIssued' /\ RidsUnique'
        /\ UNCHANGED <<InFlight, reported>>
    BY <2>1, QuietStep DEF IInv, TypeOK
  <2>3. picker' \in BOOLEAN
    BY <2>1
  <2>4. IInv'
    BY <1>0, <2>1, <2>2, <2>3, IInvPrime DEF IInv
  <2>. QED  BY <2>2, <2>4
<1>4. CASE Serve
  <2>1. /\ reqs' \subseteq Request /\ RidsIssued' /\ RidsUnique'
        /\ InFlight' = InFlight
        /\ UNCHANGED <<picker, nextRid, notices, reported>>
    BY <1>4, ServeStep
  <2>2. IInv'
    BY <1>0, <2>1, IInvPrime DEF IInv, TypeOK
  <2>. QED  BY <2>1, <2>2
<1>5. CASE Deliver
  <2>1. PICK r \in reqs : DeliverReq(r)
    BY <1>5 DEF Deliver
  <2>2. /\ reqs' \subseteq Request /\ notices' \in Seq(Notice)
        /\ reported' \subseteq 1..(nextRid' - 1)
        /\ RidsIssued' /\ RidsUnique'
        /\ r.rid \in 1..MaxRequests /\ Outcomes!Finish(r.rid)
        /\ UNCHANGED <<picker, nextRid>>
    BY <2>1, DeliverStep
  <2>3. IInv'
    BY <1>0, <2>2, IInvPrime DEF IInv, TypeOK
  <2>4. Outcomes!Next
    BY <2>2 DEF Outcomes!Next, Outcomes!Finish
  <2>. QED  BY <2>3, <2>4
<1>6. CASE DismissNotice
  <2>1. notices # <<>> /\ notices' = Tail(notices)
        /\ UNCHANGED <<picker, reqs, nextRid, reported>>
    BY <1>6 DEF DismissNotice
  <2>2. notices' \in Seq(Notice)
    BY <1>0, <2>1
  <2>3. /\ reqs' \subseteq Request /\ nextRid' \in Nat \ {0}
        /\ reported' \subseteq 1..(nextRid' - 1) /\ RidsIssued' /\ RidsUnique'
        /\ UNCHANGED <<InFlight, reported>>
    BY <2>1, QuietStep DEF IInv, TypeOK
  <2>4. IInv'
    BY <1>0, <2>1, <2>2, <2>3, IInvPrime DEF IInv
  <2>. QED  BY <2>3, <2>4
<1>7. CASE UNCHANGED vars
  <2>1. UNCHANGED <<picker, reqs, nextRid, notices, reported>>
    BY <1>7 DEF vars
  <2>2. IInv'
    BY <2>1 DEF IInv, TypeOK, RidsIssued, RidsUnique
  <2>3. UNCHANGED <<InFlight, reported>>
    BY <2>1 DEF InFlight
  <2>. QED  BY <2>2, <2>3
<1>. QED  BY <1>1, <1>2, <1>3, <1>4, <1>5, <1>6, <1>7 DEF Next

(* IInv holds in every reachable state.                                    *)
LEMMA IInvHolds == Spec => []IInv
  BY InitIInv, Step, PTL DEF Spec

(* The cards, the picker and the notices keep their types under every     *)
(* interleaving of clicks, uploads, backend answers and timers.           *)
THEOREM TypeCorrect == Spec => []TypeOK
<1>1. IInv => TypeOK
  BY DEF IInv
<1>. QED  BY IInvHolds, <1>1, PTL

(* executeUserAction and the upload handler implement OutcomeLog: the     *)
(* numbers of the requests in flight and the reported numbers move as its *)
(* pending and done actions, so every system action or upload is sent     *)
(* under a fresh number, its outcome is notified exactly once and after   *)
(* it was sent, and nothing reported is ever sent again.  The argument is *)
(* IInv: a number is fresh because every number in flight or reported is  *)
(* below nextRid, and a delivery finishes exactly one pending action       *)
(* because no two requests in flight carry the same number.               *)
THEOREM ReportsFollowOutcomeLogHolds == Spec => ReportsFollowOutcomeLog
<1>1. Init => Outcomes!Init
  BY DEF Init, Outcomes!Init
<1>2. Init => IInv
  BY InitIInv
<1>. QED  BY <1>1, <1>2, Step, PTL DEF Spec, ReportsFollowOutcomeLog, Outcomes!Spec, InFlight

=============================================================================
