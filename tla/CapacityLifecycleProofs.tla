----------------------- MODULE CapacityLifecycleProofs -----------------------
(***************************************************************************)
(* Proofs about CapacityLifecycle for any number of concurrent requests,   *)
(* addresses and faults: the firewall and the power-on are sent once, no   *)
(* call is sent without the lease it needs, a running server is behind its *)
(* firewall, and a deleted order leaves nothing behind.                    *)
(***************************************************************************)
EXTENDS CapacityLifecycle, TLAPS

-----------------------------------------------------------------------------
(* The inductive invariant.                                                *)

(* A request that still may send, or whose call is on its way.             *)
Live(w) == ~worker[w].late \/ worker[w].pc \in Waiting

Leased == CleanPCs \ {"retire", "claim"}

(* A lease pins the order: setup's to an order created off on a connection *)
(* that stays, cleanup's to one that is being cleaned.                     *)
LeasesPin ==
    /\ boot.lease # "none" => conn /\ order.status = "created_off" /\ ~boot.abandoned
    /\ order.lease # "none" => conn /\ order.status = "cleaning"

(* A live request holds its lease; one past a marker that has not posted   *)
(* is the only one that may; a cleanup works on the receipt as it is, and  *)
(* records only what is gone.                                              *)
HoldsLease(w) ==
    /\ worker[w].pc \in SetupPCs \cup PreparePCs /\ Live(w) => boot.lease = w
    /\ worker[w].pc \in Leased /\ Live(w) => order.lease = w
    /\ worker[w].pc \in Leased => /\ order.status # "created_off"
                                  /\ worker[w].fw = boot.fwReceipt

MarkedOnce(w) ==
    /\ worker[w].pc = "postFirewall" /\ ~worker[w].late
          => posts["firewall"] = 0 /\ boot.fwMark
    /\ worker[w].pc = "postPower" /\ ~worker[w].late
          => posts["powerOn"] = 0 /\ boot.pwMark
    /\ worker[w].pc \in {"firewallReply", "saveFirewall"} => posts["firewall"] # 0
    /\ worker[w].pc = "saveFirewall" => "makeFirewall" \notin wire

SeesGone(w) ==
    worker[w].pc = "record" /\ ~worker[w].err => worker[w].absent \cap there = {}

WorkersGood == \A w \in Workers : HoldsLease(w) /\ MarkedOnce(w) /\ SeesGone(w)

(* Nothing is posted before its marker.                                    *)
MarkedFirst ==
    /\ posts["firewall"] # 0 => boot.fwMark
    /\ posts["powerOn"] # 0 => boot.pwMark

(* The one firewall: before its POST, on its way, there, on record.        *)
FirewallGood ==
    /\ posts["firewall"] = 0 \/ "makeFirewall" \in wire
          => "firewall" \notin there /\ attach = "no"
    /\ posts["firewall"] = 0 => "makeFirewall" \notin wire
    /\ attach # "no" => "firewall" \in there
    /\ boot.fwReceipt => posts["firewall"] # 0 /\ "makeFirewall" \notin wire
    /\ order.status # "created_off" => (boot.fwMark => boot.fwReceipt)

(* A power-on under way finds the server behind its firewall, whenever it  *)
(* lands.                                                                  *)
PowerGood ==
    "server" \in there /\ (power = "running" \/ "powerOn" \in wire) => attach = "applied"

(* Before cleanup the provider has heard of no deletion.                   *)
Untouched ==
    order.status = "created_off" =>
       "server" \in there /\ power # "deleting" /\ wire \cap Resources = {}

IInv ==
    /\ TypeOK
    /\ LeasesPin
    /\ WorkersGood
    /\ SentOnce
    /\ MarkedFirst
    /\ FirewallGood
    /\ PowerGood
    /\ Untouched
    /\ TargetLive
    /\ DeletedMeansGone

-----------------------------------------------------------------------------
(* Typing, and the effect of the small state changes.                      *)

OrderRow == [status : {"created_off", "cleaning", "deleted", "cleanup_abandoned"},
             lease : Holder, fw : BOOLEAN, absent : SUBSET Resources]
BootRow == [row : BOOLEAN, lease : Holder, fwMark : BOOLEAN, fwReceipt : BOOLEAN,
            verified : BOOLEAN, pwMark : BOOLEAN,
            action : {"none", "running", "success"}, abandoned : BOOLEAN]
EnrolRow == [phase : {"staged", "awaiting_identity", "enrolled", "revoked"},
             window : {"unarmed", "open", "over"}]
WorkerTyped == worker \in [Workers -> Worker \cup {NoWorker}]
AllPCs == SetupPCs \cup PreparePCs \cup CleanPCs

Others(w) == \A v \in Workers : v # w => worker'[v] = worker[v]
SameLocals(w) ==
    /\ worker'[w].late = worker[w].late /\ worker'[w].fw = worker[w].fw
    /\ worker'[w].absent = worker[w].absent /\ worker'[w].err = worker[w].err

LEMMA BusyTyped ==
  ASSUME TypeOK, NEW w \in Workers, worker[w].pc # "idle" \/ worker[w] # NoWorker
  PROVE  worker[w] \in Worker /\ worker[w] # NoWorker /\ worker[w].pc \in AllPCs
BY DEF TypeOK, Worker, NoWorker, AllPCs

LEMMA GoToEffect ==
  ASSUME TypeOK, NEW w \in Workers, NEW pc \in AllPCs \cup {"idle"}, worker[w] # NoWorker, GoTo(w, pc)
  PROVE  /\ WorkerTyped' /\ Others(w) /\ worker'[w].pc = pc
         /\ pc # "idle" => worker'[w] # NoWorker /\ SameLocals(w)
         /\ pc = "idle" => worker'[w] = NoWorker
<1> DEFINE new == [worker[w] EXCEPT !.pc = pc]
<1>1. worker[w] \in Worker
  BY BusyTyped
<1>2. pc # "idle" => new \in Worker
  BY <1>1 DEF Worker, AllPCs
<1>3. /\ new.pc = pc /\ new.late = worker[w].late /\ new.fw = worker[w].fw
      /\ new.absent = worker[w].absent /\ new.err = worker[w].err
  BY <1>1 DEF Worker
<1>4. worker' = [worker EXCEPT ![w] = IF pc = "idle" THEN NoWorker ELSE new]
  BY DEF GoTo
<1> HIDE DEF new
<1>5. WorkerTyped' /\ Others(w) /\ worker'[w] = (IF pc = "idle" THEN NoWorker ELSE new)
  BY <1>2, <1>4 DEF TypeOK, WorkerTyped, Others
<1>6. NoWorker.pc = "idle"
  BY DEF NoWorker
<1> QED
  BY <1>3, <1>5, <1>6 DEF SameLocals

LEMMA BeginEffect ==
  ASSUME TypeOK, NEW w \in Workers, NEW pc \in AllPCs, Begin(w, pc)
  PROVE  /\ WorkerTyped' /\ Others(w) /\ worker[w] = NoWorker
         /\ worker'[w].pc = pc /\ ~worker'[w].late /\ worker'[w].fw = boot.fwReceipt
         /\ ~worker'[w].err
<1> DEFINE new == [pc |-> pc, late |-> FALSE, fw |-> boot.fwReceipt,
                   pw |-> boot.pwMark, absent |-> {}, err |-> FALSE]
<1>1. new \in Worker /\ new.pc = pc /\ ~new.late /\ new.fw = boot.fwReceipt /\ ~new.err
  BY DEF Worker, TypeOK, AllPCs
<1>2. worker' = [worker EXCEPT ![w] = new] /\ worker[w] = NoWorker
  BY DEF Begin
<1> HIDE DEF new
<1> QED
  BY <1>1, <1>2 DEF TypeOK, WorkerTyped, Others

LEMMA FailEffect ==
  ASSUME TypeOK, NEW w \in Workers, worker[w] # NoWorker, Fail(w)
  PROVE  /\ WorkerTyped' /\ Others(w) /\ worker'[w].pc = "record" /\ worker'[w].err
         /\ worker'[w].late = worker[w].late /\ worker'[w].fw = worker[w].fw
<1> DEFINE new == [worker[w] EXCEPT !.pc = "record", !.err = TRUE]
<1>1. worker[w] \in Worker
  BY BusyTyped
<1>2. /\ new \in Worker /\ new.pc = "record" /\ new.err /\ new.late = worker[w].late
      /\ new.fw = worker[w].fw
  BY <1>1 DEF Worker, CleanPCs
<1>3. worker' = [worker EXCEPT ![w] = new]
  BY DEF Fail
<1> HIDE DEF new
<1> QED
  BY <1>2, <1>3 DEF TypeOK, WorkerTyped, Others

(* A step that replaces what a cleanup has seen absent.                    *)
Sees(w, pc, absent) == worker' = [worker EXCEPT ![w].pc = pc, ![w].absent = absent]

LEMMA SeesEffect ==
  ASSUME TypeOK, NEW w \in Workers, worker[w] # NoWorker, NEW pc \in CleanPCs,
         NEW absent \in SUBSET Resources,
         Sees(w, pc, absent)
  PROVE  /\ WorkerTyped' /\ Others(w) /\ worker'[w].pc = pc /\ worker'[w].absent = absent
         /\ worker'[w].late = worker[w].late /\ worker'[w].fw = worker[w].fw
         /\ worker'[w].err = worker[w].err
<1> DEFINE new == [worker[w] EXCEPT !.pc = pc, !.absent = absent]
<1>1. worker[w] \in Worker
  BY BusyTyped
<1>2. /\ new \in Worker /\ new.pc = pc /\ new.absent = absent /\ new.late = worker[w].late
      /\ new.fw = worker[w].fw /\ new.err = worker[w].err
  BY <1>1 DEF Worker
<1>3. worker' = [worker EXCEPT ![w] = new]
  BY DEF Sees
<1> HIDE DEF new
<1> QED
  BY <1>2, <1>3 DEF TypeOK, WorkerTyped, Others

LEMMA FaultTyped ==
  ASSUME TypeOK, Faulty \/ Fine
  PROVE  faults' \in 0..MaxFaults
BY FaultAssumption DEF TypeOK, Faulty, Fine

-----------------------------------------------------------------------------
(* Steps that change one request only.                                     *)

LEMMA WorkerMove ==
  ASSUME IInv, NEW w \in Workers, UNCHANGED <<db, provider, wire, posts>>,
         faults' \in 0..MaxFaults, WorkerTyped', Others(w),
         HoldsLease(w)', MarkedOnce(w)', SeesGone(w)'
  PROVE  IInv'
<1>1. UNCHANGED <<conn, order, boot, enrol, target, there, power, attach, wire, posts>>
  BY DEF db, provider
<1>2. TypeOK'
  BY <1>1 DEF IInv, TypeOK, WorkerTyped
<1>3. WorkersGood'
  <2> SUFFICES ASSUME NEW v \in Workers, v # w
               PROVE  HoldsLease(v)' /\ MarkedOnce(v)' /\ SeesGone(v)'
    BY DEF WorkersGood
  <2>1. worker'[v] = worker[v] /\ HoldsLease(v) /\ MarkedOnce(v) /\ SeesGone(v)
    BY DEF Others, IInv, WorkersGood
  <2> QED
    BY <1>1, <2>1 DEF HoldsLease, MarkedOnce, SeesGone, Live
<1>4. LeasesPin' /\ SentOnce' /\ MarkedFirst' /\ FirewallGood' /\ PowerGood' /\ Untouched'
      /\ TargetLive' /\ DeletedMeansGone'
  BY <1>1 DEF IInv, LeasesPin, SentOnce, MarkedFirst, FirewallGood, PowerGood, Untouched,
              TargetLive, DeletedMeansGone
<1> QED
  BY <1>2, <1>3, <1>4 DEF IInv

LEMMA Known ==
  ASSUME IInv, NEW w \in Workers
  PROVE  /\ TypeOK /\ HoldsLease(w) /\ MarkedOnce(w) /\ SeesGone(w)
         /\ worker[w].pc # "idle" => /\ worker[w] # NoWorker /\ worker[w].pc \in AllPCs
                                     /\ worker[w].late \in BOOLEAN /\ worker[w].fw \in BOOLEAN
<1>1. worker[w].pc # "idle" => worker[w] \in Worker /\ worker[w] # NoWorker /\ worker[w].pc \in AllPCs
  BY BusyTyped DEF IInv
<1> QED
  BY <1>1 DEF IInv, WorkersGood, Worker

(* Pcs whose entry asks for nothing but the lease a live request holds.    *)
Plain == AllPCs \ ({"postFirewall", "postPower", "saveFirewall", "record"} \cup Waiting)

LEMMA PlainMove ==
  ASSUME IInv, NEW w \in Workers, worker[w].pc # "idle",
         UNCHANGED <<db, provider, wire, posts>>, Faulty \/ Fine,
         NEW pc, GoTo(w, pc),
         \/ pc = "idle"
         \/ /\ pc \in Plain
            /\ \/ pc \in SetupPCs \cup PreparePCs /\ worker[w].pc \in SetupPCs \cup PreparePCs
               \/ pc \in Leased /\ worker[w].pc \in Leased
               \/ pc = "claim"
  PROVE  IInv'
<1>1. faults' \in 0..MaxFaults
  BY FaultTyped DEF IInv
<1>2. /\ WorkerTyped' /\ Others(w) /\ worker'[w].pc = pc
      /\ pc # "idle" => SameLocals(w)
  BY Known, GoToEffect DEF Plain
<1>3. UNCHANGED <<boot, order, there, wire, posts>>
  BY DEF db, provider
<1>4. CASE pc = "idle"
  BY <1>1, <1>2, <1>4, WorkerMove DEF HoldsLease, MarkedOnce, SeesGone, SetupPCs, PreparePCs, CleanPCs, Leased
<1>5. CASE pc # "idle"
  <2>1. HoldsLease(w)'
    BY <1>2, <1>3, <1>5, Known DEF HoldsLease, Live, SameLocals, Plain, SetupPCs, PreparePCs, CleanPCs, Leased, Waiting
  <2>2. MarkedOnce(w)' /\ SeesGone(w)'
    BY <1>2, <1>5 DEF MarkedOnce, SeesGone, Plain, Waiting
  <2> QED
    BY <1>1, <1>2, <2>1, <2>2, WorkerMove
<1> QED
  BY <1>4, <1>5

LEMMA StopMove ==
  ASSUME IInv, NEW w \in Workers, worker[w].pc \in SetupPCs \cup PreparePCs,
         UNCHANGED <<db, provider, wire, posts>>, Faulty \/ Fine, GoTo(w, "release")
  PROVE  IInv'
<1>1. worker[w].pc # "idle" /\ "release" \in Plain /\ "release" \in SetupPCs
  BY DEF SetupPCs, PreparePCs, Plain, AllPCs, Waiting
<1> QED
  BY <1>1, PlainMove

LEMMA FailMove ==
  ASSUME IInv, NEW w \in Workers, worker[w].pc \in Leased,
         UNCHANGED <<db, provider, wire, posts>>, Faulty \/ Fine, Fail(w)
  PROVE  IInv'
<1>1. worker[w].pc # "idle" /\ faults' \in 0..MaxFaults
  BY FaultTyped DEF IInv, Leased, CleanPCs
<1>2. /\ WorkerTyped' /\ Others(w) /\ worker'[w].pc = "record" /\ worker'[w].err
      /\ worker'[w].late = worker[w].late /\ worker'[w].fw = worker[w].fw
  BY <1>1, Known, FailEffect
<1>3. UNCHANGED <<boot, order, there, wire, posts>>
  BY DEF db, provider
<1>4. HoldsLease(w)' /\ MarkedOnce(w)' /\ SeesGone(w)'
  BY <1>2, <1>3, Known
     DEF HoldsLease, MarkedOnce, SeesGone, Live, SetupPCs, PreparePCs, CleanPCs, Leased, Waiting
<1> QED
  BY <1>1, <1>2, <1>4, WorkerMove

LEMMA SeesMove ==
  ASSUME IInv, NEW w \in Workers, worker[w].pc \in Leased,
         UNCHANGED <<db, provider, wire, posts>>, Fine,
         NEW pc \in {"delete", "record"}, Sees(w, pc, Seen(w))
  PROVE  IInv'
<1>1. worker[w].pc # "idle" /\ faults' \in 0..MaxFaults /\ pc \in CleanPCs
  BY FaultTyped DEF IInv, Leased, CleanPCs
<1>2. Seen(w) \in SUBSET Resources /\ Seen(w) \cap there = {}
  BY DEF Seen, Manifest, Resources
<1>3. /\ WorkerTyped' /\ Others(w) /\ worker'[w].pc = pc /\ worker'[w].absent = Seen(w)
      /\ worker'[w].late = worker[w].late /\ worker'[w].fw = worker[w].fw
  BY <1>1, <1>2, Known, SeesEffect
<1>4. UNCHANGED <<boot, order, there, wire, posts>>
  BY DEF db, provider
<1>5. HoldsLease(w)' /\ MarkedOnce(w)'
  BY <1>3, <1>4, Known
     DEF HoldsLease, MarkedOnce, Live, SetupPCs, PreparePCs, CleanPCs, Leased, Waiting
<1>6. SeesGone(w)'
  BY <1>2, <1>3, <1>4 DEF SeesGone
<1> QED
  BY <1>1, <1>3, <1>5, <1>6, WorkerMove

LEMMA RouteStep ==
  ASSUME IInv, NEW w \in Workers, Route(w)
  PROVE  IInv'
<1> DEFINE pc == IF worker[w].late THEN "release" ELSE Routed
<1>1. /\ worker[w].pc = "route" /\ GoTo(w, pc) /\ Fine
      /\ UNCHANGED <<db, provider, wire, posts>>
  BY DEF Route, At, Fine
<1>2. pc \in {"release", "poll", "protect", "capacity"}
  BY DEF Routed
<1> HIDE DEF pc
<1>3. pc \in Plain /\ pc \in SetupPCs /\ worker[w].pc \in SetupPCs
  BY <1>1, <1>2 DEF Plain, AllPCs, SetupPCs, Waiting
<1> QED
  BY <1>1, <1>3, PlainMove

LEMMA CheckStep ==
  ASSUME IInv, NEW w \in Workers, CheckCapacity(w) \/ Protect(w)
  PROVE  IInv'
<1>1. PICK pc \in {"markFirewall", "arm", "release"} : GoTo(w, pc)
  BY DEF CheckCapacity, Protect, Checked
<1>2. /\ worker[w].pc \in {"capacity", "protect"} /\ Fine
      /\ UNCHANGED <<db, provider, wire, posts>>
  BY DEF CheckCapacity, Protect, Checked, At, Fine, db
<1>3. pc \in Plain /\ pc \in SetupPCs /\ worker[w].pc \in SetupPCs /\ worker[w].pc # "idle"
  BY <1>1, <1>2 DEF Plain, AllPCs, SetupPCs, Waiting
<1> QED
  BY <1>1, <1>2, <1>3, PlainMove

LEMMA InstallStep ==
  ASSUME IInv, NEW w \in Workers, InstallBundle(w)
  PROVE  IInv'
<1>1. PICK pc \in {"publish", "release", "idle"} : GoTo(w, pc)
  BY DEF InstallBundle
<1>2. worker[w].pc = "install" /\ (Faulty \/ Fine) /\ UNCHANGED <<db, provider, wire, posts>>
  BY DEF InstallBundle, At
<1>3. /\ pc = "idle" \/ (pc \in Plain /\ pc \in SetupPCs \cup PreparePCs)
      /\ worker[w].pc \in PreparePCs /\ worker[w].pc # "idle"
  BY <1>1, <1>2 DEF Plain, AllPCs, SetupPCs, PreparePCs, Waiting
<1> QED
  BY <1>1, <1>2, <1>3, PlainMove

LEMMA SetupStopsStep ==
  ASSUME IInv, NEW w \in Workers, SetupStops(w)
  PROVE  IInv'
<1>1. worker[w].pc \in SetupPCs \cup PreparePCs
  BY DEF SetupStops, PreparePCs
<1> QED
  BY <1>1, StopMove DEF SetupStops

LEMMA DiesStep ==
  ASSUME IInv, NEW w \in Workers, Dies(w)
  PROVE  IInv'
<1>1. worker[w].pc # "idle"
  BY BusyTyped DEF Dies, IInv, AllPCs, SetupPCs, PreparePCs, CleanPCs
<1> QED
  BY <1>1, PlainMove DEF Dies

LEMMA BudgetEndsStep ==
  ASSUME IInv, NEW w \in Workers, BudgetEnds(w)
  PROVE  IInv'
<1> DEFINE new == [worker[w] EXCEPT !.late = TRUE]
<1>1. worker[w] # NoWorker /\ worker[w] \in Worker
  BY BusyTyped DEF BudgetEnds, IInv
<1>2. /\ new \in Worker /\ new.late /\ new.pc = worker[w].pc /\ new.fw = worker[w].fw
      /\ new.absent = worker[w].absent /\ new.err = worker[w].err
  BY <1>1 DEF Worker
<1>3. worker' = [worker EXCEPT ![w] = new]
  BY DEF BudgetEnds
<1> HIDE DEF new
<1>4. WorkerTyped' /\ Others(w) /\ worker'[w] = new
  BY <1>2, <1>3 DEF IInv, TypeOK, WorkerTyped, Others
<1>5. UNCHANGED <<db, provider, wire, posts>> /\ faults' \in 0..MaxFaults
  BY FaultTyped DEF BudgetEnds, IInv
<1>6. UNCHANGED <<boot, order, there, wire, posts>>
  BY <1>5 DEF db, provider
<1>7. HoldsLease(w)' /\ MarkedOnce(w)' /\ SeesGone(w)'
  BY <1>2, <1>4, <1>6, Known DEF HoldsLease, MarkedOnce, SeesGone, Live
<1> QED
  BY <1>4, <1>5, <1>7, WorkerMove

LEMMA CleanRequestStep ==
  ASSUME IInv, NEW w \in Workers, CleanRequest(w)
  PROVE  IInv'
<1>1. PICK pc \in {"retire", "claim"} : Begin(w, pc)
  BY DEF CleanRequest
<1>2. WorkerTyped' /\ Others(w) /\ worker'[w].pc = pc
  BY <1>1, BeginEffect, Known DEF AllPCs, CleanPCs
<1>3. UNCHANGED <<db, provider, wire, posts>> /\ faults' \in 0..MaxFaults
  BY FaultTyped DEF CleanRequest, IInv, Fine
<1>4. HoldsLease(w)' /\ MarkedOnce(w)' /\ SeesGone(w)'
  BY <1>1, <1>2 DEF HoldsLease, MarkedOnce, SeesGone, SetupPCs, PreparePCs, Leased, CleanPCs
<1> QED
  BY <1>2, <1>3, <1>4, WorkerMove

LEMMA VerifyLeaseStep ==
  ASSUME IInv, NEW w \in Workers, VerifyLease(w)
  PROVE  IInv'
<1>1. /\ worker[w].pc = "lease" /\ worker[w].pc # "idle" /\ (Faulty \/ Fine)
      /\ UNCHANGED <<db, provider, wire, posts>> /\ (GoTo(w, "inspect") \/ Fail(w))
  BY DEF VerifyLease, At
<1>2. worker[w].pc \in Leased /\ "inspect" \in Plain /\ "inspect" \in Leased
  BY <1>1 DEF Leased, CleanPCs, Plain, AllPCs, Waiting
<1>3. CASE GoTo(w, "inspect")
  BY <1>1, <1>2, <1>3, PlainMove
<1>4. CASE Fail(w)
  BY <1>1, <1>2, <1>4, FailMove
<1> QED
  BY <1>1, <1>3, <1>4

LEMMA InspectStep ==
  ASSUME IInv, NEW w \in Workers, Inspect(w) \/ Reinspect(w)
  PROVE  IInv'
<1>1. /\ worker[w].pc \in {"inspect", "reinspect"} /\ (Faulty \/ Fine)
      /\ UNCHANGED <<db, provider, wire, posts>>
  BY DEF Inspect, Reinspect, At
<1>2. worker[w].pc \in Leased
  BY <1>1 DEF Leased, CleanPCs
<1>3. CASE Fail(w)
  BY <1>1, <1>2, <1>3, FailMove
<1>4. CASE Fine /\ \E pc \in {"delete", "record"} : Sees(w, pc, Seen(w))
  BY <1>1, <1>2, <1>4, SeesMove
<1> QED
  BY <1>3, <1>4 DEF Inspect, Reinspect, Sees

-----------------------------------------------------------------------------
(* Steps of a request that write the setup, the enrollment or the target.  *)

(* The lease goes to or from w only.                                       *)
LeaseOf(w) ==
    \/ boot'.lease = boot.lease
    \/ boot.lease = "none" /\ boot'.lease = w
    \/ boot.lease = w /\ boot'.lease = "none"

(* Markers and receipts only grow, and only before cleanup.                *)
Recorded ==
    /\ boot.fwMark => boot'.fwMark
    /\ boot.pwMark => boot'.pwMark
    /\ boot'.fwReceipt => posts["firewall"] # 0 /\ "makeFirewall" \notin wire
    /\ \/ boot'.fwMark = boot.fwMark /\ boot'.fwReceipt = boot.fwReceipt
       \/ order.status = "created_off"

LEMMA BootMove ==
  ASSUME IInv, NEW w \in Workers, UNCHANGED <<conn, order, provider, wire, posts>>,
         faults' \in 0..MaxFaults, boot' \in BootRow, enrol' \in EnrolRow,
         target' \in {"none", "published", "ready", "owned", "retired"},
         WorkerTyped', Others(w), LeaseOf(w), Recorded, LeasesPin', TargetLive',
         HoldsLease(w)', MarkedOnce(w)', SeesGone(w)'
  PROVE  IInv'
<1>1. UNCHANGED <<conn, order, there, power, attach, wire, posts>>
  BY DEF provider
<1>2. TypeOK'
  BY <1>1 DEF IInv, TypeOK, WorkerTyped, BootRow, EnrolRow
<1>3. WorkersGood'
  <2> SUFFICES ASSUME NEW v \in Workers, v # w
               PROVE  HoldsLease(v)' /\ MarkedOnce(v)' /\ SeesGone(v)'
    BY DEF WorkersGood
  <2>1. worker'[v] = worker[v] /\ HoldsLease(v) /\ MarkedOnce(v) /\ SeesGone(v) /\ v # "none"
    BY WorkerAssumption DEF Others, IInv, WorkersGood
  <2>2. boot.lease = v => boot'.lease = v
    BY <2>1 DEF LeaseOf
  <2>3. order.status # "created_off" => boot'.fwReceipt = boot.fwReceipt
    BY DEF Recorded
  <2>4. HoldsLease(v)'
    BY <1>1, <2>1, <2>2, <2>3 DEF HoldsLease, Live
  <2> QED
    BY <1>1, <2>1, <2>4 DEF MarkedOnce, SeesGone, Recorded
<1>4. SentOnce' /\ MarkedFirst' /\ PowerGood' /\ Untouched' /\ DeletedMeansGone'
  BY <1>1 DEF IInv, SentOnce, MarkedFirst, PowerGood, Untouched, DeletedMeansGone, Recorded
<1>5. FirewallGood'
  BY <1>1 DEF IInv, FirewallGood, Recorded
<1> QED
  BY <1>2, <1>3, <1>4, <1>5 DEF IInv

(* A checkpoint of setup or preparation: the request goes on to pc.        *)
LEMMA CheckpointMove ==
  ASSUME IInv, NEW w \in Workers, worker[w].pc \in SetupPCs \cup PreparePCs,
         NEW pc \in (SetupPCs \cup PreparePCs) \ {"saveFirewall", "firewallReply"}, GoTo(w, pc),
         pc \notin Waiting,
         UNCHANGED <<conn, order, provider, wire, posts, faults>>,
         boot' \in BootRow, enrol' \in EnrolRow,
         target' \in {"none", "published", "ready", "owned", "retired"},
         boot'.lease = boot.lease, boot'.abandoned = boot.abandoned, Recorded, TargetLive',
         pc = "postFirewall" => posts["firewall"] = 0 /\ boot'.fwMark,
         pc = "postPower" => posts["powerOn"] = 0 /\ boot'.pwMark
  PROVE  IInv'
<1>1. faults' \in 0..MaxFaults /\ LeaseOf(w) /\ LeasesPin'
  BY DEF IInv, TypeOK, LeaseOf, LeasesPin
<1>2. pc # "idle" /\ worker[w].pc # "idle"
  BY DEF SetupPCs, PreparePCs
<1>3. /\ WorkerTyped' /\ Others(w) /\ worker'[w].pc = pc /\ SameLocals(w)
  BY <1>2, Known, GoToEffect DEF AllPCs
<1>4. HoldsLease(w)'
  BY <1>3, Known
     DEF HoldsLease, Live, SameLocals, SetupPCs, PreparePCs, Leased, CleanPCs, Waiting
<1>5. MarkedOnce(w)' /\ SeesGone(w)'
  BY <1>3 DEF MarkedOnce, SeesGone, SetupPCs, PreparePCs
<1> QED
  BY <1>1, <1>3, <1>4, <1>5, BootMove

(* The other half of a checked step: its checks fail and it stops.         *)
LEMMA StoppedStep ==
  ASSUME IInv, NEW w \in Workers, worker[w].pc \in SetupPCs \cup PreparePCs,
         UNCHANGED <<boot, enrol, wire, posts>>, GoTo(w, "release"),
         UNCHANGED <<conn, order, target, provider, faults>>
  PROVE  IInv'
BY StopMove DEF db, Fine

LEMMA MarkFirewallStep ==
  ASSUME IInv, NEW w \in Workers, MarkFirewall(w)
  PROVE  IInv'
<1> DEFINE new == [boot EXCEPT !.fwMark = TRUE]
           ok == CanCheckpoint(w) /\ ~boot.fwMark /\ enrol.phase # "enrolled"
<1>1. /\ worker[w].pc = "markFirewall" /\ UNCHANGED <<conn, order, target, provider, faults>>
      /\ worker[w].pc \in SetupPCs \cup PreparePCs
  BY DEF MarkFirewall, Checked, At, SetupPCs
<1>2. CASE ~ok
  BY <1>1, <1>2, StoppedStep DEF MarkFirewall, Checked
<1>3. CASE ok
  <2>1. boot' = new /\ UNCHANGED <<enrol, wire, posts>> /\ GoTo(w, "postFirewall")
    BY <1>3 DEF MarkFirewall, Checked
  <2>2. /\ new \in BootRow /\ new.fwMark /\ new.lease = boot.lease
        /\ new.abandoned = boot.abandoned /\ new.fwReceipt = boot.fwReceipt
        /\ new.pwMark = boot.pwMark
    BY DEF IInv, TypeOK, BootRow
  <2> HIDE DEF new
  <2>3. posts["firewall"] = 0 /\ order.status = "created_off"
    BY <1>3 DEF IInv, MarkedFirst, CanCheckpoint, Usable
  <2>4. Recorded
    BY <2>1, <2>2, <2>3 DEF IInv, FirewallGood, Recorded
  <2>5. /\ enrol' \in EnrolRow
        /\ target' \in {"none", "published", "ready", "owned", "retired"} /\ TargetLive'
        /\ "postFirewall" \in (SetupPCs \cup PreparePCs) \ {"saveFirewall", "firewallReply"}
        /\ "postFirewall" \notin Waiting
    BY <1>1, <2>1 DEF IInv, TypeOK, EnrolRow, TargetLive, provider, SetupPCs, Waiting
  <2> QED
    BY <1>1, <2>1, <2>2, <2>3, <2>4, <2>5, CheckpointMove
<1> QED
  BY <1>2, <1>3

(* What a step that leaves the target and the enrollment's type alone has. *)
LEMMA KeptTarget ==
  ASSUME IInv, UNCHANGED <<conn, order, target, provider>>
  PROVE  /\ target' \in {"none", "published", "ready", "owned", "retired"} /\ TargetLive'
         /\ enrol \in EnrolRow /\ boot \in BootRow
BY DEF IInv, TypeOK, EnrolRow, BootRow, TargetLive, provider

LEMMA SaveFirewallStep ==
  ASSUME IInv, NEW w \in Workers, SaveFirewall(w)
  PROVE  IInv'
<1> DEFINE new == [boot EXCEPT !.fwReceipt = TRUE]
           ok == CanCheckpoint(w) /\ boot.fwMark
<1>1. /\ worker[w].pc = "saveFirewall" /\ UNCHANGED <<conn, order, target, provider, faults>>
      /\ worker[w].pc \in SetupPCs \cup PreparePCs
  BY DEF SaveFirewall, Checked, At, SetupPCs
<1>2. CASE ~ok
  BY <1>1, <1>2, StoppedStep DEF SaveFirewall, Checked
<1>3. CASE ok
  <2>1. boot' = new /\ UNCHANGED <<enrol, wire, posts>> /\ GoTo(w, "release")
    BY <1>3 DEF SaveFirewall, Checked
  <2>2. /\ new \in BootRow /\ new.fwMark = boot.fwMark /\ new.lease = boot.lease
        /\ new.abandoned = boot.abandoned /\ new.fwReceipt /\ new.pwMark = boot.pwMark
    BY DEF IInv, TypeOK, BootRow
  <2> HIDE DEF new
  <2>3. posts["firewall"] # 0 /\ "makeFirewall" \notin wire /\ order.status = "created_off"
    BY <1>1, <1>3, Known DEF MarkedOnce, CanCheckpoint, Usable
  <2>4. Recorded
    BY <2>1, <2>2, <2>3 DEF Recorded
  <2>5. /\ "release" \in (SetupPCs \cup PreparePCs) \ {"saveFirewall", "firewallReply"}
        /\ "release" \notin Waiting
    BY DEF SetupPCs, Waiting
  <2> QED
    BY <1>1, <2>1, <2>2, <2>4, <2>5, KeptTarget, CheckpointMove
<1> QED
  BY <1>2, <1>3

LEMMA ArmStep ==
  ASSUME IInv, NEW w \in Workers, Arm(w)
  PROVE  IInv'
<1> DEFINE new == [enrol EXCEPT !.phase = "awaiting_identity"]
           ok == Usable /\ EnrolLive /\ enrol.phase \in {"staged", "awaiting_identity"}
<1>1. /\ worker[w].pc = "arm" /\ UNCHANGED <<conn, order, target, provider, faults>>
      /\ worker[w].pc \in SetupPCs \cup PreparePCs
  BY DEF Arm, Checked, At, SetupPCs
<1>2. CASE ~ok
  BY <1>1, <1>2, StoppedStep DEF Arm, Checked
<1>3. CASE ok
  <2>1. enrol' = new /\ UNCHANGED <<boot, wire, posts>> /\ GoTo(w, "verify")
    BY <1>3 DEF Arm, Checked
  <2>2. new \in EnrolRow
    BY DEF IInv, TypeOK, EnrolRow
  <2> HIDE DEF new
  <2>3. Recorded
    BY <2>1 DEF IInv, FirewallGood, Recorded
  <2>4. /\ "verify" \in (SetupPCs \cup PreparePCs) \ {"saveFirewall", "firewallReply"}
        /\ "verify" \notin Waiting
    BY DEF SetupPCs, Waiting
  <2> QED
    BY <1>1, <2>1, <2>2, <2>3, <2>4, KeptTarget, CheckpointMove
<1> QED
  BY <1>2, <1>3

LEMMA VerifyFirewallStep ==
  ASSUME IInv, NEW w \in Workers, VerifyFirewall(w)
  PROVE  IInv'
<1> DEFINE new == [boot EXCEPT !.verified = TRUE]
           ok == CanCheckpoint(w) /\ boot.fwReceipt /\ ~boot.pwMark
<1>1. /\ worker[w].pc = "verify" /\ UNCHANGED <<conn, order, target, provider, faults>>
      /\ worker[w].pc \in SetupPCs \cup PreparePCs
  BY DEF VerifyFirewall, Checked, At, SetupPCs
<1>2. CASE ~ok
  BY <1>1, <1>2, StoppedStep DEF VerifyFirewall, Checked
<1>3. CASE ok
  <2>1. boot' = new /\ UNCHANGED <<enrol, wire, posts>> /\ GoTo(w, "markPower")
    BY <1>3 DEF VerifyFirewall, Checked
  <2>2. /\ new \in BootRow /\ new.fwMark = boot.fwMark /\ new.lease = boot.lease
        /\ new.abandoned = boot.abandoned /\ new.fwReceipt = boot.fwReceipt
        /\ new.pwMark = boot.pwMark
    BY DEF IInv, TypeOK, BootRow
  <2> HIDE DEF new
  <2>3. Recorded
    BY <2>1, <2>2 DEF IInv, FirewallGood, Recorded
  <2>4. /\ "markPower" \in (SetupPCs \cup PreparePCs) \ {"saveFirewall", "firewallReply"}
        /\ "markPower" \notin Waiting
    BY DEF SetupPCs, Waiting
  <2> QED
    BY <1>1, <2>1, <2>2, <2>3, <2>4, KeptTarget, CheckpointMove
<1> QED
  BY <1>2, <1>3

LEMMA MarkPowerStep ==
  ASSUME IInv, NEW w \in Workers, MarkPower(w)
  PROVE  IInv'
<1> DEFINE new == [boot EXCEPT !.pwMark = TRUE]
           opened == [enrol EXCEPT !.window = "open"]
           ok == /\ CanCheckpoint(w) /\ ~boot.pwMark /\ boot.verified
                 /\ enrol.phase = "awaiting_identity" /\ enrol.window = "unarmed"
<1>1. /\ worker[w].pc = "markPower" /\ UNCHANGED <<conn, order, target, provider, faults>>
      /\ worker[w].pc \in SetupPCs \cup PreparePCs
  BY DEF MarkPower, Checked, At, SetupPCs
<1>2. CASE ~ok
  BY <1>1, <1>2, StoppedStep DEF MarkPower, Checked
<1>3. CASE ok
  <2>1. boot' = new /\ enrol' = opened /\ UNCHANGED <<wire, posts>> /\ GoTo(w, "postPower")
    BY <1>3 DEF MarkPower, Checked
  <2>2. /\ new \in BootRow /\ new.fwMark = boot.fwMark /\ new.lease = boot.lease
        /\ new.abandoned = boot.abandoned /\ new.fwReceipt = boot.fwReceipt
        /\ new.pwMark
    BY DEF IInv, TypeOK, BootRow
  <2>3. opened \in EnrolRow
    BY DEF IInv, TypeOK, EnrolRow
  <2> HIDE DEF new, opened
  <2>4. Recorded /\ posts["powerOn"] = 0
    BY <1>3, <2>1, <2>2 DEF IInv, FirewallGood, Recorded, MarkedFirst
  <2>5. /\ "postPower" \in (SetupPCs \cup PreparePCs) \ {"saveFirewall", "firewallReply"}
        /\ "postPower" \notin Waiting
    BY DEF SetupPCs, Waiting
  <2> QED
    BY <1>1, <2>1, <2>2, <2>3, <2>4, <2>5, KeptTarget, CheckpointMove
<1> QED
  BY <1>2, <1>3

LEMMA ActionStep ==
  ASSUME IInv, NEW w \in Workers, SavePower(w) \/ Poll(w)
  PROVE  IInv'
<1>1. /\ UNCHANGED <<conn, order, target, provider, faults>>
      /\ worker[w].pc \in SetupPCs \cup PreparePCs
  BY DEF SavePower, Poll, Checked, At, SetupPCs
<1>2. CASE UNCHANGED <<boot, enrol, wire, posts>> /\ GoTo(w, "release")
  BY <1>1, <1>2, StoppedStep
<1>3. CASE /\ \E a \in {"none", "running", "success"} : boot' = [boot EXCEPT !.action = a]
           /\ UNCHANGED <<enrol, wire, posts>> /\ GoTo(w, "release")
  <2>1. PICK a \in {"none", "running", "success"} : boot' = [boot EXCEPT !.action = a]
    BY <1>3
  <2> DEFINE new == [boot EXCEPT !.action = a]
  <2>2. /\ new \in BootRow /\ new.fwMark = boot.fwMark /\ new.lease = boot.lease
        /\ new.abandoned = boot.abandoned /\ new.fwReceipt = boot.fwReceipt
        /\ new.pwMark = boot.pwMark
    BY DEF IInv, TypeOK, BootRow
  <2>3. boot' = new
    BY <2>1
  <2> HIDE DEF new
  <2>4. Recorded
    BY <2>2, <2>3 DEF IInv, FirewallGood, Recorded
  <2>5. /\ "release" \in (SetupPCs \cup PreparePCs) \ {"saveFirewall", "firewallReply"}
        /\ "release" \notin Waiting
    BY DEF SetupPCs, Waiting
  <2> QED
    BY <1>1, <1>3, <2>2, <2>3, <2>4, <2>5, KeptTarget, CheckpointMove
<1>4. boot.action \in {"none", "running", "success"}
  BY DEF IInv, TypeOK
<1> QED
  BY <1>2, <1>3, <1>4 DEF SavePower, Poll, Checked

LEMMA PublishStep ==
  ASSUME IInv, NEW w \in Workers, Publish(w)
  PROVE  IInv'
<1> DEFINE new == [boot EXCEPT !.action = "success"]
           ok == CanPublish(w) /\ target \in {"none", "published"}
<1>1. /\ worker[w].pc = "publish" /\ UNCHANGED <<conn, order, enrol, provider, wire, posts, faults>>
      /\ worker[w].pc \in SetupPCs \cup PreparePCs
  BY DEF Publish, At, PreparePCs
<1>2. CASE ~ok
  BY <1>1, <1>2, StoppedStep DEF Publish
<1>3. CASE ok
  <2>1. boot' = new /\ target' = "published" /\ GoTo(w, "admit")
    BY <1>3 DEF Publish
  <2>2. /\ new \in BootRow /\ new.fwMark = boot.fwMark /\ new.lease = boot.lease
        /\ new.abandoned = boot.abandoned /\ new.fwReceipt = boot.fwReceipt
        /\ new.pwMark = boot.pwMark
    BY DEF IInv, TypeOK, BootRow
  <2> HIDE DEF new
  <2>3. Recorded
    BY <2>1, <2>2 DEF IInv, FirewallGood, Recorded
  <2>4. TargetLive' /\ enrol' \in EnrolRow
    BY <1>1, <1>3, <2>1
       DEF TargetLive, CanPublish, Usable, IInv, Untouched, provider, TypeOK, EnrolRow
  <2>5. /\ "admit" \in (SetupPCs \cup PreparePCs) \ {"saveFirewall", "firewallReply"}
        /\ "admit" \notin Waiting
    BY DEF SetupPCs, PreparePCs, Waiting
  <2> QED
    BY <1>1, <2>1, <2>2, <2>3, <2>4, <2>5, CheckpointMove
<1> QED
  BY <1>2, <1>3

LEMMA AdmitStep ==
  ASSUME IInv, NEW w \in Workers, Admit(w)
  PROVE  IInv'
<1>1. /\ worker[w].pc = "admit" /\ GoTo(w, "release")
      /\ UNCHANGED <<conn, order, boot, enrol, provider, wire, posts, faults>>
      /\ worker[w].pc \in SetupPCs \cup PreparePCs
  BY DEF Admit, At, PreparePCs
<1>2. /\ boot' \in BootRow /\ enrol' \in EnrolRow
      /\ target' \in {"none", "published", "ready", "owned", "retired"}
  BY <1>1 DEF IInv, TypeOK, BootRow, EnrolRow, Admit
<1>3. TargetLive'
  BY <1>1 DEF Admit, TargetLive, CanPublish, Usable, IInv, Untouched, provider
<1>4. Recorded
  BY <1>1 DEF IInv, FirewallGood, Recorded
<1>5. /\ "release" \in (SetupPCs \cup PreparePCs) \ {"saveFirewall", "firewallReply"}
      /\ "release" \notin Waiting
  BY DEF SetupPCs, PreparePCs, Waiting
<1> QED
  BY <1>1, <1>2, <1>3, <1>4, <1>5, CheckpointMove

LEMMA ReleaseStep ==
  ASSUME IInv, NEW w \in Workers, Release(w)
  PROVE  IInv'
<1> DEFINE freed == [boot EXCEPT !.lease = "none"]
<1>1. /\ worker[w].pc = "release" /\ GoTo(w, "idle")
      /\ boot' = (IF boot.lease = w THEN freed ELSE boot)
      /\ UNCHANGED <<conn, order, enrol, target, provider, wire, posts, faults>>
  BY DEF Release, At
<1>2. /\ freed \in BootRow /\ freed.fwMark = boot.fwMark /\ freed.lease = "none"
      /\ freed.fwReceipt = boot.fwReceipt /\ freed.pwMark = boot.pwMark
  BY DEF IInv, TypeOK, BootRow, Holder
<1> HIDE DEF freed
<1>3. /\ boot' \in BootRow /\ LeaseOf(w) /\ Recorded /\ LeasesPin'
  <2>1. boot \in BootRow
    BY KeptTarget, <1>1
  <2> QED
    BY <1>1, <1>2, <2>1 DEF LeaseOf, Recorded, LeasesPin, IInv, FirewallGood
<1>4. faults' \in 0..MaxFaults
  BY <1>1 DEF IInv, TypeOK
<1>5. WorkerTyped' /\ Others(w) /\ worker'[w].pc = "idle"
  BY <1>1, Known, GoToEffect
<1>6. HoldsLease(w)' /\ MarkedOnce(w)' /\ SeesGone(w)'
  BY <1>5 DEF HoldsLease, MarkedOnce, SeesGone, SetupPCs, PreparePCs, Leased, CleanPCs
<1> QED
  BY <1>1, <1>3, <1>4, <1>5, <1>6, KeptTarget, BootMove

(* A claim of the setup lease, for setup or for preparation.               *)
LEMMA ClaimMove ==
  ASSUME IInv, NEW w \in Workers, NEW pc \in {"route", "install"}, Begin(w, pc),
         Usable, ~boot.abandoned, boot.lease = "none",
         boot' \in BootRow, boot'.lease = w, boot'.abandoned = boot.abandoned,
         boot'.fwMark = boot.fwMark, boot'.fwReceipt = boot.fwReceipt,
         boot'.pwMark = boot.pwMark,
         UNCHANGED <<conn, order, enrol, target, provider, wire, posts, faults>>
  PROVE  IInv'
<1>1. /\ LeaseOf(w) /\ Recorded /\ LeasesPin' /\ faults' \in 0..MaxFaults
  BY DEF LeaseOf, Recorded, LeasesPin, IInv, FirewallGood, TypeOK, Usable
<1>2. pc \in AllPCs /\ pc \in SetupPCs \cup PreparePCs /\ pc \notin Leased /\ pc \notin Waiting
  BY DEF AllPCs, SetupPCs, PreparePCs, Leased, CleanPCs, Waiting
<1>3. WorkerTyped' /\ Others(w) /\ worker'[w].pc = pc
  BY <1>2, Known, BeginEffect
<1>4. HoldsLease(w)' /\ MarkedOnce(w)' /\ SeesGone(w)'
  BY <1>2, <1>3 DEF HoldsLease, MarkedOnce, SeesGone
<1> QED
  BY <1>1, <1>3, <1>4, KeptTarget, BootMove

LEMMA ClaimSetupStep ==
  ASSUME IInv, NEW w \in Workers, ClaimSetup(w)
  PROVE  IInv'
<1> DEFINE new == [boot EXCEPT !.row = TRUE, !.lease = w]
<1>1. boot' = new
  BY DEF ClaimSetup
<1>2. /\ new \in BootRow /\ new.lease = w /\ new.abandoned = boot.abandoned
      /\ new.fwMark = boot.fwMark /\ new.fwReceipt = boot.fwReceipt /\ new.pwMark = boot.pwMark
  BY DEF IInv, TypeOK, BootRow, Holder
<1> HIDE DEF new
<1> QED
  BY <1>1, <1>2, ClaimMove DEF ClaimSetup

LEMMA ClaimGuestStep ==
  ASSUME IInv, NEW w \in Workers, ClaimGuest(w)
  PROVE  IInv'
<1> DEFINE new == [boot EXCEPT !.lease = w]
<1>1. boot' = new
  BY DEF ClaimGuest
<1>2. /\ new \in BootRow /\ new.lease = w /\ new.abandoned = boot.abandoned
      /\ new.fwMark = boot.fwMark /\ new.fwReceipt = boot.fwReceipt /\ new.pwMark = boot.pwMark
  BY DEF IInv, TypeOK, BootRow, Holder
<1> HIDE DEF new
<1> QED
  BY <1>1, <1>2, ClaimMove DEF ClaimGuest

(* Retiring a target touches nothing that a lease or a marker protects.    *)
LEMMA RetireStep ==
  ASSUME IInv, NEW w \in Workers, Retire(w)
  PROVE  IInv'
<1>1. /\ worker[w].pc = "retire" /\ target' \in {target, "retired"}
      /\ UNCHANGED <<conn, order, boot, enrol, provider, wire, posts, faults>>
  BY DEF Retire, At
<1>2. PICK pc \in {"claim", "idle"} : GoTo(w, pc)
  BY DEF Retire
<1>3. WorkerTyped' /\ Others(w) /\ worker'[w].pc = pc
  BY <1>1, <1>2, Known, GoToEffect DEF AllPCs, CleanPCs
<1>4. HoldsLease(w)' /\ MarkedOnce(w)' /\ SeesGone(w)'
  BY <1>2, <1>3 DEF HoldsLease, MarkedOnce, SeesGone, SetupPCs, PreparePCs, Leased, CleanPCs
<1>5. /\ boot' \in BootRow /\ enrol' \in EnrolRow /\ faults' \in 0..MaxFaults
      /\ target' \in {"none", "published", "ready", "owned", "retired"}
  BY <1>1 DEF IInv, TypeOK, BootRow, EnrolRow
<1>6. LeaseOf(w) /\ Recorded /\ LeasesPin' /\ TargetLive'
  BY <1>1 DEF LeaseOf, Recorded, LeasesPin, TargetLive, IInv, FirewallGood, provider
<1> QED
  BY <1>1, <1>3, <1>4, <1>5, <1>6, BootMove

-----------------------------------------------------------------------------
(* Calls to the provider: sent, and answered or not.                       *)

(* The POST of the firewall.  Only the leased request is past the marker,  *)
(* so no other request is in a place that the POST would contradict.       *)
LEMMA PostFirewallStep ==
  ASSUME IInv, NEW w \in Workers, PostFirewall(w)
  PROVE  IInv'
<1> DEFINE ok == Unprotected /\ InBudget(w)
<1>1. /\ worker[w].pc = "postFirewall" /\ UNCHANGED <<conn, order, target, provider, faults>>
      /\ worker[w].pc \in SetupPCs \cup PreparePCs
  BY DEF PostFirewall, Checked, At, SetupPCs
<1>2. CASE ~ok
  BY <1>1, <1>2, StoppedStep DEF PostFirewall, Checked
<1>3. CASE ok
  <2>1. /\ wire' = wire \cup {"makeFirewall"} /\ UNCHANGED <<boot, enrol>>
        /\ posts' = [posts EXCEPT !["firewall"] = @ + 1] /\ GoTo(w, "firewallReply")
    BY <1>3 DEF PostFirewall, Checked, Send
  <2>2. UNCHANGED <<conn, order, boot, enrol, target, there, power, attach, faults>>
    BY <1>1, <2>1 DEF provider
  <2>3. boot.lease = w /\ posts["firewall"] = 0 /\ boot.fwMark
    BY <1>1, <1>3, Known DEF HoldsLease, Live, MarkedOnce, InBudget
  <2>4. order.status = "created_off" /\ ~boot.fwReceipt /\ "firewall" \notin there /\ attach = "no"
    BY <2>3, WorkerAssumption DEF IInv, LeasesPin, FirewallGood
  <2>5. /\ WorkerTyped' /\ Others(w) /\ worker'[w].pc = "firewallReply" /\ SameLocals(w)
    BY <1>1, <2>1, Known, GoToEffect DEF AllPCs, SetupPCs
  <2>6. /\ posts' \in [Posts -> Nat] /\ posts'["firewall"] = 1
        /\ posts'["powerOn"] = posts["powerOn"]
    BY <2>1, <2>3 DEF IInv, TypeOK, Posts
  <2>7. TypeOK'
    BY <2>1, <2>2, <2>5, <2>6 DEF IInv, TypeOK, WorkerTyped
  <2>8. WorkersGood'
    <3> SUFFICES ASSUME NEW v \in Workers
                 PROVE  HoldsLease(v)' /\ MarkedOnce(v)' /\ SeesGone(v)'
      BY DEF WorkersGood
    <3>1. CASE v = w
      BY <2>2, <2>3, <2>5, <2>6, <3>1
         DEF HoldsLease, MarkedOnce, SeesGone, Leased, CleanPCs, SetupPCs, PreparePCs
    <3>2. CASE v # w
      <4>1. worker'[v] = worker[v] /\ HoldsLease(v) /\ MarkedOnce(v) /\ SeesGone(v)
        BY <2>5, <3>2 DEF Others, IInv, WorkersGood
      <4>2. worker[v].pc \in SetupPCs \cup PreparePCs => ~Live(v)
        BY <2>3, <3>2, <4>1 DEF HoldsLease
      <4>3. worker[v].pc = "postFirewall" => worker[v].late
        BY <4>2 DEF Live, SetupPCs
      <4>4. worker[v].pc \notin {"firewallReply", "saveFirewall"}
        BY <2>3, <4>1 DEF MarkedOnce
      <4> QED
        BY <2>2, <2>6, <4>1, <4>3, <4>4 DEF HoldsLease, MarkedOnce, SeesGone, Live
    <3> QED
      BY <3>1, <3>2
  <2>9. SentOnce' /\ MarkedFirst' /\ FirewallGood' /\ LeasesPin'
    BY <2>1, <2>2, <2>3, <2>4, <2>6
       DEF IInv, SentOnce, Posts, MarkedFirst, FirewallGood, LeasesPin
  <2>10. "makeFirewall" \notin Resources
    BY ResourceAssumption DEF Resources
  <2>11. PowerGood' /\ Untouched' /\ TargetLive' /\ DeletedMeansGone'
    BY <2>1, <2>2, <2>4, <2>10 DEF IInv, PowerGood, Untouched, TargetLive, DeletedMeansGone
  <2> QED
    BY <2>7, <2>8, <2>9, <2>11 DEF IInv
<1> QED
  BY <1>2, <1>3

(* The power-on, sent behind an applied firewall.                          *)
LEMMA PostPowerStep ==
  ASSUME IInv, NEW w \in Workers, PostPower(w)
  PROVE  IInv'
<1> DEFINE ok == Protected /\ InBudget(w)
<1>1. /\ worker[w].pc = "postPower" /\ UNCHANGED <<conn, order, target, provider, faults>>
      /\ worker[w].pc \in SetupPCs \cup PreparePCs
  BY DEF PostPower, Checked, At, SetupPCs
<1>2. CASE ~ok
  BY <1>1, <1>2, StoppedStep DEF PostPower, Checked
<1>3. CASE ok
  <2>1. /\ wire' = wire \cup {"powerOn"} /\ UNCHANGED <<boot, enrol>>
        /\ posts' = [posts EXCEPT !["powerOn"] = @ + 1] /\ GoTo(w, "powerReply")
    BY <1>3 DEF PostPower, Checked, Send
  <2>2. UNCHANGED <<conn, order, boot, enrol, target, there, power, attach, faults>>
    BY <1>1, <2>1 DEF provider
  <2>3. boot.lease = w /\ posts["powerOn"] = 0 /\ boot.pwMark /\ attach = "applied"
    BY <1>1, <1>3, Known DEF HoldsLease, Live, MarkedOnce, InBudget, Protected
  <2>4. order.status = "created_off"
    BY <2>3, WorkerAssumption DEF IInv, LeasesPin
  <2>5. /\ WorkerTyped' /\ Others(w) /\ worker'[w].pc = "powerReply" /\ SameLocals(w)
    BY <1>1, <2>1, Known, GoToEffect DEF AllPCs, SetupPCs
  <2>6. /\ posts' \in [Posts -> Nat] /\ posts'["powerOn"] = 1
        /\ posts'["firewall"] = posts["firewall"]
    BY <2>1, <2>3 DEF IInv, TypeOK, Posts
  <2>7. TypeOK'
    BY <2>1, <2>2, <2>5, <2>6 DEF IInv, TypeOK, WorkerTyped
  <2>8. WorkersGood'
    <3> SUFFICES ASSUME NEW v \in Workers
                 PROVE  HoldsLease(v)' /\ MarkedOnce(v)' /\ SeesGone(v)'
      BY DEF WorkersGood
    <3>1. CASE v = w
      BY <2>2, <2>3, <2>5, <2>6, <3>1
         DEF HoldsLease, MarkedOnce, SeesGone, Leased, CleanPCs, SetupPCs, PreparePCs
    <3>2. CASE v # w
      <4>1. worker'[v] = worker[v] /\ HoldsLease(v) /\ MarkedOnce(v) /\ SeesGone(v)
        BY <2>5, <3>2 DEF Others, IInv, WorkersGood
      <4>2. worker[v].pc \in SetupPCs \cup PreparePCs => ~Live(v)
        BY <2>3, <3>2, <4>1 DEF HoldsLease
      <4>3. worker[v].pc = "postPower" => worker[v].late
        BY <4>2 DEF Live, SetupPCs
      <4> QED
        BY <2>1, <2>2, <2>6, <4>1, <4>3 DEF HoldsLease, MarkedOnce, SeesGone, Live
    <3> QED
      BY <3>1, <3>2
  <2>9. SentOnce' /\ MarkedFirst' /\ FirewallGood' /\ LeasesPin'
    BY <2>1, <2>2, <2>3, <2>6
       DEF IInv, SentOnce, Posts, MarkedFirst, FirewallGood, LeasesPin
  <2>10. "powerOn" \notin Resources
    BY ResourceAssumption DEF Resources
  <2>11. PowerGood' /\ Untouched' /\ TargetLive' /\ DeletedMeansGone'
    BY <2>1, <2>2, <2>3, <2>4, <2>10 DEF IInv, PowerGood, Untouched, TargetLive, DeletedMeansGone
  <2> QED
    BY <2>7, <2>8, <2>9, <2>11 DEF IInv
<1> QED
  BY <1>2, <1>3

LEMMA DeletionKnown ==
  ASSUME NEW w \in Workers, NEW x \in NextDeletion(Left(w))
  PROVE  x \in Resources /\ x # "makeFirewall" /\ x # "powerOn"
BY ResourceAssumption DEF NextDeletion, Left, Manifest, Resources

(* A DELETE is sent by the cleanup that is leased.                         *)
LEMMA DeleteStep ==
  ASSUME IInv, NEW w \in Workers, Delete(w)
  PROVE  IInv'
<1>1. /\ worker[w].pc = "delete" /\ worker[w].pc # "idle" /\ worker[w].pc \in Leased
      /\ UNCHANGED <<db, provider, posts, faults>>
  BY DEF Delete, At, Leased, CleanPCs
<1>2. CASE UNCHANGED wire /\ GoTo(w, "reinspect")
  <2>1. "reinspect" \in Plain /\ "reinspect" \in Leased
    BY DEF Plain, AllPCs, Leased, CleanPCs, Waiting
  <2> QED
    BY <1>1, <1>2, <2>1, PlainMove DEF Fine
<1>3. CASE UNCHANGED wire /\ Fail(w)
  BY <1>1, <1>3, FailMove DEF Fine
<1>4. CASE \E x \in NextDeletion(Left(w)) :
              InBudget(w) /\ wire' = wire \cup {x} /\ GoTo(w, "deleteReply")
  <2>1. PICK x \in NextDeletion(Left(w)) : wire' = wire \cup {x}
    BY <1>4
  <2>2. x \in Resources /\ x # "makeFirewall" /\ x # "powerOn"
    BY DeletionKnown
  <2>3. UNCHANGED <<conn, order, boot, enrol, target, there, power, attach, posts, faults>>
    BY <1>1 DEF provider, db
  <2>4. order.lease = w /\ order.status = "cleaning"
    BY <1>1, <1>4, Known, WorkerAssumption DEF HoldsLease, Live, InBudget, IInv, LeasesPin
  <2>5. /\ WorkerTyped' /\ Others(w) /\ worker'[w].pc = "deleteReply" /\ SameLocals(w)
    BY <1>1, <1>4, Known, GoToEffect DEF AllPCs, CleanPCs
  <2>6. TypeOK'
    <3>1. wire' \subseteq {"makeFirewall", "powerOn"} \cup Resources
      BY <2>1, <2>2 DEF IInv, TypeOK
    <3> QED
      BY <2>3, <2>5, <3>1 DEF IInv, TypeOK, WorkerTyped
  <2>7. WorkersGood'
    <3> SUFFICES ASSUME NEW v \in Workers
                 PROVE  HoldsLease(v)' /\ MarkedOnce(v)' /\ SeesGone(v)'
      BY DEF WorkersGood
    <3>1. CASE v = w
      <4>1. worker[w].fw = boot.fwReceipt
        BY <1>1, Known DEF HoldsLease
      <4> QED
        BY <2>3, <2>4, <2>5, <3>1, <4>1
           DEF HoldsLease, MarkedOnce, SeesGone, SameLocals, Leased, CleanPCs, SetupPCs, PreparePCs
    <3>2. CASE v # w
      <4>1. worker'[v] = worker[v] /\ HoldsLease(v) /\ MarkedOnce(v) /\ SeesGone(v)
        BY <2>5, <3>2 DEF Others, IInv, WorkersGood
      <4> QED
        BY <2>1, <2>2, <2>3, <4>1 DEF HoldsLease, MarkedOnce, SeesGone, Live
    <3> QED
      BY <3>1, <3>2
  <2>8. SentOnce' /\ MarkedFirst' /\ FirewallGood' /\ LeasesPin'
    BY <2>1, <2>2, <2>3 DEF IInv, SentOnce, MarkedFirst, FirewallGood, LeasesPin
  <2>9. PowerGood' /\ Untouched' /\ TargetLive' /\ DeletedMeansGone'
    BY <2>1, <2>2, <2>3, <2>4 DEF IInv, PowerGood, Untouched, TargetLive, DeletedMeansGone
  <2> QED
    BY <2>6, <2>7, <2>8, <2>9 DEF IInv
<1> QED
  BY <1>2, <1>3, <1>4 DEF Delete

(* Calls that are answered, or that nobody answers any more.               *)
LEMMA ReplyMove ==
  ASSUME IInv, NEW w \in Workers, UNCHANGED <<db, provider, posts>>, wire' \subseteq wire,
         faults' \in 0..MaxFaults, WorkerTyped', Others(w),
         HoldsLease(w)', MarkedOnce(w)', SeesGone(w)'
  PROVE  IInv'
<1>1. UNCHANGED <<conn, order, boot, enrol, target, there, power, attach, posts>>
  BY DEF db, provider
<1>2. TypeOK'
  <2>1. wire' \subseteq {"makeFirewall", "powerOn"} \cup Resources
    BY DEF IInv, TypeOK
  <2> QED
    BY <1>1, <2>1 DEF IInv, TypeOK, WorkerTyped
<1>3. WorkersGood'
  <2> SUFFICES ASSUME NEW v \in Workers, v # w
               PROVE  HoldsLease(v)' /\ MarkedOnce(v)' /\ SeesGone(v)'
    BY DEF WorkersGood
  <2>1. worker'[v] = worker[v] /\ HoldsLease(v) /\ MarkedOnce(v) /\ SeesGone(v)
    BY DEF Others, IInv, WorkersGood
  <2> QED
    BY <1>1, <2>1 DEF HoldsLease, MarkedOnce, SeesGone, Live
<1>4. LeasesPin' /\ SentOnce' /\ MarkedFirst' /\ TargetLive' /\ DeletedMeansGone'
  BY <1>1 DEF IInv, LeasesPin, SentOnce, MarkedFirst, TargetLive, DeletedMeansGone
<1>5. FirewallGood' /\ PowerGood' /\ Untouched'
  BY <1>1 DEF IInv, FirewallGood, PowerGood, Untouched
<1> QED
  BY <1>2, <1>3, <1>4, <1>5 DEF IInv

LEMMA SetupReplyStep ==
  ASSUME IInv, NEW w \in Workers, FirewallReply(w) \/ PowerReply(w)
  PROVE  IInv'
<1>1. /\ worker[w].pc \in {"firewallReply", "powerReply"} /\ worker[w].pc # "idle"
      /\ UNCHANGED <<db, provider, posts>> /\ wire' \subseteq wire /\ (Faulty \/ Fine)
  BY DEF FirewallReply, PowerReply, At, Unanswered
<1>2. PICK pc \in {"saveFirewall", "savePower", "release"} :
         GoTo(w, pc) /\ (pc = "saveFirewall" => /\ worker[w].pc = "firewallReply"
                                                /\ "makeFirewall" \notin wire)
  BY DEF FirewallReply, PowerReply, At
<1>3. pc \in SetupPCs /\ pc \in AllPCs /\ pc # "idle" /\ pc \notin Waiting
      /\ worker[w].pc \in SetupPCs
  BY <1>1 DEF SetupPCs, AllPCs, Waiting
<1>4. WorkerTyped' /\ Others(w) /\ worker'[w].pc = pc /\ SameLocals(w)
  BY <1>1, <1>2, <1>3, Known, GoToEffect
<1>5. UNCHANGED <<order, boot, there, posts>>
  BY <1>1 DEF db, provider
<1>6. HoldsLease(w)'
  BY <1>1, <1>3, <1>4, <1>5, Known
     DEF HoldsLease, Live, SameLocals, SetupPCs, Leased, CleanPCs, PreparePCs
<1>7. MarkedOnce(w)' /\ SeesGone(w)'
  BY <1>1, <1>2, <1>4, <1>5, Known DEF MarkedOnce, SeesGone
<1> QED
  BY <1>1, <1>4, <1>6, <1>7, FaultTyped, Known, ReplyMove

LEMMA DeleteReplyStep ==
  ASSUME IInv, NEW w \in Workers, DeleteReply(w)
  PROVE  IInv'
<1>1. /\ worker[w].pc = "deleteReply" /\ worker[w].pc # "idle" /\ worker[w].pc \in Leased
      /\ UNCHANGED <<db, provider, posts>> /\ wire' \subseteq wire /\ (Faulty \/ Fine)
  BY DEF DeleteReply, At, Unanswered, Leased, CleanPCs
<1>2. CASE UNCHANGED wire /\ Fine /\ GoTo(w, "reinspect")
  <2>1. "reinspect" \in Plain /\ "reinspect" \in Leased
    BY DEF Plain, AllPCs, Leased, CleanPCs, Waiting
  <2> QED
    BY <1>1, <1>2, <2>1, PlainMove
<1>3. CASE Fail(w)
  <2>1. /\ WorkerTyped' /\ Others(w) /\ worker'[w].pc = "record" /\ worker'[w].err
        /\ worker'[w].late = worker[w].late /\ worker'[w].fw = worker[w].fw
    BY <1>1, <1>3, Known, FailEffect
  <2>2. UNCHANGED <<boot, order, there, posts>>
    BY <1>1 DEF db, provider
  <2>3. HoldsLease(w)' /\ MarkedOnce(w)' /\ SeesGone(w)'
    BY <1>1, <2>1, <2>2, Known
       DEF HoldsLease, MarkedOnce, SeesGone, Live, SetupPCs, PreparePCs, CleanPCs, Leased, Waiting
  <2> QED
    BY <1>1, <2>1, <2>3, FaultTyped, Known, ReplyMove
<1> QED
  BY <1>2, <1>3 DEF DeleteReply

-----------------------------------------------------------------------------
(* The provider's own steps.                                               *)

LEMMA ProviderMove ==
  ASSUME IInv, UNCHANGED <<db, posts, worker>>, faults' \in 0..MaxFaults,
         there' \subseteq Resources, power' \in {"off", "running", "deleting"},
         attach' \in {"no", "pending", "applied"}, wire' \subseteq wire,
         there' \subseteq there \/ order.status = "created_off",
         FirewallGood', PowerGood', Untouched'
  PROVE  IInv'
<1>1. UNCHANGED <<conn, order, boot, enrol, target, posts, worker>>
  BY DEF db
<1>2. TypeOK'
  <2>1. wire' \subseteq {"makeFirewall", "powerOn"} \cup Resources
    BY DEF IInv, TypeOK
  <2> QED
    BY <1>1, <2>1 DEF IInv, TypeOK
<1>3. WorkersGood'
  <2> SUFFICES ASSUME NEW v \in Workers
               PROVE  HoldsLease(v)' /\ MarkedOnce(v)' /\ SeesGone(v)'
    BY DEF WorkersGood
  <2>1. HoldsLease(v) /\ MarkedOnce(v) /\ SeesGone(v)
    BY DEF IInv, WorkersGood
  <2>2. HoldsLease(v)' /\ MarkedOnce(v)'
    BY <1>1, <2>1 DEF HoldsLease, MarkedOnce, Live
  <2>3. worker[v].pc = "record" => there' \subseteq there
    BY <2>1 DEF HoldsLease, Leased, CleanPCs
  <2>4. SeesGone(v)'
    BY <1>1, <2>1, <2>3 DEF SeesGone
  <2> QED
    BY <2>2, <2>4
<1>4. LeasesPin' /\ SentOnce' /\ MarkedFirst'
  BY <1>1 DEF IInv, LeasesPin, SentOnce, MarkedFirst
<1>5. TargetLive' /\ DeletedMeansGone'
  BY <1>1 DEF IInv, TargetLive, Untouched, DeletedMeansGone
<1> QED
  BY <1>2, <1>3, <1>4, <1>5 DEF IInv

LEMMA Beginning ==
  ASSUME IInv, "makeFirewall" \in wire
  PROVE  order.status = "created_off" /\ "powerOn" \notin wire /\ power # "running"
BY DEF IInv, MarkedFirst, FirewallGood, Untouched, PowerGood

LEMMA MakeFirewallStep ==
  ASSUME IInv, MakeFirewall
  PROVE  IInv'
<1>1. /\ "makeFirewall" \in wire /\ wire' = wire \ {"makeFirewall"}
      /\ there' = there \cup {"firewall"} /\ attach' = "pending"
      /\ UNCHANGED <<conn, order, boot, enrol, target, power, posts, worker, faults>>
  BY DEF MakeFirewall, db
<1>2. order.status = "created_off" /\ "powerOn" \notin wire /\ power # "running"
  BY <1>1, Beginning
<1>3. FirewallGood'
  BY <1>1 DEF IInv, FirewallGood
<1>4. PowerGood' /\ Untouched'
  BY <1>1, <1>2 DEF IInv, PowerGood, Untouched
<1>5. /\ there' \subseteq Resources /\ power' \in {"off", "running", "deleting"}
      /\ faults' \in 0..MaxFaults
  BY <1>1 DEF IInv, TypeOK, Resources
<1> QED
  BY <1>1, <1>2, <1>3, <1>4, <1>5, ProviderMove DEF db

LEMMA FirewallAppliesStep ==
  ASSUME IInv, FirewallApplies
  PROVE  IInv'
<1>1. /\ attach = "pending" /\ attach' \in {"applied", "no"} /\ (Faulty \/ Fine)
      /\ UNCHANGED <<conn, order, boot, enrol, target, there, power, wire, posts, worker>>
  BY DEF FirewallApplies, db
<1>2. FirewallGood'
  BY <1>1 DEF IInv, FirewallGood
<1>3. PowerGood' /\ Untouched'
  BY <1>1 DEF IInv, PowerGood, Untouched
<1>4. /\ there' \subseteq Resources /\ power' \in {"off", "running", "deleting"}
      /\ faults' \in 0..MaxFaults
  BY <1>1, FaultTyped DEF IInv, TypeOK
<1> QED
  BY <1>1, <1>2, <1>3, <1>4, ProviderMove DEF db

LEMMA PowerOnStep ==
  ASSUME IInv, PowerOn
  PROVE  IInv'
<1>1. /\ "powerOn" \in wire /\ wire' = wire \ {"powerOn"}
      /\ power' = (IF "server" \in there /\ power = "off" THEN "running" ELSE power)
      /\ UNCHANGED <<conn, order, boot, enrol, target, there, attach, posts, worker, faults>>
  BY DEF PowerOn, db
<1>2. FirewallGood'
  BY <1>1 DEF IInv, FirewallGood
<1>3. PowerGood' /\ Untouched'
  BY <1>1 DEF IInv, PowerGood, Untouched
<1>4. /\ there' \subseteq Resources /\ power' \in {"off", "running", "deleting"}
      /\ faults' \in 0..MaxFaults /\ attach' \in {"no", "pending", "applied"}
  BY <1>1 DEF IInv, TypeOK
<1> QED
  BY <1>1, <1>2, <1>3, <1>4, ProviderMove DEF db

LEMMA DeleteLandsStep ==
  ASSUME IInv, NEW x \in Resources, DeleteLands(x)
  PROVE  IInv'
<1>1. /\ x \in wire \cap Resources /\ wire' = wire \ {x}
      /\ power' = (IF x = "server" /\ x \in there THEN "deleting" ELSE power)
      /\ there' = (IF x = "server" \/ (x = "firewall" /\ attach # "no") THEN there ELSE there \ {x})
      /\ UNCHANGED <<conn, order, boot, enrol, target, attach, posts, worker, faults>>
  BY DEF DeleteLands, db
<1>2. order.status # "created_off" /\ there' \subseteq there
      /\ x # "makeFirewall" /\ x # "powerOn"
  BY <1>1, ResourceAssumption DEF IInv, Untouched, Resources
<1>3. FirewallGood'
  BY <1>1, <1>2 DEF IInv, FirewallGood
<1>4. PowerGood' /\ Untouched'
  BY <1>1, <1>2 DEF IInv, PowerGood, Untouched
<1>5. /\ there' \subseteq Resources /\ power' \in {"off", "running", "deleting"}
      /\ faults' \in 0..MaxFaults /\ attach' \in {"no", "pending", "applied"}
  BY <1>1 DEF IInv, TypeOK
<1> QED
  BY <1>1, <1>2, <1>3, <1>4, <1>5, ProviderMove DEF db

LEMMA ServerGoneStep ==
  ASSUME IInv, ServerGone
  PROVE  IInv'
<1>1. PICK gone \in SUBSET Ips : there' = there \ (gone \cup {"server"})
  BY DEF ServerGone
<1>2. /\ power = "deleting"
      /\ UNCHANGED <<conn, order, boot, enrol, target, power, attach, wire, posts, worker, faults>>
  BY DEF ServerGone, db
<1>3. /\ order.status # "created_off" /\ there' \subseteq there /\ "server" \notin there'
      /\ "firewall" \in there' <=> "firewall" \in there
  BY <1>1, <1>2, ResourceAssumption DEF IInv, Untouched
<1>4. FirewallGood'
  BY <1>2, <1>3 DEF IInv, FirewallGood
<1>5. PowerGood' /\ Untouched'
  BY <1>2, <1>3 DEF PowerGood, Untouched
<1>6. /\ there' \subseteq Resources /\ power' \in {"off", "running", "deleting"}
      /\ faults' \in 0..MaxFaults /\ attach' \in {"no", "pending", "applied"}
  BY <1>2, <1>3 DEF IInv, TypeOK
<1> QED
  BY <1>2, <1>3, <1>4, <1>5, <1>6, ProviderMove DEF db

LEMMA FirewallDetachesStep ==
  ASSUME IInv, FirewallDetaches
  PROVE  IInv'
<1>1. /\ "server" \notin there /\ attach' = "no"
      /\ UNCHANGED <<conn, order, boot, enrol, target, there, power, wire, posts, worker, faults>>
  BY DEF FirewallDetaches, db
<1>2. FirewallGood' /\ PowerGood' /\ Untouched'
  BY <1>1 DEF IInv, FirewallGood, PowerGood, Untouched
<1>3. /\ there' \subseteq Resources /\ power' \in {"off", "running", "deleting"}
      /\ faults' \in 0..MaxFaults
  BY <1>1 DEF IInv, TypeOK
<1> QED
  BY <1>1, <1>2, <1>3, ProviderMove DEF db

LEMMA OwnerStopsStep ==
  ASSUME IInv, OwnerStops
  PROVE  IInv'
<1>1. /\ power' = "off" /\ Faulty
      /\ UNCHANGED <<conn, order, boot, enrol, target, there, attach, wire, posts, worker>>
  BY DEF OwnerStops, db
<1>2. FirewallGood' /\ PowerGood' /\ Untouched'
  BY <1>1 DEF IInv, FirewallGood, PowerGood, Untouched
<1>3. /\ there' \subseteq Resources /\ attach' \in {"no", "pending", "applied"}
      /\ faults' \in 0..MaxFaults
  BY <1>1, FaultTyped DEF IInv, TypeOK
<1> QED
  BY <1>1, <1>2, <1>3, ProviderMove DEF db

-----------------------------------------------------------------------------
(* Steps of the database alone: the owner, the guest, the clock.           *)

StatusKept ==
    \/ order'.status = order.status
    \/ order.status = "cleaning" /\ order'.status = "cleanup_abandoned"

LEMMA OwnerMove ==
  ASSUME IInv, UNCHANGED <<provider, wire, posts, worker, faults>>,
         conn' \in BOOLEAN, order' \in OrderRow, boot' \in BootRow, enrol' \in EnrolRow,
         target' \in {"none", "published", "ready", "owned", "retired"},
         boot'.fwMark = boot.fwMark, boot'.fwReceipt = boot.fwReceipt,
         boot'.pwMark = boot.pwMark,
         StatusKept, LeasesPin', TargetLive', \A v \in Workers : HoldsLease(v)'
  PROVE  IInv'
<1>1. UNCHANGED <<there, power, attach, wire, posts, worker, faults>>
  BY DEF provider
<1>2. TypeOK'
  BY <1>1 DEF IInv, TypeOK, OrderRow, BootRow, EnrolRow
<1>3. WorkersGood'
  BY <1>1 DEF IInv, WorkersGood, MarkedOnce, SeesGone
<1>4. SentOnce' /\ MarkedFirst' /\ FirewallGood'
  BY <1>1 DEF IInv, SentOnce, MarkedFirst, FirewallGood, StatusKept
<1>5. PowerGood' /\ Untouched' /\ DeletedMeansGone'
  BY <1>1 DEF IInv, PowerGood, Untouched, DeletedMeansGone, StatusKept
<1> QED
  BY <1>2, <1>3, <1>4, <1>5 DEF IInv

(* Where leases, receipt and status stay, every request keeps its hold.    *)
LEMMA KeptLeases ==
  ASSUME IInv, UNCHANGED worker, boot'.lease = boot.lease, boot'.fwReceipt = boot.fwReceipt,
         order'.lease = order.lease,
         order'.status # "created_off" \/ order'.status = order.status
  PROVE  \A v \in Workers : HoldsLease(v)'
BY DEF IInv, WorkersGood, HoldsLease, Live

LEMMA RowsTyped ==
  ASSUME IInv
  PROVE  /\ conn \in BOOLEAN /\ order \in OrderRow /\ boot \in BootRow /\ enrol \in EnrolRow
         /\ target \in {"none", "published", "ready", "owned", "retired"}
BY DEF IInv, TypeOK, OrderRow, BootRow, EnrolRow

LEMMA EnrolStep ==
  ASSUME IInv, GuestEnrols \/ WindowCloses
  PROVE  IInv'
<1>1. enrol' \in EnrolRow
  BY RowsTyped DEF GuestEnrols, WindowCloses, EnrolRow
<1>2. UNCHANGED <<conn, order, boot, target, provider, wire, posts, worker, faults>>
  BY DEF GuestEnrols, WindowCloses
<1>3. LeasesPin' /\ TargetLive'
  BY <1>2 DEF IInv, LeasesPin, TargetLive, provider
<1>4. /\ conn' \in BOOLEAN /\ order' \in OrderRow /\ boot' \in BootRow
      /\ target' \in {"none", "published", "ready", "owned", "retired"}
  BY <1>2, RowsTyped
<1>5. \A v \in Workers : HoldsLease(v)'
  BY <1>2, KeptLeases
<1> QED
  BY <1>1, <1>2, <1>3, <1>4, <1>5, OwnerMove DEF StatusKept

LEMMA ReserveAgentStep ==
  ASSUME IInv, ReserveAgent
  PROVE  IInv'
<1>1. /\ target = "ready" /\ target' = "owned"
      /\ UNCHANGED <<conn, order, boot, enrol, provider, wire, posts, worker, faults>>
  BY DEF ReserveAgent
<1>2. LeasesPin' /\ TargetLive'
  BY <1>1 DEF IInv, LeasesPin, TargetLive, provider
<1> QED
  BY <1>1, <1>2, RowsTyped, KeptLeases, OwnerMove DEF StatusKept

LEMMA AbandonSetupStep ==
  ASSUME IInv, AbandonSetup
  PROVE  IInv'
<1> DEFINE new == [boot EXCEPT !.abandoned = TRUE]
<1>1. /\ boot.lease = "none" /\ boot' = new /\ enrol' = [enrol EXCEPT !.phase = "revoked"]
      /\ UNCHANGED <<conn, order, target, provider, wire, posts, worker, faults>>
  BY DEF AbandonSetup
<1>2. /\ new \in BootRow /\ new.lease = boot.lease /\ new.fwMark = boot.fwMark
      /\ new.fwReceipt = boot.fwReceipt /\ new.pwMark = boot.pwMark
  BY RowsTyped DEF BootRow
<1> HIDE DEF new
<1>3. enrol' \in EnrolRow
  BY <1>1, RowsTyped DEF EnrolRow
<1>4. LeasesPin' /\ TargetLive'
  BY <1>1, <1>2 DEF IInv, LeasesPin, TargetLive, provider
<1> QED
  BY <1>1, <1>2, <1>3, <1>4, RowsTyped, KeptLeases, OwnerMove DEF StatusKept

LEMMA AbandonCleanupStep ==
  ASSUME IInv, AbandonCleanup
  PROVE  IInv'
<1> DEFINE new == [order EXCEPT !.status = "cleanup_abandoned"]
<1>1. /\ order.status = "cleaning" /\ order.lease = "none" /\ order' = new /\ conn' = FALSE
      /\ target' = "none" /\ UNCHANGED <<boot, enrol, provider, wire, posts, worker, faults>>
  BY DEF AbandonCleanup, TargetFalls
<1>2. new \in OrderRow /\ new.lease = order.lease /\ new.status = "cleanup_abandoned"
  BY RowsTyped DEF OrderRow
<1> HIDE DEF new
<1>3. boot.lease = "none"
  BY <1>1 DEF IInv, LeasesPin
<1>4. LeasesPin' /\ TargetLive'
  BY <1>1, <1>2, <1>3 DEF LeasesPin, TargetLive
<1> QED
  BY <1>1, <1>2, <1>4, RowsTyped, KeptLeases, OwnerMove DEF StatusKept

LEMMA DisconnectStep ==
  ASSUME IInv, Disconnect
  PROVE  IInv'
<1>1. /\ ~Retained /\ conn' = FALSE /\ target' = "none"
      /\ UNCHANGED <<order, boot, enrol, provider, wire, posts, worker, faults>>
  BY DEF Disconnect
<1>2. boot.lease = "none" /\ order.lease = "none"
  BY <1>1 DEF IInv, LeasesPin, Retained
<1>3. LeasesPin' /\ TargetLive'
  BY <1>1, <1>2 DEF LeasesPin, TargetLive
<1> QED
  BY <1>1, <1>3, RowsTyped, KeptLeases, OwnerMove DEF StatusKept

LEMMA BootLeaseExpiresStep ==
  ASSUME IInv, NEW w \in Workers, BootLeaseExpires(w)
  PROVE  IInv'
<1> DEFINE new == [boot EXCEPT !.lease = "none"]
<1>1. /\ boot.lease = w /\ Overdue(w, SetupPCs \cup PreparePCs) /\ boot' = new
      /\ UNCHANGED <<conn, order, enrol, target, provider, wire, posts, worker, faults>>
  BY DEF BootLeaseExpires
<1>2. /\ new \in BootRow /\ new.lease = "none" /\ new.fwMark = boot.fwMark
      /\ new.fwReceipt = boot.fwReceipt /\ new.pwMark = boot.pwMark
  BY RowsTyped DEF BootRow, Holder
<1> HIDE DEF new
<1>3. LeasesPin' /\ TargetLive'
  BY <1>1, <1>2 DEF IInv, LeasesPin, TargetLive, provider
<1>4. ASSUME NEW v \in Workers PROVE HoldsLease(v)'
  <2>1. HoldsLease(v)
    BY DEF IInv, WorkersGood
  <2>2. worker[v].pc \in SetupPCs \cup PreparePCs => ~Live(v)
    BY <1>1, <2>1 DEF HoldsLease, Overdue, Live
  <2> QED
    BY <1>1, <1>2, <2>1, <2>2 DEF HoldsLease, Live
<1> QED
  BY <1>1, <1>2, <1>3, <1>4, RowsTyped, OwnerMove DEF StatusKept

LEMMA CleanupLeaseExpiresStep ==
  ASSUME IInv, NEW w \in Workers, CleanupLeaseExpires(w)
  PROVE  IInv'
<1> DEFINE new == [order EXCEPT !.lease = "none"]
<1>1. /\ order.lease = w /\ Overdue(w, Leased) /\ order' = new
      /\ UNCHANGED <<conn, boot, enrol, target, provider, wire, posts, worker, faults>>
  BY DEF CleanupLeaseExpires, Leased
<1>2. new \in OrderRow /\ new.lease = "none" /\ new.status = order.status
  BY RowsTyped DEF OrderRow, Holder
<1> HIDE DEF new
<1>3. LeasesPin' /\ TargetLive'
  BY <1>1, <1>2 DEF IInv, LeasesPin, TargetLive, provider
<1>4. ASSUME NEW v \in Workers PROVE HoldsLease(v)'
  <2>1. HoldsLease(v)
    BY DEF IInv, WorkersGood
  <2>2. worker[v].pc \in Leased => ~Live(v)
    BY <1>1, <2>1 DEF HoldsLease, Overdue, Live
  <2> QED
    BY <1>1, <1>2, <2>1, <2>2 DEF HoldsLease, Live
<1> QED
  BY <1>1, <1>2, <1>3, <1>4, RowsTyped, OwnerMove DEF StatusKept

-----------------------------------------------------------------------------
(* The order: claimed by a cleanup, and observed.                          *)

LEMMA OrderMove ==
  ASSUME IInv, NEW w \in Workers,
         UNCHANGED <<conn, boot, enrol, target, provider, wire, posts, faults>>,
         order' \in OrderRow, WorkerTyped', Others(w),
         order.lease = "none" \/ order.lease = w,
         order'.status # "created_off", boot.fwMark => boot.fwReceipt,
         LeasesPin', TargetLive', DeletedMeansGone',
         HoldsLease(w)', MarkedOnce(w)', SeesGone(w)'
  PROVE  IInv'
<1>1. UNCHANGED <<conn, boot, enrol, target, there, power, attach, wire, posts, faults>>
  BY DEF provider
<1>2. TypeOK'
  BY <1>1 DEF IInv, TypeOK, OrderRow, WorkerTyped
<1>3. WorkersGood'
  <2> SUFFICES ASSUME NEW v \in Workers, v # w
               PROVE  HoldsLease(v)' /\ MarkedOnce(v)' /\ SeesGone(v)'
    BY DEF WorkersGood
  <2>1. worker'[v] = worker[v] /\ HoldsLease(v) /\ MarkedOnce(v) /\ SeesGone(v) /\ v # "none"
    BY WorkerAssumption DEF Others, IInv, WorkersGood
  <2>2. worker[v].pc \in Leased => ~Live(v)
    BY <2>1 DEF HoldsLease
  <2>3. HoldsLease(v)'
    BY <1>1, <2>1, <2>2 DEF HoldsLease, Live
  <2> QED
    BY <1>1, <2>1, <2>3 DEF MarkedOnce, SeesGone
<1>4. SentOnce' /\ MarkedFirst' /\ FirewallGood' /\ PowerGood' /\ Untouched'
  BY <1>1 DEF IInv, SentOnce, MarkedFirst, FirewallGood, PowerGood, Untouched
<1> QED
  BY <1>2, <1>3, <1>4 DEF IInv

LEMMA ClaimCleanupStep ==
  ASSUME IInv, NEW w \in Workers, ClaimCleanup(w)
  PROVE  IInv'
<1> DEFINE new == [order EXCEPT !.status = "cleaning", !.lease = w, !.fw = worker[w].fw]
<1>1. /\ worker[w].pc = "claim" /\ worker[w].pc # "idle"
      /\ UNCHANGED <<conn, boot, enrol, target, provider, wire, posts, faults>>
  BY DEF ClaimCleanup, At
<1>2. CASE UNCHANGED order /\ GoTo(w, "idle")
  BY <1>1, <1>2, PlainMove DEF db, Fine
<1>3. CASE CanClean(w) /\ order' = new /\ Sees(w, "lease", order.absent)
  <2>1. /\ worker[w] # NoWorker /\ worker[w].fw \in BOOLEAN /\ order.absent \in SUBSET Resources
        /\ "lease" \in CleanPCs
    BY <1>1, Known, RowsTyped DEF OrderRow, CleanPCs
  <2>2. new \in OrderRow /\ new.status = "cleaning" /\ new.lease = w
    BY <2>1, RowsTyped DEF OrderRow, Holder
  <2> HIDE DEF new
  <2>3. /\ WorkerTyped' /\ Others(w) /\ worker'[w].pc = "lease"
        /\ worker'[w].fw = worker[w].fw
    BY <1>3, <2>1, Known, SeesEffect
  <2>4. /\ order.lease = "none" /\ boot.lease = "none" /\ conn
        /\ boot.fwMark => boot.fwReceipt
        /\ boot.fwReceipt = worker[w].fw /\ target \in {"none", "retired"}
    BY <1>3 DEF CanClean
  <2>5. LeasesPin' /\ TargetLive' /\ DeletedMeansGone'
    BY <1>1, <1>3, <2>2, <2>4 DEF LeasesPin, TargetLive, DeletedMeansGone
  <2>6. HoldsLease(w)' /\ MarkedOnce(w)' /\ SeesGone(w)'
    BY <1>1, <1>3, <2>2, <2>3, <2>4
       DEF HoldsLease, MarkedOnce, SeesGone, SetupPCs, PreparePCs
  <2> QED
    BY <1>1, <1>3, <2>2, <2>3, <2>4, <2>5, <2>6, OrderMove
<1> QED
  BY <1>2, <1>3 DEF ClaimCleanup, Sees

(* An observation ends the order only when nothing of it is left: without  *)
(* a receipt there was no POST, so there is no firewall to miss.           *)
LEMMA RecordObservationStep ==
  ASSUME IInv, NEW w \in Workers, RecordObservation(w)
  PROVE  IInv'
<1> DEFINE status == IF ~worker[w].err /\ Left(w) = {} THEN "deleted" ELSE order.status
           new == [order EXCEPT !.lease = "none", !.absent = worker[w].absent, !.status = status]
           ok == /\ conn /\ order.status = "cleaning" /\ order.lease = w
                 /\ order.absent \subseteq worker[w].absent
<1>1. /\ worker[w].pc = "record" /\ worker[w].pc # "idle" /\ GoTo(w, "idle")
      /\ UNCHANGED <<conn, boot, enrol, target, provider, wire, posts, faults>>
      /\ order' = (IF ok THEN new ELSE order)
  BY DEF RecordObservation, At
<1>2. CASE ~ok
  BY <1>1, <1>2, PlainMove DEF db, Fine
<1>3. CASE ok
  <2>1. worker[w] \in Worker /\ worker[w].absent \in SUBSET Resources
    BY <1>1, BusyTyped, Known DEF Worker
  <2>2. status \in {"cleaning", "deleted"}
    BY <1>3
  <2>3. /\ new \in OrderRow /\ new.lease = "none" /\ new.status = status
    BY <2>1, <2>2, RowsTyped DEF OrderRow, Holder
  <2>4. worker[w].fw = boot.fwReceipt /\ (boot.fwMark => boot.fwReceipt) /\ boot.lease = "none"
    BY <1>1, <1>3, Known DEF HoldsLease, Leased, CleanPCs, IInv, FirewallGood, LeasesPin
  <2>5. ~worker[w].err /\ Left(w) = {} => there = {} /\ "makeFirewall" \notin wire
    <3> SUFFICES ASSUME ~worker[w].err, Left(w) = {}
                 PROVE  there = {} /\ "makeFirewall" \notin wire
      OBVIOUS
    <3>1. Manifest(worker[w].fw) \cap there = {}
      BY <1>1, Known DEF Left, SeesGone
    <3>2. worker[w].fw => Resources \subseteq Manifest(worker[w].fw)
      BY DEF Resources, Manifest
    <3>3. ~worker[w].fw => posts["firewall"] = 0
      BY <2>4 DEF IInv, MarkedFirst
    <3>4. ~worker[w].fw => "firewall" \notin there /\ "makeFirewall" \notin wire
      BY <3>3 DEF IInv, FirewallGood
    <3>5. worker[w].fw => "makeFirewall" \notin wire
      BY <2>4 DEF IInv, FirewallGood
    <3>6. there \subseteq Resources
      BY DEF IInv, TypeOK
    <3>7. Resources \subseteq Manifest(worker[w].fw) \cup {"firewall"}
      BY DEF Resources, Manifest
    <3>8. worker[w].fw \/ ~worker[w].fw
      OBVIOUS
    <3> QED
      BY <3>1, <3>2, <3>4, <3>5, <3>6, <3>7, <3>8
  <2>6. status = "deleted" => there = {} /\ "makeFirewall" \notin wire
    BY <1>3, <2>5
  <2> HIDE DEF new, status
  <2>7. order' = new
    BY <1>1, <1>3
  <2>8. LeasesPin' /\ DeletedMeansGone'
    BY <1>1, <2>3, <2>4, <2>6, <2>7 DEF LeasesPin, DeletedMeansGone, provider
  <2>9. TargetLive'
    BY <1>1, <1>3 DEF IInv, TargetLive
  <2>10. WorkerTyped' /\ Others(w) /\ worker'[w].pc = "idle"
    BY <1>1, Known, GoToEffect
  <2>11. HoldsLease(w)' /\ MarkedOnce(w)' /\ SeesGone(w)'
    BY <2>10 DEF HoldsLease, MarkedOnce, SeesGone, SetupPCs, PreparePCs, Leased, CleanPCs
  <2>12. order'.status # "created_off" /\ order' \in OrderRow
    BY <2>2, <2>3, <2>7
  <2> QED
    BY <1>1, <1>3, <2>4, <2>8, <2>9, <2>10, <2>11, <2>12, OrderMove
<1> QED
  BY <1>2, <1>3

-----------------------------------------------------------------------------
(* The theorems.                                                           *)

LEMMA InitGood ==
  ASSUME Init
  PROVE  IInv
<1>1. /\ conn = TRUE /\ target = "none" /\ power = "off" /\ attach = "no" /\ wire = {}
      /\ order.status = "created_off" /\ order.lease = "none" /\ boot.lease = "none"
      /\ boot.fwReceipt = FALSE /\ boot.fwMark = FALSE /\ boot.pwMark = FALSE
      /\ there = Resources \ {"firewall"}
  BY DEF Init
<1>2. posts["firewall"] = 0 /\ posts["powerOn"] = 0 /\ posts \in [Posts -> Nat]
  BY DEF Init, Posts
<1>3. \A w \in Workers : worker[w] = NoWorker
  BY DEF Init
<1>4. WorkerTyped
  BY DEF Init, WorkerTyped
<1>5. TypeOK
  <2>1. order \in OrderRow
    BY DEF Init, OrderRow, Holder
  <2>2. boot \in BootRow
    BY DEF Init, BootRow, Holder
  <2>3. enrol \in EnrolRow /\ faults \in 0..MaxFaults
    BY FaultAssumption DEF Init, EnrolRow
  <2> QED
    BY <1>1, <1>2, <1>4, <2>1, <2>2, <2>3 DEF TypeOK, OrderRow, BootRow, EnrolRow, WorkerTyped
<1>6. WorkersGood
  BY <1>3 DEF WorkersGood, HoldsLease, MarkedOnce, SeesGone, NoWorker, SetupPCs, PreparePCs,
              Leased, CleanPCs
<1>7. LeasesPin /\ SentOnce /\ MarkedFirst /\ FirewallGood
  BY <1>1, <1>2 DEF LeasesPin, SentOnce, Posts, MarkedFirst, FirewallGood
<1>8. PowerGood /\ Untouched /\ TargetLive /\ DeletedMeansGone
  BY <1>1 DEF PowerGood, Untouched, TargetLive, DeletedMeansGone, Resources
<1> QED
  BY <1>5, <1>6, <1>7, <1>8 DEF IInv

LEMMA NextGood ==
  ASSUME IInv, [Next]_vars
  PROVE  IInv'
<1>1. CASE UNCHANGED vars
  BY <1>1 DEF vars, IInv, TypeOK, LeasesPin, WorkersGood, HoldsLease, Live, MarkedOnce, SeesGone,
              SentOnce, MarkedFirst, FirewallGood, PowerGood, Untouched, TargetLive,
              DeletedMeansGone
<1>2. CASE Provider
  BY <1>2, MakeFirewallStep, FirewallAppliesStep, PowerOnStep, ServerGoneStep,
     FirewallDetachesStep, DeleteLandsStep DEF Provider
<1>3. CASE \/ OwnerStops \/ GuestEnrols \/ WindowCloses \/ ReserveAgent
           \/ AbandonSetup \/ AbandonCleanup \/ Disconnect
  BY <1>3, OwnerStopsStep, EnrolStep, ReserveAgentStep, AbandonSetupStep, AbandonCleanupStep,
     DisconnectStep
<1>4. ASSUME NEW w \in Workers, Setup(w) PROVE IInv'
  BY <1>4, RouteStep, CheckStep, MarkFirewallStep, PostFirewallStep, SetupReplyStep,
     SaveFirewallStep, ArmStep, VerifyFirewallStep, MarkPowerStep, PostPowerStep, ActionStep,
     ReleaseStep DEF Setup
<1>5. ASSUME NEW w \in Workers, Prepare(w) PROVE IInv'
  BY <1>5, InstallStep, PublishStep, AdmitStep DEF Prepare
<1>6. ASSUME NEW w \in Workers, Clean(w) PROVE IInv'
  BY <1>6, RetireStep, ClaimCleanupStep, VerifyLeaseStep, InspectStep, DeleteStep,
     DeleteReplyStep, RecordObservationStep DEF Clean
<1>7. ASSUME NEW w \in Workers,
             ClaimSetup(w) \/ ClaimGuest(w) \/ CleanRequest(w) \/ BudgetEnds(w)
                \/ SetupStops(w) \/ Dies(w) \/ Expiry(w)
      PROVE  IInv'
  BY <1>7, ClaimSetupStep, ClaimGuestStep, CleanRequestStep, BudgetEndsStep, SetupStopsStep,
     DiesStep, BootLeaseExpiresStep, CleanupLeaseExpiresStep DEF Expiry
<1> QED
  BY <1>1, <1>2, <1>3, <1>4, <1>5, <1>6, <1>7 DEF Next

(* The inductive invariant holds in every reachable state, for any set of  *)
(* concurrent setup, preparation and cleanup requests.                     *)
THEOREM Invariance == Spec => []IInv
BY InitGood, NextGood, PTL DEF Spec

(* Orders, setups, enrollments, targets and requests keep their types.     *)
THEOREM TypeCorrect == Spec => []TypeOK
<1>1. IInv => TypeOK
  BY DEF IInv
<1> QED
  BY <1>1, Invariance, PTL

(* advanceFirstBoot sends the firewall POST and the power-on at most once, *)
(* whatever is lost, dies, expires or is requested again.                  *)
THEOREM PostsSentOnce == Spec => []SentOnce
<1>1. IInv => SentOnce
  BY DEF IInv
<1> QED
  BY <1>1, Invariance, PTL

(* A server powered on by first-boot setup runs behind its applied         *)
(* firewall until the server itself is gone, late power-ons included.      *)
THEOREM RunningIsProtected == Spec => []RunningProtected
<1>1. IInv => RunningProtected
  BY DEF IInv, PowerGood, FirewallGood, RunningProtected
<1> QED
  BY <1>1, Invariance, PTL

(* A target that prepareEnrolledGuest published and a launch may own is on *)
(* a server no cleanup has begun to take down.                             *)
THEOREM TargetsStayLive == Spec => []TargetLive
<1>1. IInv => TargetLive
  BY DEF IInv
<1> QED
  BY <1>1, Invariance, PTL

(* advanceHetznerCleanup records deleted only when the project holds none  *)
(* of the order's resources and no firewall POST can still land.           *)
THEOREM DeletedLeavesNothing == Spec => []DeletedMeansGone
<1>1. IInv => DeletedMeansGone
  BY DEF IInv
<1> QED
  BY <1>1, Invariance, PTL

-----------------------------------------------------------------------------
(* Who sends.                                                              *)

(* No request starts to wait for a reply.                                  *)
Silent == \A v \in Workers : ~Dispatches(v)

Fenced(w) ==
    /\ conn
    /\ \/ order.status = "created_off" /\ boot.lease = w /\ ~boot.abandoned
       \/ order.status = "cleaning" /\ order.lease = w /\ boot.lease = "none"

LEMMA GoToSilent ==
  ASSUME IInv, NEW w \in Workers, worker[w].pc # "idle",
         NEW pc \in (AllPCs \ Waiting) \cup {"idle"}, GoTo(w, pc)
  PROVE  Silent
<1>1. Others(w) /\ worker'[w].pc = pc
  BY Known, GoToEffect
<1>2. pc \notin Waiting
  BY DEF Waiting
<1> QED
  BY <1>1, <1>2 DEF Silent, Dispatches, Others

LEMMA BeginSilent ==
  ASSUME IInv, NEW w \in Workers, NEW pc \in AllPCs \ Waiting, Begin(w, pc)
  PROVE  Silent
<1>1. TypeOK
  BY Known
<1>2. Others(w) /\ worker'[w].pc = pc
  BY <1>1, BeginEffect
<1> QED
  BY <1>2 DEF Silent, Dispatches, Others

LEMMA FailSilent ==
  ASSUME IInv, NEW w \in Workers, worker[w].pc # "idle", Fail(w)
  PROVE  Silent
<1>1. Others(w) /\ worker'[w].pc = "record"
  BY Known, FailEffect
<1> QED
  BY <1>1 DEF Silent, Dispatches, Others, Waiting

LEMMA SeesSilent ==
  ASSUME IInv, NEW w \in Workers, worker[w].pc # "idle", NEW pc \in CleanPCs \ Waiting,
         NEW absent \in SUBSET Resources, Sees(w, pc, absent)
  PROVE  Silent
<1>1. Others(w) /\ worker'[w].pc = pc
  BY Known, SeesEffect
<1> QED
  BY <1>1 DEF Silent, Dispatches, Others

LEMMA StillSilent ==
  ASSUME UNCHANGED worker
  PROVE  Silent
BY DEF Silent, Dispatches

(* The requests' steps that send nothing.                                  *)
LEMMA SetupSilent ==
  ASSUME IInv, NEW w \in Workers, Setup(w), ~PostFirewall(w), ~PostPower(w)
  PROVE  Silent
<1> DEFINE pcs == {"release", "poll", "protect", "capacity", "markFirewall", "postFirewall",
                   "saveFirewall", "arm", "verify", "markPower", "postPower", "savePower", "idle"}
<1>1. worker[w].pc # "idle" /\ \E pc \in pcs : GoTo(w, pc)
  <2>1. CASE Route(w)
    BY <2>1 DEF Route, Routed, At
  <2>2. CASE FirewallReply(w) \/ PowerReply(w) \/ Release(w)
    BY <2>2 DEF FirewallReply, PowerReply, Release, At
  <2>3. CASE CheckCapacity(w) \/ MarkFirewall(w) \/ SaveFirewall(w) \/ Protect(w) \/ Arm(w)
    BY <2>3 DEF CheckCapacity, MarkFirewall, SaveFirewall, Protect, Arm, Checked, At
  <2>4. CASE VerifyFirewall(w) \/ MarkPower(w) \/ SavePower(w) \/ Poll(w)
    BY <2>4 DEF VerifyFirewall, MarkPower, SavePower, Poll, Checked, At
  <2> QED
    BY <2>1, <2>2, <2>3, <2>4 DEF Setup
<1>2. pcs \subseteq (AllPCs \ Waiting) \cup {"idle"}
  BY DEF AllPCs, SetupPCs, Waiting
<1> HIDE DEF pcs
<1> QED
  BY <1>1, <1>2, GoToSilent

LEMMA PrepareSilent ==
  ASSUME IInv, NEW w \in Workers, Prepare(w)
  PROVE  Silent
<1> DEFINE pcs == {"publish", "admit", "release", "idle"}
<1>1. worker[w].pc # "idle" /\ \E pc \in pcs : GoTo(w, pc)
  BY DEF Prepare, InstallBundle, Publish, Admit, At
<1>2. pcs \subseteq (AllPCs \ Waiting) \cup {"idle"}
  BY DEF AllPCs, SetupPCs, PreparePCs, Waiting
<1> HIDE DEF pcs
<1> QED
  BY <1>1, <1>2, GoToSilent

LEMMA CleanSilent ==
  ASSUME IInv, NEW w \in Workers, Clean(w), ~Delete(w)
  PROVE  Silent
<1> DEFINE pcs == {"claim", "inspect", "reinspect", "idle"}
           moved == \E pc \in pcs : GoTo(w, pc)
           seen == \/ Sees(w, "lease", order.absent) \/ Sees(w, "delete", Seen(w))
                   \/ Sees(w, "record", Seen(w))
<1>1. worker[w].pc # "idle" /\ (moved \/ Fail(w) \/ seen)
  <2>1. CASE Retire(w) \/ VerifyLease(w) \/ DeleteReply(w) \/ RecordObservation(w)
    BY <2>1 DEF Retire, VerifyLease, DeleteReply, RecordObservation, At
  <2>2. CASE ClaimCleanup(w) \/ Inspect(w) \/ Reinspect(w)
    BY <2>2 DEF ClaimCleanup, Inspect, Reinspect, At, Sees
  <2> QED
    BY <2>1, <2>2 DEF Clean
<1>2. moved => Silent
  <2>1. pcs \subseteq (AllPCs \ Waiting) \cup {"idle"}
    BY DEF AllPCs, CleanPCs, Waiting
  <2> HIDE DEF pcs
  <2> QED
    BY <1>1, <2>1, GoToSilent
<1>3. seen => Silent
  <2>1. order.absent \in SUBSET Resources /\ Seen(w) \in SUBSET Resources
    BY RowsTyped DEF OrderRow, Seen, Manifest, Resources
  <2>2. {"lease", "delete", "record"} \subseteq CleanPCs \ Waiting
    BY DEF CleanPCs, Waiting
  <2> QED
    BY <1>1, <2>1, <2>2, SeesSilent
<1> QED
  BY <1>1, <1>2, <1>3, FailSilent

LEMMA RequestSilent ==
  ASSUME IInv, NEW w \in Workers,
         ClaimSetup(w) \/ ClaimGuest(w) \/ CleanRequest(w) \/ BudgetEnds(w)
            \/ SetupStops(w) \/ Dies(w) \/ Expiry(w)
  PROVE  Silent
<1>1. CASE ClaimSetup(w) \/ ClaimGuest(w) \/ CleanRequest(w)
  <2>1. \E pc \in {"route", "install", "retire", "claim"} : Begin(w, pc)
    BY <1>1 DEF ClaimSetup, ClaimGuest, CleanRequest
  <2>2. {"route", "install", "retire", "claim"} \subseteq AllPCs \ Waiting
    BY DEF AllPCs, SetupPCs, PreparePCs, CleanPCs, Waiting
  <2> QED
    BY <2>1, <2>2, BeginSilent
<1>2. CASE SetupStops(w) \/ Dies(w)
  <2>1. worker[w].pc # "idle" /\ \E pc \in {"release", "idle"} : GoTo(w, pc)
    BY <1>2, BusyTyped, Known DEF SetupStops, Dies, AllPCs, SetupPCs, PreparePCs, CleanPCs
  <2>2. {"release", "idle"} \subseteq (AllPCs \ Waiting) \cup {"idle"}
    BY DEF AllPCs, SetupPCs, Waiting
  <2> QED
    BY <2>1, <2>2, GoToSilent
<1>3. CASE BudgetEnds(w)
  <2>1. worker[w] \in Worker
    BY <1>3, BusyTyped, Known DEF BudgetEnds
  <2>2. worker' = [worker EXCEPT ![w] = [worker[w] EXCEPT !.late = TRUE]]
    BY <1>3 DEF BudgetEnds
  <2>3. \A v \in Workers : worker'[v].pc = worker[v].pc
    BY <2>1, <2>2, Known DEF TypeOK, Worker
  <2> QED
    BY <2>3 DEF Silent, Dispatches
<1>4. CASE Expiry(w)
  BY <1>4, StillSilent DEF Expiry, BootLeaseExpires, CleanupLeaseExpires
<1> QED
  BY <1>1, <1>2, <1>3, <1>4

(* The steps that send: each is taken inside its budget, so under a lease. *)
LEMMA PostFenced ==
  ASSUME IInv, NEW w \in Workers, PostFirewall(w) \/ PostPower(w)
  PROVE  \A v \in Workers : Dispatches(v) => Fenced(v)
<1>1. worker[w].pc \in {"postFirewall", "postPower"} /\ worker[w].pc \in SetupPCs
      /\ worker[w].pc # "idle"
  BY DEF PostFirewall, PostPower, Checked, At, SetupPCs
<1>2. CASE GoTo(w, "release")
  <2>1. "release" \in (AllPCs \ Waiting) \cup {"idle"}
    BY DEF AllPCs, SetupPCs, Waiting
  <2> QED
    BY <1>1, <1>2, <2>1, GoToSilent DEF Silent
<1>3. CASE InBudget(w) /\ \E pc \in {"firewallReply", "powerReply"} : GoTo(w, pc)
  <2>1. Others(w)
    BY <1>1, <1>3, Known, GoToEffect DEF AllPCs, SetupPCs
  <2>2. boot.lease = w
    BY <1>1, <1>3, Known DEF HoldsLease, Live, InBudget
  <2>3. Fenced(w)
    BY <2>2, WorkerAssumption DEF IInv, LeasesPin, Fenced
  <2> QED
    BY <2>1, <2>3 DEF Others, Dispatches
<1> QED
  BY <1>2, <1>3 DEF PostFirewall, PostPower, Checked

LEMMA DeleteFenced ==
  ASSUME IInv, NEW w \in Workers, Delete(w)
  PROVE  \A v \in Workers : Dispatches(v) => Fenced(v)
<1>1. worker[w].pc = "delete" /\ worker[w].pc \in Leased /\ worker[w].pc # "idle"
  BY DEF Delete, At, Leased, CleanPCs
<1>2. CASE GoTo(w, "reinspect")
  <2>1. "reinspect" \in (AllPCs \ Waiting) \cup {"idle"}
    BY DEF AllPCs, CleanPCs, Waiting
  <2> QED
    BY <1>1, <1>2, <2>1, GoToSilent DEF Silent
<1>3. CASE Fail(w)
  BY <1>1, <1>3, FailSilent DEF Silent
<1>4. CASE InBudget(w) /\ GoTo(w, "deleteReply")
  <2>1. Others(w)
    BY <1>1, <1>4, Known, GoToEffect DEF AllPCs, CleanPCs
  <2>2. order.lease = w
    BY <1>1, <1>4, Known DEF HoldsLease, Live, InBudget
  <2>3. Fenced(w)
    BY <2>2, WorkerAssumption DEF IInv, LeasesPin, Fenced
  <2> QED
    BY <2>1, <2>3 DEF Others, Dispatches
<1> QED
  BY <1>2, <1>3, <1>4 DEF Delete

LEMMA StepFenced ==
  ASSUME IInv, [Next]_vars
  PROVE  \A v \in Workers : Dispatches(v) => Fenced(v)
<1>1. CASE UNCHANGED worker
  BY <1>1, StillSilent DEF Silent
<1>2. ASSUME NEW w \in Workers,
             ClaimSetup(w) \/ ClaimGuest(w) \/ CleanRequest(w) \/ Setup(w) \/ Prepare(w)
                \/ Clean(w) \/ BudgetEnds(w) \/ SetupStops(w) \/ Dies(w) \/ Expiry(w)
      PROVE  \A v \in Workers : Dispatches(v) => Fenced(v)
  BY <1>2, SetupSilent, PrepareSilent, CleanSilent, RequestSilent, PostFenced, DeleteFenced
     DEF Silent
<1>3. ASSUME \/ Provider \/ OwnerStops \/ GuestEnrols \/ WindowCloses \/ ReserveAgent
             \/ AbandonSetup \/ AbandonCleanup \/ Disconnect
      PROVE  UNCHANGED worker
  BY <1>3 DEF Provider, MakeFirewall, FirewallApplies, PowerOn, ServerGone, FirewallDetaches,
              DeleteLands, OwnerStops, GuestEnrols, WindowCloses, ReserveAgent, AbandonSetup,
              AbandonCleanup, Disconnect
<1>4. CASE UNCHANGED vars
  BY <1>1, <1>4 DEF vars
<1> QED
  BY <1>1, <1>2, <1>3, <1>4 DEF Next

(* Every provider call of setup and cleanup is sent under its own lease on *)
(* a connection that still exists, though the fence right before it looks  *)
(* at nothing but the clock.                                               *)
THEOREM DispatchFenced == Spec => FencedDispatch
<1>1. IInv /\ [Next]_vars =>
        [\A w \in Workers : Dispatches(w) =>
          /\ conn
          /\ \/ order.status = "created_off" /\ boot.lease = w /\ ~boot.abandoned
             \/ order.status = "cleaning" /\ order.lease = w /\ boot.lease = "none"]_vars
  BY StepFenced DEF Fenced
<1> QED
  BY <1>1, Invariance, PTL DEF Spec, FencedDispatch
==============================================================================
