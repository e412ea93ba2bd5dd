----------------------- MODULE AgentOperationsProofs -----------------------
(***************************************************************************)
(* Proofs about AgentOperations for any host, any number of recovery       *)
(* sweeps, restore points and operations: who may write the row, which     *)
(* restore points are offered, and that a delete request stands.           *)
(***************************************************************************)
EXTENDS AgentOperations, TLAPS

-----------------------------------------------------------------------------
(* The inductive invariant.                                                *)

Powering == StartLike \cup {"stop"}
PointKinds == {"snapshot", "restore"}
Active == worker.step # "idle"
Working(s) == sweep[s].step \in {"claimed", "apply"}

(* Operation ids are handed out in order, and 1 is the launch.             *)
IdsInOrder ==
  /\ row.op <= last /\ worker.op <= last /\ poll.op <= last
  /\ \A s \in Sweepers : sweep[s].op <= last
  /\ row.op = 1 <=> row.kind = "provision"
  /\ last = 1 => ~Active /\ \A n \in Snapshots : snaps[n].status = "none"

(* A row without an operation has converged, failed, or is to be deleted;  *)
(* a delete operation serves a delete request; restore points are named by *)
(* the operations that work on them.                                       *)
RowShape ==
  /\ row.op = 0 => row.status # "provisioning" \/ row.desired = "deleted"
  /\ row.kind = "delete" => row.desired = "deleted"
  /\ row.kind \in PointKinds => row.snap \in Snapshots
  /\ row.kind = "snapshot" => "snapshot" \in Actions

(* The launch before it has asked for a VM: nobody else can touch the row. *)
EarlySteps == {"tunnel", "fail_access", "allocate", "check_launch", "phase1"}
EarlyAlone ==
  post.step \in EarlySteps =>
    /\ last = 1 /\ row.op = 1 /\ row.vmid = NoVm /\ ~stale
    /\ poll.step = "idle" /\ \A s \in Sweepers : sweep[s].step = "idle"

(* The owner's request: it holds the lease, which is too young for a sweep *)
(* and not yet in the state a poll converges.                              *)
WorkerLease ==
  Active =>
    /\ worker.op > 1 /\ row.op = worker.op /\ row.kind = worker.kind
    /\ ~stale
    /\ poll.op # worker.op
    /\ \A s \in Sweepers : sweep[s].op # worker.op
    /\ worker.kind \in PointKinds => worker.snap = row.snap
    /\ worker.kind # "delete" => row.status # "provisioning"

WorkerShape ==
  /\ worker.step \in {"prepare", "refused"} => worker.kind \in Powering
  /\ worker.step \in {"script", "settle"} => worker.kind \in Lifecycle
  /\ worker.step \in {"destroy", "finish", "abort"} => worker.kind = "delete"

PollMatch ==
  poll.step # "idle" =>
    /\ poll.op # 0 /\ poll.kind \in StartLike \cup {"provision"}
    /\ poll.op = 1 <=> poll.kind = "provision"
    /\ poll.op = row.op => poll.kind = row.kind

(* A sweep's copy of the row stays true of the operation it names.         *)
SweepMatch(s) ==
  sweep[s].step # "idle" =>
    /\ sweep[s].op # 0
    /\ sweep[s].op = 1 <=> sweep[s].kind = "provision"
    /\ sweep[s].kind \in PointKinds => sweep[s].snap \in Snapshots
    /\ sweep[s].op = row.op =>
         /\ sweep[s].kind = row.kind
         /\ sweep[s].kind \in PointKinds => sweep[s].snap = row.snap
         /\ Superseded(s) => row.desired = "deleted"

SnapshotPlans == {<<"snapshot">>, <<"snapshot_failed">>, <<"release">>}
RestorePlans == {<<"restore">>, <<"restore_failed">>, <<"release">>}
OtherPlans == {<<"delete">>, <<"release">>, <<"error">>, <<"running">>, <<"observed">>,
               <<"continue", "running">>, <<"continue", "observed">>, <<"compensate">>,
               <<"checkpoint">>}
PlansFor(kind) == IF kind = "snapshot" THEN SnapshotPlans
                  ELSE IF kind = "restore" THEN RestorePlans ELSE OtherPlans

(* What a sweep is going to call fits the kind of operation it took over.  *)
PlanShape(s) ==
  sweep[s].step = "apply" =>
    /\ sweep[s].plan \in PlansFor(sweep[s].kind)
    /\ sweep[s].plan = <<"release">> => Superseded(s)

(* The sweep at work is alone: no other copy of the row is exact.          *)
Reconciling == (\E s \in Sweepers : Working(s)) => ~stale /\ exact = {}

(* A restore point in progress belongs to the operation on the row, or to  *)
(* one that a delete has cut short for good.                               *)
PointsOwned ==
  \A n \in Snapshots :
    snaps[n].status \in {"creating", "restoring"} =>
      \/ /\ row.op = snaps[n].op /\ row.snap = n
         /\ row.kind = (IF snaps[n].status = "creating" THEN "snapshot" ELSE "restore")
      \/ row.desired = "deleted" /\ row.kind \in {"none", "delete"}

(* What is about to be offered is stored, as long as there is a VM.        *)
PointsStored ==
  /\ worker.step = "settle" /\ worker.kind = "snapshot" /\ vm.slot # NoVm
       => stored[worker.snap] # Absent
  /\ \A s \in Sweepers :
       sweep[s].step = "apply" /\ sweep[s].plan = <<"snapshot">> /\ vm.slot # NoVm
         => stored[sweep[s].snap] # Absent

SweepsGood == \A s \in Sweepers : SweepMatch(s) /\ PlanShape(s)

IInv ==
  /\ StateType
  /\ IdsInOrder
  /\ RowShape
  /\ EarlyAlone
  /\ WorkerLease /\ WorkerShape
  /\ PollMatch
  /\ SweepsGood
  /\ Reconciling
  /\ OneReconciler
  /\ PointsOwned
  /\ PointsStored
  /\ ReadySnapshotStored

-----------------------------------------------------------------------------
(* The rows, and what every write of a stored function leaves.             *)

Rows == [status : Statuses, desired : Desires, op : Ops, kind : Kinds,
         snap : Points, vmid : Vmids, stage : {"access", "none"}, size : Ops]
PointRows == [status : {"none", "creating", "ready", "failed", "restoring", "deleted"},
              op : Ops, size : Ops]

(* An operation goes on under its id, kind and delete request, or ends.    *)
RowEvolves ==
  \/ /\ row'.op = row.op /\ row'.kind = row.kind /\ row'.snap = row.snap
     /\ row.desired = "deleted" => row'.desired = "deleted"
  \/ row'.op = 0
  \/ row'.op > last

DbGood ==
  /\ row' \in Rows /\ snaps' \in [Snapshots -> PointRows] /\ restored' \subseteq Ops
  /\ row'.op = 0 <=> row'.kind = "none"
  /\ row'.op = 0 \/ row'.op = row.op
  /\ RowEvolves
  /\ RowShape' /\ PointsOwned'
  /\ \A n \in Snapshots : snaps[n].status = "none" => snaps'[n] = snaps[n]
  /\ \A n \in Snapshots :
       snaps'[n].status \in {"ready", "restoring"} =>
         \/ snaps[n].status \in {"ready", "restoring"}
         \/ stored[n] # Absent \/ vm.slot = NoVm

LEMMA RowTyped ==
  ASSUME IInv
  PROVE  /\ row \in Rows /\ snaps \in [Snapshots -> PointRows] /\ restored \subseteq Ops
         /\ row.op = 0 <=> row.kind = "none"
         /\ last \in Ops /\ last >= 1 /\ row.op \in Nat /\ 0 \in Ops
BY OpsAssumption DEF IInv, StateType, RowType, SnapsType, Rows, PointRows, Ops

LEMMA ClearedEffect ==
  ASSUME NEW r \in Rows
  PROVE  /\ Cleared(r) \in Rows
         /\ Cleared(r).op = 0 /\ Cleared(r).kind = "none"
         /\ Cleared(r).status = r.status /\ Cleared(r).desired = r.desired
         /\ Cleared(r).vmid = r.vmid
<1>1. 0 \in Ops /\ "none" \in Kinds /\ NoSnap \in Points
  BY OpsAssumption DEF Ops, Kinds, Points
<1> QED
  BY <1>1 DEF Cleared, Rows

LEMMA KeepDb ==
  ASSUME IInv, KeepRow
  PROVE  DbGood /\ row' = row
<1>1. row' = row /\ snaps' = snaps /\ restored' = restored
  BY DEF KeepRow, dbVars
<1> QED
  BY <1>1, RowTyped DEF DbGood, RowEvolves, IInv, RowShape, PointsOwned

(* A write that ends the operation and touches no restore point.           *)
LEMMA EndsDb ==
  ASSUME IInv, row.op # 0, NEW r \in Rows, row' = Cleared(r), UNCHANGED <<snaps, restored>>,
         r.status # "provisioning" \/ r.desired = "deleted",
         row.desired = "deleted" => r.desired = "deleted",
         row.kind \in PointKinds => row.desired = "deleted"
  PROVE  DbGood
<1>1. row' \in Rows /\ row'.op = 0 /\ row'.kind = "none" /\ row'.status = r.status
      /\ row'.desired = r.desired
  BY ClearedEffect
<1>2. RowShape'
  BY <1>1 DEF RowShape, PointKinds
<1>3. PointsOwned'
  BY <1>1 DEF PointsOwned, IInv, PointKinds
<1> QED
  BY <1>1, <1>2, <1>3, RowTyped DEF DbGood, RowEvolves

LEMMA ReleaseDb ==
  ASSUME IInv, NEW o, o # 0, NEW markError \in BOOLEAN, NEW ok, Release(o, markError, ok),
         row.op = o => /\ markError \/ row.status # "provisioning" \/ row.desired = "deleted"
                       /\ row.kind \in PointKinds => row.desired = "deleted"
  PROVE  DbGood /\ (row' = row \/ row.op = o)
<1> DEFINE r == [row EXCEPT !.status = IF markError /\ row.desired # "deleted"
                                         THEN "error" ELSE row.status]
<1>1. CASE row.op = o
  <2>1. row' = Cleared(r) /\ UNCHANGED <<snaps, restored>>
    BY <1>1 DEF Release
  <2>2. /\ r \in Rows /\ r.desired = row.desired
        /\ r.status = (IF markError /\ row.desired # "deleted" THEN "error" ELSE row.status)
    BY RowTyped DEF Rows, Statuses
  <2> HIDE DEF r
  <2> QED
    BY <1>1, <2>1, <2>2, EndsDb
<1>2. CASE row.op # o
  BY <1>2, KeepDb DEF Release, KeepRow, dbVars
<1> QED
  BY <1>1, <1>2

LEMMA CompleteDb ==
  ASSUME IInv, NEW o, o # 0, NEW expected \in Power, NEW observed \in Power, NEW ok,
         CompleteOperation(o, expected, observed, ok), UNCHANGED <<snaps, restored>>,
         row.op = o => row.kind \notin PointKinds
  PROVE  DbGood /\ (row' = row \/ row.op = o)
<1> DEFINE r == [row EXCEPT !.status = observed, !.desired = observed]
<1>1. CASE row.op = o /\ row.desired = expected /\ row.status # "deleted"
  <2>1. row' = Cleared(r)
    BY <1>1 DEF CompleteOperation
  <2>2. r \in Rows /\ r.desired = observed /\ r.status = observed
    BY RowTyped DEF Rows, Statuses, Desires
  <2>3. observed # "provisioning" /\ row.desired # "deleted"
    BY <1>1 DEF Power
  <2> HIDE DEF r
  <2> QED
    BY <1>1, <2>1, <2>2, <2>3, EndsDb
<1>2. CASE ~(row.op = o /\ row.desired = expected /\ row.status # "deleted")
  BY <1>2, KeepDb DEF CompleteOperation, KeepRow, dbVars
<1> QED
  BY <1>1, <1>2

LEMMA RunningDb ==
  ASSUME IInv, NEW o, o # 0, NEW kind, kind \notin PointKinds, NEW ok, CompleteRunning(o, kind, ok)
  PROVE  DbGood /\ (row' = row \/ row.op = o)
<1> DEFINE r == [row EXCEPT !.status = "running"]
           won == row.op = o /\ row.kind = kind /\ row.desired = "running"
                  /\ row.status = "provisioning"
<1>1. CASE won
  <2>1. row' = Cleared(r) /\ UNCHANGED <<snaps, restored>>
    BY <1>1 DEF CompleteRunning
  <2>2. r \in Rows /\ r.desired = row.desired /\ r.status = "running"
    BY RowTyped DEF Rows, Statuses, Power
  <2>3. row.kind \notin PointKinds
    BY <1>1
  <2> HIDE DEF r
  <2> QED
    BY <1>1, <2>1, <2>2, <2>3, EndsDb
<1>2. CASE ~won
  BY <1>2, KeepDb DEF CompleteRunning, KeepRow, dbVars
<1> QED
  BY <1>1, <1>2

(* A write that leaves the operation where it is.                          *)
LEMMA GoesOnDb ==
  ASSUME IInv, row' \in Rows, UNCHANGED <<snaps, restored>>,
         row'.op = row.op, row'.kind = row.kind, row'.snap = row.snap,
         row'.desired = row.desired, row.op # 0
  PROVE  DbGood
<1>1. RowShape' /\ PointsOwned'
  BY DEF IInv, RowShape, PointsOwned
<1> QED
  BY <1>1, RowTyped DEF DbGood, RowEvolves

LEMMA ContinueDb ==
  ASSUME IInv, NEW o \in Ops, NEW ok, Continue(o, ok)
  PROVE  DbGood /\ (row' = row \/ row.op = o)
<1> DEFINE r == [row EXCEPT !.status = "provisioning",
                            !.size = IF row.kind = "resize" THEN o ELSE row.size]
           won == row.op = o /\ row.kind \in StartLike /\ row.desired = "running"
                  /\ row.status # "deleted"
<1>1. CASE won
  <2>1. row' = r /\ UNCHANGED <<snaps, restored>>
    BY <1>1 DEF Continue
  <2>2. /\ r \in Rows /\ r.desired = row.desired /\ r.op = row.op /\ r.kind = row.kind
        /\ r.snap = row.snap
    BY RowTyped DEF Rows, Statuses
  <2>3. row.op # 0
    BY <1>1, RowTyped DEF StartLike
  <2> HIDE DEF r
  <2> QED
    BY <1>1, <2>1, <2>2, <2>3, GoesOnDb
<1>2. CASE ~won
  <2>1. row' = row /\ UNCHANGED <<snaps, restored>>
    BY <1>2 DEF Continue
  <2>2. KeepRow
    BY <2>1 DEF KeepRow, dbVars
  <2> QED
    BY <2>2, KeepDb
<1> QED
  BY <1>1, <1>2

LEMMA PersistDb ==
  ASSUME IInv, NEW o, o # 0, NEW v \in Vmids, NEW ok, Persist(o, v, ok)
  PROVE  DbGood /\ (row' = row \/ row.op = o)
<1> DEFINE r == [row EXCEPT !.vmid = v]
           won == row.op = o /\ row.kind = "provision" /\ row.status = "provisioning"
<1>1. CASE won
  <2>1. row' = r /\ UNCHANGED <<snaps, restored>>
    BY <1>1 DEF Persist
  <2>2. /\ r \in Rows /\ r.desired = row.desired /\ r.op = row.op /\ r.kind = row.kind
        /\ r.snap = row.snap
    BY RowTyped DEF Rows
  <2> HIDE DEF r
  <2> QED
    BY <1>1, <2>1, <2>2, GoesOnDb
<1>2. CASE ~won
  BY <1>2, KeepDb DEF Persist, KeepRow, dbVars
<1> QED
  BY <1>1, <1>2

LEMMA DeleteDb ==
  ASSUME IInv, NEW o, o # 0, NEW ok, CompleteDelete(o, ok)
  PROVE  DbGood /\ (row' = row \/ row.op = o)
<1> DEFINE r == [row EXCEPT !.status = "deleted", !.vmid = NoVm]
<1>1. CASE ~ok /\ KeepRow
  BY <1>1, KeepDb
<1>2. CASE ok /\ DeletableBy(o) /\ row' = Cleared(r) /\ UNCHANGED restored
           /\ snaps' = [n \in Snapshots |->
                    IF snaps[n].status = "none" THEN snaps[n]
                    ELSE [snaps[n] EXCEPT !.status = "deleted", !.op = 0]]
  <2>1. r \in Rows /\ r.desired = row.desired /\ r.status = "deleted"
    BY RowTyped DEF Rows, Statuses, Vmids
  <2> HIDE DEF r
  <2>2. row' \in Rows /\ row'.op = 0 /\ row'.kind = "none" /\ row'.status = "deleted"
        /\ row'.desired = row.desired
    BY <1>2, <2>1, ClearedEffect
  <2>3. ASSUME NEW n \in Snapshots
        PROVE  /\ snaps'[n] \in PointRows /\ snaps'[n].status \in {"none", "deleted"}
               /\ snaps[n].status = "none" => snaps'[n] = snaps[n]
    BY <1>2, RowTyped DEF PointRows
  <2>4. snaps' \in [Snapshots -> PointRows]
    BY <1>2, <2>3
  <2>5. RowShape' /\ PointsOwned'
    BY <2>2, <2>3 DEF RowShape, PointsOwned, PointKinds
  <2>6. row.op = o
    BY <1>2 DEF DeletableBy
  <2> QED
    BY <1>2, <2>2, <2>3, <2>4, <2>5, <2>6, RowTyped DEF DbGood, RowEvolves
<1> QED
  BY <1>1, <1>2 DEF CompleteDelete

(* A write that settles the restore point the operation works on: no other *)
(* is in progress.                                                         *)
LEMMA SettleDb ==
  ASSUME IInv, row.op # 0, NEW n \in Snapshots, snaps[n].op = row.op,
         \/ snaps[n].status = "creating" /\ row.kind = "snapshot"
         \/ snaps[n].status = "restoring" /\ row.kind = "restore",
         NEW r \in Rows, row' = Cleared(r), r.status # "provisioning",
         NEW st \in {"ready", "failed"}, SettleSnapshot(n, st), restored' \subseteq Ops,
         st = "ready" => snaps[n].status = "restoring" \/ stored[n] # Absent \/ vm.slot = NoVm
  PROVE  DbGood
<1> DEFINE new == [snaps[n] EXCEPT !.status = st, !.op = 0]
<1>1. row' \in Rows /\ row'.op = 0 /\ row'.kind = "none" /\ row'.status # "provisioning"
  BY ClearedEffect
<1>2. new \in PointRows /\ new.status = st
  BY RowTyped DEF PointRows
<1>3. snaps' = [snaps EXCEPT ![n] = new]
  BY DEF SettleSnapshot
<1> HIDE DEF new
<1>4. /\ snaps' \in [Snapshots -> PointRows] /\ snaps'[n] = new
      /\ \A m \in Snapshots : m # n => snaps'[m] = snaps[m]
  BY <1>2, <1>3, RowTyped
<1>5. row.snap = n /\ row.kind \notin {"none", "delete"}
  BY DEF IInv, PointsOwned
<1>6. \A m \in Snapshots : m # n => snaps[m].status \notin {"creating", "restoring"}
  BY <1>5 DEF IInv, PointsOwned
<1>7. PointsOwned' /\ RowShape'
  BY <1>1, <1>2, <1>4, <1>6 DEF PointsOwned, RowShape, PointKinds
<1>8. \A m \in Snapshots : snaps[m].status = "none" => snaps'[m] = snaps[m]
  BY <1>4
<1>9. \A m \in Snapshots :
        snaps'[m].status \in {"ready", "restoring"} =>
          \/ snaps[m].status \in {"ready", "restoring"}
          \/ stored[m] # Absent \/ vm.slot = NoVm
  BY <1>2, <1>4
<1> QED
  BY <1>1, <1>4, <1>7, <1>8, <1>9 DEF DbGood, RowEvolves

LEMMA SnapshotDb ==
  ASSUME IInv, NEW o, o # 0, NEW n \in Snapshots, NEW observed \in Power, NEW ok,
         CompleteSnapshot(o, n, observed, ok),
         row.op = o => row.kind = "snapshot" /\ (stored[n] # Absent \/ vm.slot = NoVm)
  PROVE  DbGood /\ (row' = row \/ row.op = o)
<1> DEFINE r == [row EXCEPT !.status = observed, !.desired = observed]
           won == row.op = o /\ row.desired = observed /\ row.status # "deleted"
<1>1. CASE won
  <2>1. /\ row' = Cleared(r) /\ SnapshotOwned(n, o, "creating") /\ SettleSnapshot(n, "ready")
        /\ restored' = restored
    BY <1>1 DEF CompleteSnapshot, CompleteOperation
  <2>2. r \in Rows /\ r.status = observed /\ observed # "provisioning"
    BY RowTyped DEF Rows, Statuses, Desires, Power
  <2> HIDE DEF r
  <2>3. /\ snaps[n].status = "creating" /\ snaps[n].op = row.op /\ restored' \subseteq Ops
        /\ row.kind = "snapshot" /\ row.op # 0
    BY <1>1, <2>1, RowTyped DEF SnapshotOwned
  <2> QED
    BY <1>1, <2>1, <2>2, <2>3, SettleDb
<1>2. CASE ~won
  <2>1. row' = row /\ UNCHANGED <<snaps, restored>>
    BY <1>2 DEF CompleteSnapshot, CompleteOperation
  <2> QED
    BY <2>1, KeepDb DEF KeepRow, dbVars
<1> QED
  BY <1>1, <1>2

LEMMA FailSnapshotDb ==
  ASSUME IInv, NEW o, o # 0, NEW n \in Snapshots, NEW observed \in Power, NEW ok \in BOOLEAN,
         FailSnapshot(o, n, observed, ok)
  PROVE  DbGood /\ (row' = row \/ row.op = o)
<1> DEFINE r == [row EXCEPT !.status = observed, !.desired = observed]
<1>1. CASE ok
  <2>1. /\ row' = Cleared(r) /\ SnapshotOwned(n, o, "creating") /\ SettleSnapshot(n, "failed")
        /\ restored' = restored /\ row.op = o /\ row.kind = "snapshot"
    BY <1>1 DEF FailSnapshot, CompleteOperation
  <2>2. r \in Rows /\ r.status = observed /\ observed # "provisioning"
    BY RowTyped DEF Rows, Statuses, Desires, Power
  <2> HIDE DEF r
  <2>3. snaps[n].status = "creating" /\ snaps[n].op = row.op /\ restored' \subseteq Ops
    BY <2>1, RowTyped DEF SnapshotOwned
  <2> QED
    BY <2>1, <2>2, <2>3, SettleDb
<1>2. CASE ~ok
  <2>1. row' = row /\ UNCHANGED <<snaps, restored>>
    BY <1>2 DEF FailSnapshot, CompleteOperation
  <2> QED
    BY <2>1, KeepDb DEF KeepRow, dbVars
<1> QED
  BY <1>1, <1>2

LEMMA RestoreDb ==
  ASSUME IInv, NEW o \in Ops, o # 0, NEW n \in Snapshots, NEW ok, CompleteRestore(o, n, ok),
         row.op = o => row.kind = "restore"
  PROVE  DbGood /\ (row' = row \/ row.op = o)
<1> DEFINE r == [row EXCEPT !.status = "stopped", !.desired = "stopped", !.size = snaps[n].size]
           won == SnapshotOwned(n, o, "restoring") /\ row.op = o /\ row.desired = "stopped"
<1>1. CASE won
  <2>1. row' = Cleared(r) /\ SettleSnapshot(n, "ready") /\ restored' = restored \cup {o}
    BY <1>1 DEF CompleteRestore
  <2>2. r \in Rows /\ r.status = "stopped"
    BY RowTyped DEF Rows, Statuses, Desires, Power, PointRows
  <2> HIDE DEF r
  <2>3. /\ snaps[n].status = "restoring" /\ snaps[n].op = row.op /\ restored' \subseteq Ops
        /\ row.kind = "restore" /\ row.op # 0
    BY <1>1, <2>1, RowTyped DEF SnapshotOwned
  <2> QED
    BY <1>1, <2>1, <2>2, <2>3, SettleDb
<1>2. CASE ~won
  <2>1. row' = row /\ UNCHANGED <<snaps, restored>>
    BY <1>2 DEF CompleteRestore
  <2> QED
    BY <2>1, KeepDb DEF KeepRow, dbVars
<1> QED
  BY <1>1, <1>2

LEMMA FailRestoreDb ==
  ASSUME IInv, NEW o, o # 0, NEW n \in Snapshots, NEW observed \in Power, NEW ok \in BOOLEAN,
         FailRestore(o, n, observed, ok), row.op = o => row.kind = "restore"
  PROVE  DbGood /\ (row' = row \/ row.op = o)
<1> DEFINE r == [row EXCEPT !.status = observed, !.desired = observed]
<1>1. CASE ok
  <2>1. /\ row' = Cleared(r) /\ SnapshotOwned(n, o, "restoring") /\ SettleSnapshot(n, "ready")
        /\ restored' = restored /\ row.op = o
    BY <1>1 DEF FailRestore, CompleteOperation
  <2>2. r \in Rows /\ r.status = observed /\ observed # "provisioning"
    BY RowTyped DEF Rows, Statuses, Desires, Power
  <2> HIDE DEF r
  <2>3. /\ snaps[n].status = "restoring" /\ snaps[n].op = row.op /\ restored' \subseteq Ops
        /\ row.kind = "restore"
    BY <2>1, RowTyped DEF SnapshotOwned
  <2> QED
    BY <2>1, <2>2, <2>3, SettleDb
<1>2. CASE ~ok
  <2>1. row' = row /\ UNCHANGED <<snaps, restored>>
    BY <1>2 DEF FailRestore, CompleteOperation
  <2> QED
    BY <2>1, KeepDb DEF KeepRow, dbVars
<1> QED
  BY <1>1, <1>2

-----------------------------------------------------------------------------
(* Steps of one process.                                                   *)

(* The VM and its snapshots stay, or go together; at first there are none. *)
HostEvolves ==
  /\ VmType' /\ HostType'
  /\ \/ vm'.slot = NoVm \/ last = 1
     \/ /\ vm'.slot = vm.slot
        /\ \A n \in Snapshots : stored[n] # Absent => stored'[n] # Absent

LEMMA KeepHostEvolves ==
  ASSUME IInv, KeepHost
  PROVE  HostEvolves
BY DEF IInv, StateType, VmType, HostType, KeepHost, hostVars, HostEvolves

LEMMA PollKept ==
  ASSUME IInv, UNCHANGED poll, RowEvolves
  PROVE  PollMatch'
<1>1. poll.op <= last /\ poll.op \in Nat /\ last \in Nat
  BY DEF IInv, IdsInOrder, StateType, PollType, Ops
<1> QED
  BY <1>1 DEF IInv, PollMatch, RowEvolves

LEMMA SweepKept ==
  ASSUME IInv, RowEvolves, NEW s \in Sweepers, sweep'[s] = sweep[s]
  PROVE  SweepMatch(s)' /\ PlanShape(s)'
<1>1. /\ sweep[s].op <= last /\ sweep[s].op \in Nat /\ last \in Nat
      /\ SweepMatch(s) /\ PlanShape(s)
  BY DEF IInv, SweepsGood, IdsInOrder, StateType, SweepType, Ops
<1>2. SweepMatch(s)'
  BY <1>1 DEF SweepMatch, RowEvolves, Superseded
<1>3. PlanShape(s)'
  BY <1>1 DEF PlanShape, Superseded
<1> QED
  BY <1>2, <1>3

LEMMA Move ==
  ASSUME IInv, DbGood, HostEvolves, last' = last, stale' \in BOOLEAN, exact' \subseteq Sweepers,
         PostType', WorkerType', PollType', SweepType',
         EarlyAlone', WorkerLease', WorkerShape', PollMatch', SweepsGood', Reconciling',
         OneReconciler', PointsStored',
         worker'.op <= last, poll'.op <= last, \A s \in Sweepers : sweep'[s].op <= last,
         Active' => Active
  PROVE  IInv'
<1>1. /\ row' \in Rows /\ snaps' \in [Snapshots -> PointRows] /\ restored' \subseteq Ops
      /\ (row'.op = 0 <=> row'.kind = "none") /\ (row'.op = 0 \/ row'.op = row.op)
      /\ RowShape' /\ PointsOwned'
  BY DEF DbGood
<1>2. StateType'
  BY <1>1 DEF StateType, RowType, SnapsType, Rows, PointRows, IInv, HostEvolves
<1>3. IdsInOrder'
  <2>1. row'.op <= last'
    BY <1>1, RowTyped DEF IInv, IdsInOrder, Ops
  <2>2. row'.op = 1 <=> row'.kind = "provision"
    <3>1. row.op = 1 <=> row.kind = "provision"
      BY DEF IInv, IdsInOrder
    <3>2. ~(row'.op > last)
      BY <2>1, <1>1, RowTyped DEF Rows, Ops
    <3>3. RowEvolves
      BY DEF DbGood
    <3>4. row'.op = 0 \/ (row'.kind = row.kind /\ row'.op = row.op)
      BY <3>2, <3>3 DEF RowEvolves
    <3> QED
      BY <1>1, <3>1, <3>4
  <2>3. last' = 1 => ~Active' /\ \A n \in Snapshots : snaps'[n].status = "none"
    BY DEF DbGood, IInv, IdsInOrder
  <2> QED
    BY <2>1, <2>2, <2>3 DEF IdsInOrder
<1>4. ReadySnapshotStored'
  BY DEF DbGood, HostEvolves, IInv, IdsInOrder, ReadySnapshotStored
<1> QED
  BY <1>1, <1>2, <1>3, <1>4 DEF IInv

(* Between two of its steps a process other than w keeps the lease of the  *)
(* owner's request out of reach.                                           *)
LEMMA WorkerLeaseKept ==
  ASSUME IInv, UNCHANGED <<worker, poll, sweep>>, stale' = stale \/ ~stale',
         Active => row' = row
  PROVE  WorkerLease' /\ WorkerShape'
BY DEF IInv, WorkerLease, WorkerShape, Active

(* A sweep that is to record a restore point took over its creation.       *)
LEMMA SnapshotPlanned ==
  ASSUME IInv, NEW s \in Sweepers, sweep[s].step = "apply", sweep[s].plan = <<"snapshot">>
  PROVE  sweep[s].kind = "snapshot" /\ sweep[s].snap \in Snapshots /\ last # 1
<1>1. SweepMatch(s) /\ PlanShape(s) /\ sweep[s].op <= last /\ sweep[s].op \in Nat
  BY DEF IInv, SweepsGood, IdsInOrder, StateType, SweepType, Ops
<1>2. <<"snapshot">> \notin RestorePlans /\ <<"snapshot">> \notin OtherPlans
  BY DEF RestorePlans, OtherPlans
<1>3. sweep[s].kind = "snapshot"
  BY <1>1, <1>2 DEF PlanShape, PlansFor
<1> QED
  BY <1>1, <1>3 DEF SweepMatch, PointKinds

LEMMA PointsStoredKept ==
  ASSUME IInv, HostEvolves, UNCHANGED <<worker, sweep>>
  PROVE  PointsStored'
<1>1. worker.step = "settle" /\ worker.kind = "snapshot" => worker.snap \in Snapshots
  BY DEF IInv, WorkerLease, RowShape, PointKinds, Active
<1>2. last = 1 => worker.step # "settle"
  BY DEF IInv, IdsInOrder, Active
<1> QED
  BY <1>1, <1>2, SnapshotPlanned DEF HostEvolves, IInv, PointsStored

LEMMA ClockKept ==
  ASSUME IInv, UNCHANGED <<stale, exact, sweep>>
  PROVE  Reconciling' /\ OneReconciler'
BY DEF IInv, Reconciling, OneReconciler, Working

(* A step of the launch request.                                           *)
LEMMA PostMove ==
  ASSUME IInv, DbGood, HostEvolves, PostAlone, PostType',
         row' = row \/ row.op = 1,
         post'.step \in EarlySteps => /\ post.step \in EarlySteps
                                      /\ row'.op = row.op /\ row'.vmid = row.vmid
  PROVE  IInv'
<1>1. UNCHANGED <<last, stale, exact, worker, poll, sweep>>
  BY DEF PostAlone, clockVars
<1>2. Active => row' = row
  BY DEF IInv, WorkerLease
<1>3. /\ worker.op <= last /\ poll.op <= last /\ \A s \in Sweepers : sweep[s].op <= last
      /\ stale \in BOOLEAN /\ exact \subseteq Sweepers /\ WorkerType /\ PollType /\ SweepType
  BY DEF IInv, IdsInOrder, StateType
<1>4. WorkerType' /\ PollType' /\ SweepType'
  BY <1>1, <1>3 DEF WorkerType, PollType, SweepType
<1>5. EarlyAlone'
  BY <1>1 DEF IInv, EarlyAlone
<1>6. WorkerLease' /\ WorkerShape' /\ Reconciling' /\ OneReconciler'
  BY <1>1, <1>2, WorkerLeaseKept, ClockKept
<1>7. PollMatch' /\ SweepsGood' /\ PointsStored'
  BY <1>1, PollKept, SweepKept, PointsStoredKept DEF DbGood, SweepsGood
<1>8. Active' => Active
  BY <1>1 DEF Active
<1> QED
  BY <1>1, <1>3, <1>4, <1>5, <1>6, <1>7, <1>8, Move

(* Where post goes next, typed and past the early steps.                   *)
LEMMA PostGoes ==
  ASSUME IInv, NEW step \in PostSteps, PostTo(step)
  PROVE  PostType' /\ post'.step = step
<1>1. post \in [step : PostSteps, vmid : Vmids]
  BY DEF IInv, StateType, PostType
<1> QED
  BY <1>1 DEF PostTo, PostType

LEMMA PostTunnelStep ==
  ASSUME IInv, PostTunnel
  PROVE  IInv'
<1>1. PICK next \in {"allocate", "fail_access", "done"} : PostTo(next)
  BY DEF PostTunnel
<1>2. KeepRow /\ KeepHost /\ PostAlone /\ post.step = "tunnel"
  BY DEF PostTunnel, PostAt, PostQuiet
<1>3. next \in PostSteps /\ post.step \in EarlySteps
  BY <1>2 DEF PostSteps, EarlySteps
<1>4. PostType'
  BY <1>1, <1>3, PostGoes
<1> QED
  BY <1>2, <1>3, <1>4, KeepDb, KeepHostEvolves, PostMove

LEMMA PostFailBeforeAllocationStep ==
  ASSUME IInv, PostFailBeforeAllocation
  PROVE  IInv'
<1> DEFINE r == [row EXCEPT !.status = "error"]
           next == IF PreAllocation THEN "done" ELSE "finish_delete"
<1>1. /\ row' = (IF PreAllocation THEN Cleared(r) ELSE row) /\ UNCHANGED <<snaps, restored>>
      /\ PostTo(next) /\ KeepHost /\ PostAlone
  BY DEF PostFailBeforeAllocation, PostQuiet
<1>2. next \in PostSteps \ EarlySteps
  BY DEF PostSteps, EarlySteps
<1> HIDE DEF next
<1>3. PostType' /\ post'.step \notin EarlySteps
  BY <1>1, <1>2, PostGoes
<1>4. DbGood /\ (row' = row \/ row.op = 1)
  <2>1. CASE PreAllocation
    <3>1. row.op = 1 /\ row.kind = "provision" /\ row.desired = "running" /\ row.kind \notin PointKinds
      BY <2>1 DEF PreAllocation, PointKinds
    <3>2. r \in Rows /\ r.status = "error" /\ r.desired = row.desired
      BY RowTyped DEF Rows, Statuses
    <3> HIDE DEF r
    <3> QED
      BY <1>1, <2>1, <3>1, <3>2, EndsDb
  <2>2. CASE ~PreAllocation
    BY <1>1, <2>2, KeepDb DEF KeepRow, dbVars
  <2> QED
    BY <2>1, <2>2
<1> QED
  BY <1>1, <1>3, <1>4, KeepHostEvolves, PostMove

LEMMA PostBeginAllocationStep ==
  ASSUME IInv, PostBeginAllocation
  PROVE  IInv'
<1> DEFINE r == [row EXCEPT !.stage = "none"]
           next == IF PreAllocation THEN "check_launch" ELSE "finish"
<1>1. /\ row' = (IF PreAllocation THEN r ELSE row) /\ UNCHANGED <<snaps, restored>>
      /\ PostTo(next) /\ KeepHost /\ PostAlone /\ post.step \in EarlySteps
  BY DEF PostBeginAllocation, PostAt, EarlySteps, PostQuiet
<1>2. next \in PostSteps
  BY DEF PostSteps
<1> HIDE DEF next
<1>3. PostType'
  BY <1>1, <1>2, PostGoes
<1>4. /\ r \in Rows /\ r.op = row.op /\ r.kind = row.kind /\ r.snap = row.snap
      /\ r.desired = row.desired /\ r.vmid = row.vmid
  BY RowTyped DEF Rows
<1> HIDE DEF r
<1>5. DbGood /\ (row' = row \/ row.op = 1)
  <2>1. CASE PreAllocation
    <3>1. row.op = 1
      BY <2>1 DEF PreAllocation
    <3> QED
      BY <1>1, <1>4, <2>1, <3>1, GoesOnDb
  <2>2. CASE ~PreAllocation
    BY <1>1, <2>2, KeepDb DEF KeepRow, dbVars
  <2> QED
    BY <2>1, <2>2
<1>6. row'.op = row.op /\ row'.vmid = row.vmid
  BY <1>1, <1>4
<1> QED
  BY <1>1, <1>3, <1>5, <1>6, KeepHostEvolves, PostMove

LEMMA PostCheckpointStep ==
  ASSUME IInv, PostCheckpoint
  PROVE  IInv'
<1>1. PICK at \in {<<"check_launch", "phase1">>, <<"check_limit", "verify">>,
                   <<"check_final", "done">>} :
         PostAt(at[1]) /\ PostTo(IF Checkpoint(1) THEN at[2] ELSE "finish")
  BY DEF PostCheckpoint
<1>2. KeepRow /\ KeepHost /\ PostAlone
  BY DEF PostCheckpoint, PostQuiet
<1>3. PICK next \in {"phase1", "verify", "done", "finish"} :
         PostTo(next) /\ (next = "phase1" => post.step = "check_launch")
  BY <1>1 DEF PostAt
<1>4. next \in PostSteps /\ (next \in EarlySteps => post.step \in EarlySteps)
  BY <1>3 DEF PostSteps, EarlySteps
<1>5. PostType' /\ post'.step = next
  BY <1>3, <1>4, PostGoes
<1> QED
  BY <1>2, <1>4, <1>5, KeepDb, KeepHostEvolves, PostMove

LEMMA DestroyEvolves ==
  ASSUME IInv, NEW v, Destroy(v), intent' \in Vmids, installed' \in Markers, log' \in [op : Ops, result : Markers]
  PROVE  HostEvolves
<1>1. Gone \in [slot : Vmids, power : Power, config : Ops] /\ Gone.slot = NoVm
  BY RowTyped DEF Gone, Vmids, Power
<1>2. CASE Ours(v)
  <2>1. vm' = Gone /\ stored' = [n \in Snapshots |-> Absent] /\ UNCHANGED <<foreign, applied>>
    BY <1>2 DEF Destroy
  <2> QED
    BY <1>1, <2>1 DEF IInv, StateType, VmType, HostType, HostEvolves
<1>3. CASE ~Ours(v)
  <2>1. vm' = vm /\ stored' = stored /\ UNCHANGED <<foreign, applied>>
    BY <1>3 DEF Destroy
  <2> QED
    BY <2>1 DEF IInv, StateType, VmType, HostType, HostEvolves
<1> QED
  BY <1>2, <1>3

LEMMA RollbackEvolves ==
  ASSUME IInv, NEW v, Rollback(v)
  PROVE  HostEvolves
BY DestroyEvolves DEF Rollback, IInv, StateType, HostType

LEMMA DestroyWithLogsEvolves ==
  ASSUME IInv, NEW v, DestroyWithLogs(v) \/ DestroyAllocation(v)
  PROVE  HostEvolves
<1>1. NoLog \in [op : Ops, result : Markers] /\ "none" \in Markers /\ NoVm \in Vmids
  BY RowTyped DEF NoLog, Markers, Vmids
<1>2. intent \in Vmids
  BY DEF IInv, StateType, HostType
<1> QED
  BY <1>1, <1>2, DestroyEvolves DEF DestroyWithLogs, DestroyAllocation, DropLogs

(* The allocator's step: if there is a VM now, no restore point exists yet. *)
LEMMA PostPhase1Step ==
  ASSUME IInv, PostPhase1
  PROVE  IInv'
<1>1. /\ post.step = "phase1" /\ KeepRow /\ PostAlone
      /\ UNCHANGED <<foreign, installed, log, stored, applied>>
  BY DEF PostPhase1, PostAt, PostQuiet
<1>2. last = 1
  BY <1>1 DEF IInv, EarlyAlone, EarlySteps
<1>3. CASE PostTo("done") /\ UNCHANGED <<intent, vm>>
  <2>1. "done" \in PostSteps \ EarlySteps
    BY DEF PostSteps, EarlySteps
  <2>2. HostEvolves
    BY <1>1, <1>2, <1>3 DEF IInv, StateType, VmType, HostType, HostEvolves
  <2> QED
    BY <1>1, <1>3, <2>1, <2>2, KeepDb, PostGoes, PostMove
<1>4. CASE \E v \in Slots :
             /\ intent' = v
             /\ vm' = [slot |-> v, power |-> "running", config |-> 0] \/ UNCHANGED vm
             /\ \E next \in {"persist", "persist_failed", "done"} :
                  post' = [step |-> next, vmid |-> v]
  <2>1. PICK v \in Slots :
             /\ intent' = v
             /\ vm' = [slot |-> v, power |-> "running", config |-> 0] \/ UNCHANGED vm
             /\ \E next \in {"persist", "persist_failed", "done"} :
                  post' = [step |-> next, vmid |-> v]
    BY <1>4
  <2>2. PICK next \in {"persist", "persist_failed", "done"} : post' = [step |-> next, vmid |-> v]
    BY <2>1
  <2>3. next \in PostSteps \ EarlySteps /\ v \in Vmids
    BY DEF PostSteps, EarlySteps, Vmids
  <2>4. PostType' /\ post'.step \notin EarlySteps
    BY <2>2, <2>3 DEF PostType
  <2>5. VmType'
    BY <2>1, <2>3, RowTyped DEF VmType, Power, IInv, StateType
  <2>6. HostEvolves
    BY <1>1, <1>2, <2>1, <2>3, <2>5 DEF IInv, StateType, HostType, HostEvolves
  <2> QED
    BY <1>1, <2>4, <2>6, KeepDb, PostMove
<1> QED
  BY <1>3, <1>4 DEF PostPhase1

LEMMA PostPersistStep ==
  ASSUME IInv, PostPersist
  PROVE  IInv'
<1>1. KeepHost /\ PostAlone
  BY DEF PostPersist, PostQuiet
<1>2. PICK ok \in BOOLEAN, heard \in BOOLEAN :
        /\ Persist(1, post.vmid, ok)
        /\ PostTo(IF PostAt("persist") /\ ok /\ heard THEN "check_limit" ELSE "rollback")
  BY DEF PostPersist
<1>3. PICK next \in {"check_limit", "rollback"} : PostTo(next)
  BY <1>2
<1>4. next \in PostSteps \ EarlySteps /\ post.vmid \in Vmids
  BY DEF PostSteps, EarlySteps, IInv, StateType, PostType
<1>5. PostType' /\ post'.step \notin EarlySteps
  BY <1>3, <1>4, PostGoes
<1>6. DbGood /\ (row' = row \/ row.op = 1)
  BY <1>2, <1>4, PersistDb
<1> QED
  BY <1>1, <1>5, <1>6, KeepHostEvolves, PostMove

LEMMA PostVerifyStep ==
  ASSUME IInv, PostVerify \/ PostReleaseIntent
  PROVE  IInv'
<1>1. /\ intent' \in {NoVm, intent} /\ UNCHANGED <<vm, foreign, installed, log, stored, applied>>
      /\ KeepRow /\ PostAlone
  BY DEF PostVerify, PostReleaseIntent, PostQuiet
<1>2. PICK next \in {"check_final", "rollback_limit", "done"} : PostTo(next)
  BY DEF PostVerify, PostReleaseIntent
<1>3. next \in PostSteps \ EarlySteps
  BY DEF PostSteps, EarlySteps
<1>4. PostType' /\ post'.step \notin EarlySteps
  BY <1>2, <1>3, PostGoes
<1>5. HostEvolves
  BY <1>1 DEF IInv, StateType, VmType, HostType, HostEvolves, Vmids
<1> QED
  BY <1>1, <1>4, <1>5, KeepDb, PostMove

LEMMA PostRollbackStep ==
  ASSUME IInv, PostRollback
  PROVE  IInv'
<1>1. KeepRow /\ PostAlone
  BY DEF PostRollback, PostQuiet
<1>2. PICK at \in {<<"rollback", "terminal">>, <<"rollback_limit", "terminal_error">>,
                   <<"finish", "finish_delete">>} :
        /\ Rollback(post.vmid) \/ KeepHost
        /\ PostTo(at[2]) \/ PostTo("done")
  BY DEF PostRollback
<1>3. PICK next \in {"terminal", "terminal_error", "finish_delete", "done"} : PostTo(next)
  BY <1>2
<1>4. next \in PostSteps \ EarlySteps
  BY DEF PostSteps, EarlySteps
<1>5. PostType' /\ post'.step \notin EarlySteps
  BY <1>3, <1>4, PostGoes
<1>6. HostEvolves
  BY <1>2, KeepHostEvolves, RollbackEvolves
<1> QED
  BY <1>1, <1>5, <1>6, KeepDb, PostMove

LEMMA PostTerminalStep ==
  ASSUME IInv, PostCompleteDelete \/ PostRelease \/ PostCrash
  PROVE  IInv'
<1>1. KeepHost /\ PostAlone
  BY DEF PostCompleteDelete, PostRelease, PostCrash, PostQuiet
<1>2. PICK next \in {"drop_intent", "terminal_error", "done"} : PostTo(next)
  BY DEF PostCompleteDelete, PostRelease, PostCrash
<1>3. next \in PostSteps \ EarlySteps
  BY DEF PostSteps, EarlySteps
<1>4. PostType' /\ post'.step \notin EarlySteps
  BY <1>2, <1>3, PostGoes
<1>5. DbGood /\ (row' = row \/ row.op = 1)
  <2>1. CASE PostCompleteDelete
    BY <2>1, DeleteDb DEF PostCompleteDelete
  <2>2. CASE PostRelease
    <3>1. row.op = 1 => /\ TRUE \/ row.status # "provisioning" \/ row.desired = "deleted"
                        /\ row.kind \in PointKinds => row.desired = "deleted"
      BY DEF IInv, IdsInOrder, PointKinds
    <3>2. PICK ok \in BOOLEAN : Release(1, TRUE, ok)
      BY <2>2 DEF PostRelease
    <3>3. 1 # 0
      OBVIOUS
    <3> QED
      BY <3>1, <3>2, <3>3, ReleaseDb, Zenon
  <2>3. CASE PostCrash
    BY <2>3, KeepDb DEF PostCrash
  <2> QED
    BY <2>1, <2>2, <2>3
<1> QED
  BY <1>1, <1>4, <1>5, KeepHostEvolves, PostMove

LEMMA PostStep ==
  ASSUME IInv, Post
  PROVE  IInv'
BY PostTunnelStep, PostFailBeforeAllocationStep, PostBeginAllocationStep, PostCheckpointStep,
   PostPhase1Step, PostPersistStep, PostVerifyStep, PostRollbackStep, PostTerminalStep DEF Post

-----------------------------------------------------------------------------
(* The owner's request.                                                    *)

LEMMA WorkerGoes ==
  ASSUME IInv, NEW step \in WorkerSteps, NEW power \in Power,
         worker' = [worker EXCEPT !.step = step, !.power = power]
  PROVE  /\ WorkerType' /\ worker'.step = step /\ worker'.op = worker.op
         /\ worker'.kind = worker.kind /\ worker'.snap = worker.snap
<1>1. worker \in [step : WorkerSteps, op : Ops, kind : Kinds, vmid : Vmids, snap : Points,
                  power : Power]
  BY DEF IInv, StateType, WorkerType
<1> QED
  BY <1>1 DEF WorkerType

LEMMA WorkerToGoes ==
  ASSUME IInv, NEW step \in WorkerSteps, WorkerTo(step)
  PROVE  /\ WorkerType' /\ worker'.step = step /\ worker'.op = worker.op
         /\ worker'.kind = worker.kind /\ worker'.snap = worker.snap
<1>1. worker \in [step : WorkerSteps, op : Ops, kind : Kinds, vmid : Vmids, snap : Points,
                  power : Power]
  BY DEF IInv, StateType, WorkerType
<1> QED
  BY <1>1 DEF WorkerType, WorkerTo

LEMMA WorkerMove ==
  ASSUME IInv, Active, DbGood, HostEvolves, WorkerQuiet,
         WorkerType', worker'.op <= last, WorkerLease', WorkerShape',
         worker'.step = "settle" /\ worker'.kind = "snapshot" /\ vm'.slot # NoVm
           => stored'[worker'.snap] # Absent
  PROVE  IInv'
<1>1. UNCHANGED <<last, stale, exact, post, poll, sweep>>
  BY DEF WorkerQuiet, clockVars
<1>2. /\ poll.op <= last /\ \A s \in Sweepers : sweep[s].op <= last
      /\ stale \in BOOLEAN /\ exact \subseteq Sweepers /\ PostType /\ PollType /\ SweepType
      /\ last # 1
  BY DEF IInv, IdsInOrder, StateType
<1>3. PostType' /\ PollType' /\ SweepType'
  BY <1>1, <1>2 DEF PostType, PollType, SweepType
<1>4. EarlyAlone'
  BY <1>1, <1>2 DEF IInv, EarlyAlone
<1>5. Reconciling' /\ OneReconciler'
  BY <1>1, ClockKept
<1>6. PollMatch' /\ SweepsGood'
  BY <1>1, PollKept, SweepKept DEF DbGood, SweepsGood
<1>7. PointsStored'
  <2>1. ASSUME NEW s \in Sweepers, sweep[s].step = "apply", sweep[s].plan = <<"snapshot">>,
               vm'.slot # NoVm
        PROVE  stored'[sweep[s].snap] # Absent
    BY <1>2, <2>1, SnapshotPlanned DEF HostEvolves, IInv, PointsStored
  <2> QED
    BY <1>1, <2>1 DEF PointsStored
<1> QED
  BY <1>1, <1>2, <1>3, <1>4, <1>5, <1>6, <1>7, Move

LEMMA WorkerDone ==
  ASSUME IInv, Active, DbGood, HostEvolves, WorkerQuiet, WorkerEnds
  PROVE  IInv'
<1>1. IdleWorker \in [step : WorkerSteps, op : Ops, kind : Kinds, vmid : Vmids, snap : Points,
                      power : Power]
  BY RowTyped DEF IdleWorker, WorkerSteps, Kinds, Vmids, Points, Power
<1>2. WorkerType' /\ worker'.step = "idle" /\ worker'.op = 0
  BY <1>1 DEF WorkerEnds, WorkerType, IdleWorker
<1>3. WorkerLease' /\ WorkerShape' /\ worker'.op <= last
  BY <1>2, RowTyped DEF WorkerLease, WorkerShape, Active, Ops
<1> QED
  BY <1>2, <1>3, WorkerMove

LEMMA WorkerGoesOn ==
  ASSUME IInv, Active, KeepRow, HostEvolves, WorkerQuiet, WorkerType', WorkerShape',
         worker'.op = worker.op, worker'.kind = worker.kind, worker'.snap = worker.snap,
         worker'.step = "settle" /\ worker.kind = "snapshot" /\ vm'.slot # NoVm
           => stored'[worker.snap] # Absent
  PROVE  IInv'
<1>1. DbGood /\ row' = row
  BY KeepDb
<1>2. worker'.op <= last
  BY DEF IInv, IdsInOrder
<1>3. WorkerLease'
  BY <1>1 DEF IInv, WorkerLease, Active, WorkerQuiet, clockVars
<1> QED
  BY <1>1, <1>2, <1>3, WorkerMove

(* What the owner's request knows of the row while it holds the lease.     *)
LEMMA WorkerRow ==
  ASSUME IInv, Active
  PROVE  /\ worker.op \in Ops /\ worker.op # 0 /\ row.op = worker.op /\ row.kind = worker.kind
         /\ worker.kind # "delete" => row.status # "provisioning"
         /\ worker.kind = "delete" => row.desired = "deleted"
         /\ worker.kind \in PointKinds => worker.snap \in Snapshots
         /\ worker.power \in Power
BY DEF IInv, WorkerLease, StateType, WorkerType, RowShape

LEMMA InvalidateDesktopStep ==
  ASSUME IInv, InvalidateDesktop
  PROVE  IInv'
<1>1. KeepHost /\ WorkerQuiet /\ worker.step = "prepare" /\ Active
  BY DEF InvalidateDesktop, WorkerAt, Active
<1>2. worker.kind \in Powering
  BY <1>1 DEF IInv, WorkerShape
<1>3. HostEvolves
  BY <1>1, KeepHostEvolves
<1>4. CASE WorkerTo("script") /\ KeepRow
  <2>1. "script" \in WorkerSteps
    BY DEF WorkerSteps
  <2>2. /\ WorkerType' /\ worker'.step = "script" /\ worker'.op = worker.op
        /\ worker'.kind = worker.kind /\ worker'.snap = worker.snap
    BY <1>4, <2>1, WorkerToGoes
  <2>3. WorkerShape'
    BY <1>2, <2>2 DEF WorkerShape, Powering, Lifecycle
  <2> QED
    BY <1>1, <1>3, <1>4, <2>2, <2>3, WorkerGoesOn
<1>5. CASE WorkerEnds /\ \E ok \in BOOLEAN : Release(worker.op, FALSE, ok)
  <2>1. PICK ok \in BOOLEAN : Release(worker.op, FALSE, ok)
    BY <1>5
  <2>2. row.status # "provisioning" /\ row.kind \notin PointKinds /\ worker.op # 0
    BY <1>1, <1>2, WorkerRow DEF Powering, PointKinds, StartLike
  <2>3. DbGood
    BY <2>1, <2>2, ReleaseDb
  <2> QED
    BY <1>1, <1>3, <1>5, <2>3, WorkerDone
<1> QED
  BY <1>4, <1>5 DEF InvalidateDesktop

LEMMA ReleaseRefusedStep ==
  ASSUME IInv, ReleaseRefused
  PROVE  IInv'
<1>1. KeepHost /\ WorkerQuiet /\ WorkerEnds /\ worker.step = "refused" /\ Active
  BY DEF ReleaseRefused, WorkerAt, Active
<1>2. worker.kind \in Powering
  BY <1>1 DEF IInv, WorkerShape
<1>3. PICK ok \in BOOLEAN : Release(worker.op, FALSE, ok)
  BY DEF ReleaseRefused
<1>4. row.status # "provisioning" /\ row.kind \notin PointKinds /\ worker.op # 0
  BY <1>1, <1>2, WorkerRow DEF Powering, PointKinds, StartLike
<1>5. DbGood
  BY <1>3, <1>4, ReleaseDb
<1> QED
  BY <1>1, <1>5, KeepHostEvolves, WorkerDone

LEMMA WorkerCrashStep ==
  ASSUME IInv, WorkerCrash
  PROVE  IInv'
BY KeepDb, KeepHostEvolves, WorkerDone DEF WorkerCrash, WorkerAt, Active

(* What the power and resize scripts leave behind.                         *)
LEMMA OutcomesTyped ==
  ASSUME IInv, worker.kind \in Powering, NEW out \in Outcomes(worker.kind, worker.op)
  PROVE  /\ out.power \in Power /\ out.config \in Ops
         /\ out.next \in {"settle", "refused", "idle"}
<1>1. vm.power \in Power /\ vm.config \in Ops /\ worker.op \in Ops
      /\ "running" \in Power /\ "stopped" \in Power
  BY DEF IInv, StateType, VmType, WorkerType, Power
<1>2. CASE worker.kind = "stop"
  BY <1>1, <1>2 DEF Outcomes, Reached
<1>3. CASE worker.kind = "start"
  BY <1>1, <1>3 DEF Outcomes, Reached
<1>4. CASE worker.kind = "restart"
  BY <1>1, <1>4 DEF Outcomes, Reached
<1>5. CASE worker.kind = "resize"
  BY <1>1, <1>5 DEF Outcomes, Reached
<1> QED
  BY <1>2, <1>3, <1>4, <1>5 DEF Powering, StartLike

LEMMA PowerScriptStep ==
  ASSUME IInv, PowerScript
  PROVE  IInv'
<1>1. /\ KeepRow /\ WorkerQuiet /\ worker.step = "script" /\ Active
      /\ worker.kind \in Powering
  BY DEF PowerScript, WorkerAt, Active, Powering
<1>2. CASE WorkerEnds /\ KeepHost
  BY <1>1, <1>2, KeepDb, KeepHostEvolves, WorkerDone
<1>3. CASE /\ \E out \in Outcomes(worker.kind, worker.op) :
                /\ vm' = [vm EXCEPT !.power = out.power, !.config = out.config]
                /\ log' = IF out.receipt THEN [op |-> worker.op, result |-> "none"] ELSE log
                /\ installed' = IF out.receipt THEN "none" ELSE installed
                /\ WorkerEnds \/ (out.next # "idle" /\ WorkerTo(out.next))
           /\ UNCHANGED <<foreign, intent, stored, applied>>
  <2>1. PICK out \in Outcomes(worker.kind, worker.op) :
                /\ vm' = [vm EXCEPT !.power = out.power, !.config = out.config]
                /\ log' = IF out.receipt THEN [op |-> worker.op, result |-> "none"] ELSE log
                /\ installed' = IF out.receipt THEN "none" ELSE installed
                /\ WorkerEnds \/ (out.next # "idle" /\ WorkerTo(out.next))
    BY <1>3
  <2>2. out.power \in Power /\ out.config \in Ops /\ out.next \in {"settle", "refused", "idle"}
    BY <1>1, OutcomesTyped
  <2>3. VmType' /\ vm'.slot = vm.slot
    BY <2>1, <2>2 DEF IInv, StateType, VmType
  <2>4. log' \in [op : Ops, result : Markers] /\ installed' \in Markers
    BY <2>1 DEF IInv, StateType, HostType, WorkerType, Markers
  <2>5. HostEvolves
    BY <1>3, <2>3, <2>4 DEF IInv, StateType, HostType, HostEvolves
  <2>6. CASE WorkerEnds
    BY <1>1, <2>5, <2>6, KeepDb, WorkerDone
  <2>7. CASE out.next # "idle" /\ WorkerTo(out.next)
    <3>1. out.next \in WorkerSteps /\ out.next \in {"settle", "refused"}
      BY <2>2, <2>7 DEF WorkerSteps
    <3>2. /\ WorkerType' /\ worker'.step = out.next /\ worker'.op = worker.op
          /\ worker'.kind = worker.kind /\ worker'.snap = worker.snap
      BY <2>7, <3>1, WorkerToGoes
    <3>3. WorkerShape' /\ worker.kind # "snapshot"
      BY <1>1, <3>1, <3>2 DEF WorkerShape, Powering, Lifecycle, StartLike
    <3> QED
      BY <1>1, <2>5, <3>2, <3>3, WorkerGoesOn
  <2> QED
    BY <2>1, <2>6, <2>7
<1> QED
  BY <1>2, <1>3 DEF PowerScript

LEMMA SnapshotScriptStep ==
  ASSUME IInv, SnapshotScript
  PROVE  IInv'
<1>1. /\ KeepRow /\ WorkerQuiet /\ worker.step = "script" /\ Active
      /\ worker.kind = "snapshot"
  BY DEF SnapshotScript, WorkerAt, Active
<1>2. worker.snap \in Snapshots /\ vm.config \in Ops /\ vm.power \in Power
      /\ vm.config # Absent /\ stored \in [Snapshots -> Ops \cup {Absent}]
  BY <1>1, WorkerRow, OpsAssumption DEF PointKinds, IInv, StateType, VmType, HostType, Ops
<1>3. CASE WorkerEnds /\ KeepHost
  BY <1>1, <1>3, KeepDb, KeepHostEvolves, WorkerDone
<1>4. CASE /\ stored' = [stored EXCEPT ![worker.snap] = vm.config]
           /\ WorkerEnds \/ worker' = [worker EXCEPT !.step = "settle", !.power = vm.power]
           /\ UNCHANGED <<vm, foreign, intent, installed, log, applied>>
  <2>1. /\ stored' \in [Snapshots -> Ops \cup {Absent}] /\ stored'[worker.snap] # Absent
        /\ \A n \in Snapshots : stored[n] # Absent => stored'[n] # Absent
    BY <1>2, <1>4
  <2>2. HostEvolves
    BY <1>4, <2>1 DEF IInv, StateType, VmType, HostType, HostEvolves
  <2>3. CASE WorkerEnds
    BY <1>1, <2>2, <2>3, KeepDb, WorkerDone
  <2>4. CASE worker' = [worker EXCEPT !.step = "settle", !.power = vm.power]
    <3>1. "settle" \in WorkerSteps
      BY DEF WorkerSteps
    <3>2. /\ WorkerType' /\ worker'.step = "settle" /\ worker'.op = worker.op
          /\ worker'.kind = worker.kind /\ worker'.snap = worker.snap
      BY <1>2, <2>4, <3>1, WorkerGoes
    <3>3. WorkerShape'
      BY <1>1, <3>2 DEF WorkerShape, Lifecycle
    <3> QED
      BY <1>1, <2>1, <2>2, <3>2, <3>3, WorkerGoesOn
  <2> QED
    BY <1>4, <2>3, <2>4
<1> QED
  BY <1>3, <1>4 DEF SnapshotScript

LEMMA RestoreScriptStep ==
  ASSUME IInv, RestoreScript
  PROVE  IInv'
<1>1. /\ KeepRow /\ WorkerQuiet /\ worker.step = "script" /\ Active
      /\ worker.kind = "restore"
  BY DEF RestoreScript, WorkerAt, Active
<1>2. /\ worker.snap \in Snapshots /\ worker.op \in Ops /\ "stopped" \in Power
      /\ vm \in [slot : Vmids, power : Power, config : Ops]
      /\ stored \in [Snapshots -> Ops \cup {Absent}] /\ applied \subseteq Ops
  BY <1>1, WorkerRow DEF PointKinds, IInv, StateType, VmType, HostType, Power
<1>3. CASE WorkerEnds /\ KeepHost
  BY <1>1, <1>3, KeepDb, KeepHostEvolves, WorkerDone
<1>4. CASE /\ stored[worker.snap] # Absent
           /\ UNCHANGED <<foreign, intent, installed, log, stored>>
           /\ \/ /\ vm' = [vm EXCEPT !.power = "stopped"]
                 /\ WorkerEnds
                 /\ UNCHANGED applied
              \/ /\ vm' = [vm EXCEPT !.power = "stopped", !.config = stored[worker.snap]]
                 /\ applied' = applied \cup {worker.op}
                 /\ WorkerEnds \/ WorkerTo("settle")
  <2>1. stored[worker.snap] \in Ops
    BY <1>2, <1>4
  <2>2. vm' \in [slot : Vmids, power : Power, config : Ops] /\ vm'.slot = vm.slot
    BY <1>2, <1>4, <2>1
  <2>3. applied' \subseteq Ops
    BY <1>2, <1>4
  <2>4. HostEvolves
    BY <1>4, <2>2, <2>3 DEF IInv, StateType, VmType, HostType, HostEvolves
  <2>5. CASE WorkerEnds
    BY <1>1, <2>4, <2>5, KeepDb, WorkerDone
  <2>6. CASE WorkerTo("settle")
    <3>1. "settle" \in WorkerSteps
      BY DEF WorkerSteps
    <3>2. /\ WorkerType' /\ worker'.step = "settle" /\ worker'.op = worker.op
          /\ worker'.kind = worker.kind /\ worker'.snap = worker.snap
      BY <2>6, <3>1, WorkerToGoes
    <3>3. WorkerShape'
      BY <1>1, <3>2 DEF WorkerShape, Lifecycle
    <3> QED
      BY <1>1, <2>4, <3>2, <3>3, WorkerGoesOn
  <2> QED
    BY <1>4, <2>5, <2>6
<1> QED
  BY <1>3, <1>4 DEF RestoreScript

LEMMA SettleAnswerStep ==
  ASSUME IInv, SettleAnswer
  PROVE  IInv'
<1>1. KeepHost /\ WorkerQuiet /\ worker.step = "settle" /\ Active
  BY DEF SettleAnswer, WorkerAt, Active
<1>2. worker.kind \in Lifecycle
  BY <1>1 DEF IInv, WorkerShape
<1>3. HostEvolves
  BY <1>1, KeepHostEvolves
<1>4. CASE worker.kind = "stop"
  <2>1. PICK ok \in BOOLEAN :
              /\ CompleteOperation(worker.op, "stopped", "stopped", ok)
              /\ UNCHANGED <<snaps, restored>>
              /\ IF ok THEN WorkerEnds ELSE WorkerTo("refused")
    BY <1>4 DEF SettleAnswer, StartLike
  <2>2. /\ worker.op # 0 /\ "stopped" \in Power /\ (row.op = worker.op => row.kind \notin PointKinds)
    BY <1>1, <1>4, WorkerRow DEF PointKinds, Power
  <2>3. CASE ok
    BY <1>1, <1>3, <2>1, <2>2, <2>3, CompleteDb, WorkerDone
  <2>4. CASE ~ok
    <3>1. KeepRow /\ WorkerTo("refused") /\ "refused" \in WorkerSteps
      BY <2>1, <2>4 DEF CompleteOperation, KeepRow, dbVars, WorkerSteps
    <3>2. /\ WorkerType' /\ worker'.step = "refused" /\ worker'.op = worker.op
          /\ worker'.kind = worker.kind /\ worker'.snap = worker.snap
      BY <3>1, WorkerToGoes
    <3>3. WorkerShape'
      BY <1>4, <3>2 DEF WorkerShape, Powering
    <3> QED
      BY <1>1, <1>3, <3>1, <3>2, <3>3, WorkerGoesOn
  <2> QED
    BY <2>3, <2>4
<1>5. CASE worker.kind \in StartLike
  <2>1. PICK ok \in BOOLEAN : Continue(worker.op, ok) /\ WorkerEnds
    BY <1>5 DEF SettleAnswer, StartLike
  <2>2. worker.op \in Ops
    BY <1>1, WorkerRow
  <2> QED
    BY <1>1, <1>3, <2>1, <2>2, ContinueDb, WorkerDone
<1>6. CASE worker.kind = "snapshot"
  <2>1. PICK ok \in BOOLEAN :
          CompleteSnapshot(worker.op, worker.snap, worker.power, ok) /\ WorkerEnds
    BY <1>6 DEF SettleAnswer, StartLike
  <2>2. /\ worker.op # 0 /\ worker.snap \in Snapshots /\ worker.power \in Power
        /\ row.kind = "snapshot"
    BY <1>1, <1>6, WorkerRow DEF PointKinds
  <2>3. stored[worker.snap] # Absent \/ vm.slot = NoVm
    BY <1>1, <1>6 DEF IInv, PointsStored
  <2>4. DbGood
    BY <2>1, <2>2, <2>3, SnapshotDb
  <2> QED
    BY <1>1, <1>3, <2>1, <2>4, WorkerDone
<1>7. CASE worker.kind = "restore"
  <2>1. PICK ok \in BOOLEAN : CompleteRestore(worker.op, worker.snap, ok) /\ WorkerEnds
    BY <1>7 DEF SettleAnswer, StartLike
  <2>2. worker.op \in Ops /\ worker.op # 0 /\ worker.snap \in Snapshots /\ row.kind = "restore"
    BY <1>1, <1>7, WorkerRow DEF PointKinds
  <2>3. DbGood
    BY <2>1, <2>2, RestoreDb
  <2> QED
    BY <1>1, <1>3, <2>1, <2>3, WorkerDone
<1> QED
  BY <1>2, <1>4, <1>5, <1>6, <1>7 DEF Lifecycle

LEMMA DeleteDestroyStep ==
  ASSUME IInv, DeleteDestroy
  PROVE  IInv'
<1>1. KeepRow /\ WorkerQuiet /\ worker.step = "destroy" /\ Active
  BY DEF DeleteDestroy, WorkerAt, Active
<1>2. worker.kind = "delete"
  BY <1>1 DEF IInv, WorkerShape
<1>3. HostEvolves
  BY KeepHostEvolves, DestroyWithLogsEvolves DEF DeleteDestroy
<1>4. PICK next \in {"finish", "abort"} : WorkerTo(next)
  BY DEF DeleteDestroy
<1>5. next \in WorkerSteps
  BY DEF WorkerSteps
<1>6. /\ WorkerType' /\ worker'.step = next /\ worker'.op = worker.op
      /\ worker'.kind = worker.kind /\ worker'.snap = worker.snap
  BY <1>4, <1>5, WorkerToGoes
<1>7. WorkerShape'
  BY <1>2, <1>6 DEF WorkerShape
<1> QED
  BY <1>1, <1>2, <1>3, <1>6, <1>7, WorkerGoesOn

LEMMA DeleteFinishStep ==
  ASSUME IInv, DeleteFinish
  PROVE  IInv'
<1>1. KeepHost /\ WorkerQuiet /\ worker.step = "finish" /\ Active
  BY DEF DeleteFinish, WorkerAt, Active
<1>2. worker.kind = "delete" /\ worker.op # 0
  BY <1>1, WorkerRow DEF IInv, WorkerShape
<1>3. HostEvolves
  BY <1>1, KeepHostEvolves
<1>4. PICK ok \in BOOLEAN :
        CompleteDelete(worker.op, ok) /\ IF ok THEN WorkerEnds ELSE WorkerTo("abort")
  BY DEF DeleteFinish
<1>5. CASE ok
  BY <1>1, <1>2, <1>3, <1>4, <1>5, DeleteDb, WorkerDone
<1>6. CASE ~ok
  <2>1. KeepRow /\ WorkerTo("abort") /\ "abort" \in WorkerSteps
    BY <1>4, <1>6 DEF CompleteDelete, WorkerSteps
  <2>2. /\ WorkerType' /\ worker'.step = "abort" /\ worker'.op = worker.op
        /\ worker'.kind = worker.kind /\ worker'.snap = worker.snap
    BY <2>1, WorkerToGoes
  <2>3. WorkerShape'
    BY <1>2, <2>2 DEF WorkerShape
  <2> QED
    BY <1>1, <1>2, <1>3, <2>1, <2>2, <2>3, WorkerGoesOn
<1> QED
  BY <1>5, <1>6

LEMMA DeleteAbortStep ==
  ASSUME IInv, DeleteAbort
  PROVE  IInv'
<1>1. KeepHost /\ WorkerQuiet /\ WorkerEnds /\ worker.step = "abort" /\ Active
  BY DEF DeleteAbort, WorkerAt, Active
<1>2. worker.kind = "delete"
  BY <1>1 DEF IInv, WorkerShape
<1>3. PICK ok \in BOOLEAN : Release(worker.op, TRUE, ok)
  BY DEF DeleteAbort
<1>4. /\ worker.op # 0
      /\ row.op = worker.op =>
           /\ TRUE \/ row.status # "provisioning" \/ row.desired = "deleted"
           /\ row.kind \in PointKinds => row.desired = "deleted"
  BY <1>1, <1>2, WorkerRow
<1>5. DbGood
  BY <1>3, <1>4, ReleaseDb, Zenon
<1> QED
  BY <1>1, <1>5, KeepHostEvolves, WorkerDone

(* A fresh operation: no other process can name its id yet.                *)
LEMMA FreshOperation ==
  ASSUME IInv, row.op = 0, ~Active, last < MaxOps, last' = last + 1, stale' = FALSE,
         UNCHANGED <<exact, restored, hostVars, ghostVars, post, poll, sweep>>,
         row' \in Rows, row'.op = last + 1, row'.kind \notin {"none", "provision"},
         RowShape', snaps' \in [Snapshots -> PointRows], PointsOwned', ReadySnapshotStored',
         WorkerType', WorkerShape', worker'.step # "settle",
         worker'.op = last + 1, worker'.kind = row'.kind,
         worker'.kind \in PointKinds => worker'.snap = row'.snap,
         worker'.kind # "delete" => row'.status # "provisioning"
  PROVE  IInv'
<1>1. /\ last \in Nat /\ last + 1 \in Ops /\ last >= 1 /\ poll.op \in Nat /\ poll.op <= last
      /\ \A s \in Sweepers : sweep[s].op \in Nat /\ sweep[s].op <= last
  BY OpsAssumption DEF IInv, IdsInOrder, StateType, PollType, SweepType, Ops
<1>2. UNCHANGED <<vm, foreign, intent, installed, log, stored, applied>>
  BY DEF hostVars
<1>3. StateType'
  <2>1. RowType' /\ SnapsType' /\ (row'.op = 0 <=> row'.kind = "none")
    BY <1>1 DEF RowType, SnapsType, Rows, PointRows
  <2>2. VmType' /\ HostType' /\ PostType' /\ PollType' /\ SweepType'
    BY <1>2 DEF IInv, StateType, VmType, HostType, PostType, PollType, SweepType
  <2>3. last' \in Ops \ {0} /\ exact' \subseteq Sweepers /\ restored' \subseteq Ops
    BY <1>1 DEF IInv, StateType
  <2>4. stale' \in BOOLEAN
    OBVIOUS
  <2> QED
    BY <2>1, <2>2, <2>3, <2>4 DEF StateType
<1>4. IdsInOrder'
  BY <1>1 DEF IdsInOrder
<1>5. EarlyAlone'
  BY DEF IInv, EarlyAlone
<1>6. WorkerLease'
  BY <1>1 DEF WorkerLease
<1>7. RowEvolves
  BY <1>1 DEF RowEvolves
<1>8. PollMatch' /\ SweepsGood'
  BY <1>7, PollKept, SweepKept DEF SweepsGood
<1>9. Reconciling' /\ OneReconciler'
  BY DEF IInv, Reconciling, OneReconciler, Working
<1>10. PointsStored'
  BY <1>2 DEF IInv, PointsStored
<1> QED
  BY <1>3, <1>4, <1>5, <1>6, <1>8, <1>9, <1>10 DEF IInv

LEMMA ClaimEffect ==
  ASSUME IInv, NEW kind \in Lifecycle, NEW desired \in Power, NEW n \in Points,
         NEW step \in {"prepare", "script"}, Claim(kind, desired, n, step)
  PROVE  /\ row.op = 0 /\ ~Active /\ last < MaxOps /\ last' = last + 1 /\ stale' = FALSE
         /\ UNCHANGED <<exact, restored, hostVars, ghostVars, post, poll, sweep>>
         /\ row' \in Rows /\ row'.op = last + 1 /\ row'.kind = kind /\ row'.snap = n
         /\ row'.status # "provisioning"
         /\ WorkerType' /\ worker'.step = step /\ worker'.op = last + 1 /\ worker'.kind = kind
         /\ worker'.snap = n
         /\ \A m \in Snapshots : snaps[m].status \notin {"creating", "restoring"}
         /\ last + 1 \in Ops
<1> DEFINE new == [row EXCEPT !.op = last + 1, !.kind = kind, !.desired = desired, !.snap = n]
           job == [step |-> step, op |-> last + 1, kind |-> kind, vmid |-> row.vmid,
                   snap |-> n, power |-> "stopped"]
<1>1. /\ worker.step = "idle" /\ last < MaxOps /\ row.desired # "deleted" /\ row.op = 0
      /\ last' = last + 1 /\ stale' = FALSE /\ row' = new /\ worker' = job
      /\ UNCHANGED <<exact, restored, hostVars, ghostVars, post, poll, sweep>>
  BY DEF Claim, WorkerAt
<1>2. last + 1 \in Ops
  BY <1>1, RowTyped, OpsAssumption DEF Ops
<1>3. kind \in Kinds /\ desired \in Desires
  BY DEF Kinds, Desires
<1>4. /\ new \in Rows /\ new.op = last + 1 /\ new.kind = kind /\ new.snap = n
      /\ new.status = row.status
  BY <1>2, <1>3, RowTyped DEF Rows
<1>5. job \in [step : WorkerSteps, op : Ops, kind : Kinds, vmid : Vmids, snap : Points, power : Power]
  BY <1>2, <1>3, RowTyped DEF Rows, WorkerSteps, Power
<1>6. WorkerType' /\ worker'.step = step /\ worker'.op = last + 1 /\ worker'.kind = kind
      /\ worker'.snap = n
  BY <1>1, <1>5 DEF WorkerType
<1> HIDE DEF new, job
<1>7. row.kind = "none" /\ row.status # "provisioning"
  BY <1>1, RowTyped DEF IInv, RowShape
<1>8. \A m \in Snapshots : snaps[m].status \notin {"creating", "restoring"}
  BY <1>1, <1>7 DEF IInv, PointsOwned
<1> QED
  BY <1>1, <1>2, <1>4, <1>6, <1>7, <1>8 DEF Active

LEMMA ClaimPowerStep ==
  ASSUME IInv, ClaimPower
  PROVE  IInv'
<1>1. PICK kind \in Actions \ {"snapshot", "restore"} :
       Claim(kind, IF kind = "stop" THEN "stopped" ELSE "running", NoSnap,
             IF kind = "resize" THEN "script" ELSE "prepare")
  BY DEF ClaimPower
<1>2. UNCHANGED snaps
  BY DEF ClaimPower
<1>3. PICK desired \in Power, step \in {"prepare", "script"} : Claim(kind, desired, NoSnap, step)
  BY <1>1 DEF Power
<1>4. kind \in Powering /\ kind \in Lifecycle /\ kind \notin PointKinds \cup {"none", "provision", "delete"}
  BY OpsAssumption DEF Powering, Lifecycle, StartLike, PointKinds
<1>5. NoSnap \in Points /\ kind \in Lifecycle
  BY <1>4 DEF Points
<1>6. /\ row.op = 0 /\ ~Active /\ last < MaxOps /\ last' = last + 1 /\ stale' = FALSE
      /\ UNCHANGED <<exact, restored, hostVars, ghostVars, post, poll, sweep>>
      /\ row' \in Rows /\ row'.op = last + 1 /\ row'.kind = kind
      /\ row'.status # "provisioning"
      /\ WorkerType' /\ worker'.step = step /\ worker'.op = last + 1 /\ worker'.kind = kind
      /\ \A m \in Snapshots : snaps[m].status \notin {"creating", "restoring"}
  BY <1>3, <1>5, ClaimEffect, Zenon
<1>7. RowShape'
  BY <1>4, <1>6, RowTyped DEF RowShape
<1>8. PointsOwned' /\ ReadySnapshotStored' /\ snaps' \in [Snapshots -> PointRows]
  BY <1>2, <1>6, RowTyped DEF IInv, PointsOwned, ReadySnapshotStored, hostVars
<1>9. WorkerShape'
  BY <1>3, <1>4, <1>6 DEF WorkerShape
<1> QED
  BY <1>3, <1>4, <1>6, <1>7, <1>8, <1>9, FreshOperation

LEMMA BeginSnapshotStep ==
  ASSUME IInv, BeginSnapshot
  PROVE  IInv'
<1>1. "snapshot" \in Actions /\ row.desired \in Power
  BY DEF BeginSnapshot
<1>2. PICK n \in Snapshots :
        /\ Claim("snapshot", row.desired, n, "script")
        /\ snaps' = [snaps EXCEPT ![n] = [status |-> "creating", op |-> last + 1,
                                          size |-> row.size]]
  BY DEF BeginSnapshot
<1>3. n \in Points /\ "snapshot" \in Lifecycle
  BY DEF Points, Lifecycle
<1>4. /\ row.op = 0 /\ ~Active /\ last < MaxOps /\ last' = last + 1 /\ stale' = FALSE
      /\ UNCHANGED <<exact, restored, hostVars, ghostVars, post, poll, sweep>>
      /\ row' \in Rows /\ row'.op = last + 1 /\ row'.kind = "snapshot" /\ row'.snap = n
      /\ row'.status # "provisioning"
      /\ WorkerType' /\ worker'.step = "script" /\ worker'.op = last + 1
      /\ worker'.kind = "snapshot" /\ worker'.snap = n
      /\ \A m \in Snapshots : snaps[m].status \notin {"creating", "restoring"}
      /\ last + 1 \in Ops
  BY <1>1, <1>2, <1>3, ClaimEffect
<1>5. /\ snaps' \in [Snapshots -> PointRows] /\ snaps'[n].status = "creating"
      /\ snaps'[n].op = last + 1 /\ \A m \in Snapshots : m # n => snaps'[m] = snaps[m]
  BY <1>2, <1>4, RowTyped DEF Rows, PointRows
<1>6. RowShape'
  BY <1>1, <1>4, RowTyped DEF RowShape
<1>7. PointsOwned'
  BY <1>4, <1>5 DEF PointsOwned
<1>8. ReadySnapshotStored'
  BY <1>4, <1>5 DEF IInv, ReadySnapshotStored, hostVars
<1>9. WorkerShape'
  BY <1>4 DEF WorkerShape, Lifecycle
<1> QED
  BY <1>4, <1>5, <1>6, <1>7, <1>8, <1>9, FreshOperation

LEMMA BeginRestoreStep ==
  ASSUME IInv, BeginRestore
  PROVE  IInv'
<1>1. PICK n \in Snapshots :
        /\ snaps[n].status = "ready"
        /\ Claim("restore", "stopped", n, "script")
        /\ snaps' = [snaps EXCEPT ![n].status = "restoring", ![n].op = last + 1]
  BY DEF BeginRestore
<1>2. n \in Points /\ "restore" \in Lifecycle /\ "stopped" \in Power
  BY DEF Points, Lifecycle, Power
<1>3. /\ row.op = 0 /\ ~Active /\ last < MaxOps /\ last' = last + 1 /\ stale' = FALSE
      /\ UNCHANGED <<exact, restored, hostVars, ghostVars, post, poll, sweep>>
      /\ row' \in Rows /\ row'.op = last + 1 /\ row'.kind = "restore" /\ row'.snap = n
      /\ row'.status # "provisioning"
      /\ WorkerType' /\ worker'.step = "script" /\ worker'.op = last + 1
      /\ worker'.kind = "restore" /\ worker'.snap = n
      /\ \A m \in Snapshots : snaps[m].status \notin {"creating", "restoring"}
      /\ last + 1 \in Ops
  BY <1>1, <1>2, ClaimEffect
<1> DEFINE new == [snaps[n] EXCEPT !.status = "restoring", !.op = last + 1]
<1>4. new \in PointRows /\ new.status = "restoring" /\ new.op = last + 1
  BY <1>3, RowTyped DEF PointRows
<1>5. snaps' = [snaps EXCEPT ![n] = new]
  BY <1>1
<1> HIDE DEF new
<1>6. /\ snaps' \in [Snapshots -> PointRows] /\ snaps'[n] = new
      /\ \A m \in Snapshots : m # n => snaps'[m] = snaps[m]
  BY <1>4, <1>5, RowTyped
<1>7. RowShape'
  BY <1>3, RowTyped DEF RowShape
<1>8. PointsOwned'
  BY <1>3, <1>4, <1>6 DEF PointsOwned
<1>9. ReadySnapshotStored'
  BY <1>1, <1>3, <1>6 DEF IInv, ReadySnapshotStored, hostVars
<1>10. WorkerShape'
  BY <1>3 DEF WorkerShape, Lifecycle
<1> QED
  BY <1>3, <1>6, <1>7, <1>8, <1>9, <1>10, FreshOperation

LEMMA RequestDeleteStep ==
  ASSUME IInv, RequestDelete
  PROVE  IInv'
<1>1. UNCHANGED <<snaps, restored, hostVars, ghostVars, post, poll, sweep>>
  BY DEF RequestDelete
<1>2. "deleted" \in Desires /\ "delete" \in Kinds
  BY DEF Desires, Kinds
<1>3. CASE /\ row.op # 0
           /\ row' = [row EXCEPT !.desired = "deleted"]
           /\ UNCHANGED <<clockVars, worker>>
  <2> DEFINE new == [row EXCEPT !.desired = "deleted"]
  <2>1. /\ new \in Rows /\ new.op = row.op /\ new.kind = row.kind /\ new.snap = row.snap
        /\ new.desired = "deleted" /\ new.status = row.status /\ new.vmid = row.vmid
    BY <1>2, RowTyped DEF Rows
  <2> HIDE DEF new
  <2>2. row' = new
    BY <1>3 DEF new
  <2>3. RowShape' /\ PointsOwned' /\ RowEvolves
    BY <1>1, <1>3, <2>1, <2>2 DEF IInv, RowShape, PointsOwned, RowEvolves
  <2>4. DbGood
    BY <1>1, <2>1, <2>2, <2>3, RowTyped DEF DbGood
  <2>5. UNCHANGED <<last, stale, exact, worker>>
    BY <1>3 DEF clockVars
  <2>6. HostEvolves
    BY <1>1, KeepHostEvolves DEF KeepHost
  <2>7. /\ poll.op <= last /\ worker.op <= last /\ \A s \in Sweepers : sweep[s].op <= last
        /\ stale \in BOOLEAN /\ exact \subseteq Sweepers
        /\ PostType /\ WorkerType /\ PollType /\ SweepType
    BY DEF IInv, IdsInOrder, StateType
  <2>8. PostType' /\ WorkerType' /\ PollType' /\ SweepType'
    BY <1>1, <2>5, <2>7 DEF PostType, WorkerType, PollType, SweepType
  <2>9. EarlyAlone' /\ WorkerLease' /\ WorkerShape'
    BY <1>1, <2>1, <2>2, <2>5 DEF IInv, EarlyAlone, WorkerLease, WorkerShape, Active
  <2>10. PollMatch' /\ SweepsGood' /\ PointsStored'
    BY <1>1, <2>3, <2>5, <2>6, PollKept, SweepKept, PointsStoredKept DEF SweepsGood
  <2>11. Reconciling' /\ OneReconciler'
    BY <1>1, <2>5, ClockKept
  <2>12. Active' => Active
    BY <2>5 DEF Active
  <2> QED
    BY <1>1, <2>4, <2>5, <2>6, <2>7, <2>8, <2>9, <2>10, <2>11, <2>12, Move
<1>4. CASE /\ row.op = 0
           /\ WorkerAt("idle")
           /\ last < MaxOps
           /\ last' = last + 1
           /\ stale' = FALSE
           /\ row' = [row EXCEPT !.desired = "deleted", !.op = last + 1, !.kind = "delete"]
           /\ worker' = [IdleWorker EXCEPT !.step = IF row.vmid = NoVm THEN "finish" ELSE "destroy",
                                           !.op = last + 1, !.kind = "delete", !.vmid = row.vmid]
           /\ UNCHANGED exact
  <2>1. last + 1 \in Ops /\ last \in Nat
    BY <1>4, RowTyped, OpsAssumption DEF Ops
  <2> DEFINE new == [row EXCEPT !.desired = "deleted", !.op = last + 1, !.kind = "delete"]
             job == [IdleWorker EXCEPT !.step = IF row.vmid = NoVm THEN "finish" ELSE "destroy",
                                       !.op = last + 1, !.kind = "delete", !.vmid = row.vmid]
  <2>2. /\ new \in Rows /\ new.op = last + 1 /\ new.kind = "delete" /\ new.desired = "deleted"
    BY <1>2, <2>1, RowTyped DEF Rows
  <2>3. IdleWorker \in [step : WorkerSteps, op : Ops, kind : Kinds, vmid : Vmids, snap : Points,
                        power : Power]
    BY RowTyped DEF IdleWorker, WorkerSteps, Kinds, Vmids, Points, Power
  <2>4. /\ job \in [step : WorkerSteps, op : Ops, kind : Kinds, vmid : Vmids, snap : Points,
                    power : Power]
        /\ job.step \in {"finish", "destroy"} /\ job.op = last + 1 /\ job.kind = "delete"
    BY <1>2, <2>1, <2>3, RowTyped DEF Rows, WorkerSteps
  <2> HIDE DEF new, job
  <2>5. row' = new /\ worker' = job
    BY <1>4 DEF new, job
  <2>6. RowShape' /\ PointsOwned'
    BY <2>1, <2>2, <2>5, RowTyped DEF RowShape, PointsOwned, PointKinds
  <2>7. ReadySnapshotStored' /\ snaps' \in [Snapshots -> PointRows]
    BY <1>1, RowTyped DEF IInv, ReadySnapshotStored, hostVars
  <2>8. WorkerType' /\ WorkerShape'
    BY <2>4, <2>5 DEF WorkerType, WorkerShape
  <2>9. ~Active /\ worker'.kind \notin PointKinds
    BY <1>4, <2>4, <2>5 DEF Active, WorkerAt, PointKinds
  <2> QED
    BY <1>1, <1>4, <2>2, <2>4, <2>5, <2>6, <2>7, <2>8, <2>9, FreshOperation
<1> QED
  BY <1>3, <1>4 DEF RequestDelete

LEMMA OwnerStep ==
  ASSUME IInv, Owner
  PROVE  IInv'
BY ClaimPowerStep, BeginSnapshotStep, BeginRestoreStep, InvalidateDesktopStep, PowerScriptStep,
   SnapshotScriptStep, RestoreScriptStep, SettleAnswerStep, ReleaseRefusedStep,
   RequestDeleteStep, DeleteDestroyStep, DeleteFinishStep, DeleteAbortStep, WorkerCrashStep
   DEF Owner

-----------------------------------------------------------------------------
(* The poll.                                                               *)

LEMMA PollMove ==
  ASSUME IInv, DbGood, HostEvolves, PollAlone, PollType', PollMatch', poll'.op <= last,
         post.step \notin EarlySteps, Active => poll'.op # worker.op,
         row' = row \/ row.op = poll.op
  PROVE  IInv'
<1>1. UNCHANGED <<last, stale, exact, post, worker, sweep>>
  BY DEF PollAlone, clockVars
<1>2. Active => row' = row
  BY DEF IInv, WorkerLease
<1>3. /\ worker.op <= last /\ \A s \in Sweepers : sweep[s].op <= last
      /\ stale \in BOOLEAN /\ exact \subseteq Sweepers /\ PostType /\ WorkerType /\ SweepType
  BY DEF IInv, IdsInOrder, StateType
<1>4. PostType' /\ WorkerType' /\ SweepType'
  BY <1>1, <1>3 DEF PostType, WorkerType, SweepType
<1>5. EarlyAlone'
  BY <1>1 DEF EarlyAlone
<1>6. WorkerLease' /\ WorkerShape'
  BY <1>1, <1>2 DEF IInv, WorkerLease, WorkerShape, Active
<1>7. SweepsGood' /\ PointsStored' /\ Reconciling' /\ OneReconciler'
  BY <1>1, SweepKept, PointsStoredKept, ClockKept DEF DbGood, SweepsGood
<1>8. Active' => Active
  BY <1>1 DEF Active
<1> QED
  BY <1>1, <1>3, <1>4, <1>5, <1>6, <1>7, <1>8, Move

LEMMA PollDone ==
  ASSUME IInv, poll.step # "idle", DbGood, HostEvolves, PollAlone, PollEnds,
         row' = row \/ row.op = poll.op
  PROVE  IInv'
<1>1. IdlePoll \in [step : PollSteps, op : Ops, kind : Kinds, vmid : Vmids, desired : Desires]
  BY RowTyped DEF IdlePoll, PollSteps, Kinds, Vmids, Desires, Power
<1>2. PollType' /\ poll'.step = "idle" /\ poll'.op = 0
  BY <1>1 DEF PollEnds, PollType, IdlePoll
<1>3. PollMatch' /\ poll'.op <= last
  BY <1>2, RowTyped DEF PollMatch, Ops
<1>4. post.step \notin EarlySteps /\ (Active => poll'.op # worker.op)
  BY <1>2, RowTyped DEF IInv, EarlyAlone, WorkerLease
<1> QED
  BY <1>2, <1>3, <1>4, PollMove

LEMMA PollGoesOn ==
  ASSUME IInv, poll.step # "idle", KeepRow, HostEvolves, PollAlone,
         NEW step \in PollSteps \ {"idle"}, PollTo(step)
  PROVE  IInv'
<1>1. poll \in [step : PollSteps, op : Ops, kind : Kinds, vmid : Vmids, desired : Desires]
  BY DEF IInv, StateType, PollType
<1>2. PollType' /\ poll'.step = step /\ poll'.op = poll.op /\ poll'.kind = poll.kind
  BY <1>1 DEF PollTo, PollType
<1>3. DbGood /\ row' = row
  BY KeepDb
<1>4. PollMatch' /\ poll'.op <= last
  BY <1>2, <1>3 DEF IInv, PollMatch, IdsInOrder
<1>5. post.step \notin EarlySteps /\ (Active => poll'.op # worker.op)
  BY <1>2 DEF IInv, EarlyAlone, WorkerLease
<1> QED
  BY <1>2, <1>3, <1>4, <1>5, PollMove

LEMMA PollReadStep ==
  ASSUME IInv, PollRead
  PROVE  IInv'
<1>1. /\ row.status = "provisioning" /\ row.vmid # NoVm
      /\ row.kind \in StartLike \cup {"provision"}
      /\ poll' = [step |-> "check", op |-> row.op, kind |-> row.kind, vmid |-> row.vmid,
                  desired |-> row.desired]
      /\ KeepRow /\ KeepHost /\ PollAlone
  BY DEF PollRead, PollQuiet
<1>2. DbGood /\ row' = row /\ HostEvolves
  BY <1>1, KeepDb, KeepHostEvolves
<1>3. PollType'
  BY <1>1, RowTyped DEF PollType, PollSteps, Rows
<1>4. PollMatch' /\ poll'.op <= last
  BY <1>1, <1>2, RowTyped DEF IInv, PollMatch, IdsInOrder, StartLike
<1>5. post.step \notin EarlySteps
  BY <1>1 DEF IInv, EarlyAlone
<1>6. ~Active
  BY <1>1 DEF IInv, WorkerLease, StartLike
<1> QED
  BY <1>1, <1>2, <1>3, <1>4, <1>5, <1>6, PollMove

(* The steps of a poll that only look at the row, the host or its log.     *)
LEMMA PollLooksStep ==
  ASSUME IInv, PollCheckpoint \/ PollLog
  PROVE  IInv'
<1>1. KeepRow /\ KeepHost /\ PollAlone /\ poll.step # "idle"
  BY DEF PollCheckpoint, PollLog, PollAt, PollQuiet
<1>2. CASE PollEnds
  BY <1>1, <1>2, KeepDb, KeepHostEvolves, PollDone
<1>3. CASE \E step \in {"log", "cancel", "running", "error"} : PollTo(step)
  <2>1. PICK step \in {"log", "cancel", "running", "error"} : PollTo(step)
    BY <1>3
  <2>2. step \in PollSteps \ {"idle"}
    BY DEF PollSteps
  <2> QED
    BY <1>1, <2>1, <2>2, KeepHostEvolves, PollGoesOn
<1> QED
  BY <1>2, <1>3 DEF PollCheckpoint, PollLog

LEMMA PollCancelStep ==
  ASSUME IInv, PollCancel
  PROVE  IInv'
<1>1. KeepRow /\ PollAlone /\ poll.step # "idle"
  BY DEF PollCancel, PollAt, PollQuiet
<1>2. HostEvolves
  BY KeepHostEvolves, DestroyWithLogsEvolves DEF PollCancel
<1>3. CASE PollEnds
  BY <1>1, <1>2, <1>3, KeepDb, PollDone
<1>4. CASE PollTo("cancel_row")
  <2>1. "cancel_row" \in PollSteps \ {"idle"}
    BY DEF PollSteps
  <2> QED
    BY <1>1, <1>2, <1>4, <2>1, PollGoesOn
<1> QED
  BY <1>3, <1>4 DEF PollCancel

LEMMA PollCompleteDeleteStep ==
  ASSUME IInv, PollCompleteDelete
  PROVE  IInv'
<1>1. KeepHost /\ PollAlone /\ PollEnds /\ poll.step # "idle"
  BY DEF PollCompleteDelete, PollAt, PollQuiet
<1>2. PICK ok \in BOOLEAN : CompleteDelete(poll.op, ok)
  BY DEF PollCompleteDelete
<1>3. poll.op # 0
  BY <1>1 DEF IInv, PollMatch
<1>4. DbGood /\ (row' = row \/ row.op = poll.op)
  BY <1>2, <1>3, DeleteDb
<1> QED
  BY <1>1, <1>4, KeepHostEvolves, PollDone

LEMMA PollConvergeStep ==
  ASSUME IInv, PollConverge
  PROVE  IInv'
<1>1. KeepHost /\ PollAlone /\ PollEnds /\ poll.step # "idle"
  BY DEF PollConverge, PollAt, PollQuiet
<1>2. /\ poll.op # 0 /\ poll.kind \in StartLike \cup {"provision"}
      /\ poll.op = row.op => poll.kind = row.kind
  BY <1>1 DEF IInv, PollMatch
<1>3. PICK ok \in BOOLEAN : \/ CompleteRunning(poll.op, poll.kind, ok)
                            \/ Release(poll.op, TRUE, ok)
  BY DEF PollConverge
<1>4. CASE CompleteRunning(poll.op, poll.kind, ok)
  <2>1. poll.kind \notin PointKinds
    BY <1>2 DEF StartLike, PointKinds
  <2> QED
    BY <1>1, <1>2, <1>4, <2>1, RunningDb, KeepHostEvolves, PollDone
<1>5. CASE Release(poll.op, TRUE, ok)
  <2>1. row.op = poll.op =>
          /\ TRUE \/ row.status # "provisioning" \/ row.desired = "deleted"
          /\ row.kind \in PointKinds => row.desired = "deleted"
    BY <1>2 DEF StartLike, PointKinds
  <2>2. DbGood /\ (row' = row \/ row.op = poll.op)
    BY <1>2, <1>5, <2>1, ReleaseDb, Zenon
  <2> QED
    BY <1>1, <2>2, KeepHostEvolves, PollDone
<1> QED
  BY <1>3, <1>4, <1>5

LEMMA PollStep ==
  ASSUME IInv, Poll
  PROVE  IInv'
BY PollReadStep, PollLooksStep, PollCancelStep, PollCompleteDeleteStep, PollConvergeStep DEF Poll

-----------------------------------------------------------------------------
(* The host, the clock and the neighbours.                                 *)

LEMMA Nothing ==
  ASSUME IInv, HostEvolves, stale' \in BOOLEAN, stale' => ~Active /\ \A s \in Sweepers : ~Working(s),
         stale' = TRUE => post.step \notin EarlySteps,
         UNCHANGED <<row, snaps, restored, last, exact, post, worker, poll, sweep>>
  PROVE  IInv'
<1>1. DbGood
  BY KeepDb DEF KeepRow, dbVars
<1>2. /\ poll.op <= last /\ worker.op <= last /\ \A s \in Sweepers : sweep[s].op <= last
      /\ exact \subseteq Sweepers /\ PostType /\ WorkerType /\ PollType /\ SweepType
  BY DEF IInv, IdsInOrder, StateType
<1>3. PostType' /\ WorkerType' /\ PollType' /\ SweepType'
  BY <1>2 DEF PostType, WorkerType, PollType, SweepType
<1>4. EarlyAlone' /\ WorkerLease' /\ WorkerShape'
  BY DEF IInv, EarlyAlone, WorkerLease, WorkerShape, Active
<1>5. PollMatch' /\ SweepsGood' /\ PointsStored'
  BY <1>1, PollKept, SweepKept, PointsStoredKept DEF DbGood, SweepsGood
<1>6. Reconciling' /\ OneReconciler' /\ (Active' => Active)
  BY DEF IInv, Reconciling, OneReconciler, Working, Active
<1> QED
  BY <1>1, <1>2, <1>3, <1>4, <1>5, <1>6, Move

LEMMA HostStep ==
  ASSUME IInv, InstallerFinishes \/ HelperFinishes \/ ForeignAppears
  PROVE  IInv'
<1>1. UNCHANGED <<dbVars, clockVars, vm, stored, applied, intent, post, worker, poll, sweep>>
  BY DEF InstallerFinishes, HelperFinishes, ForeignAppears
<1>2. foreign' \subseteq Slots
  BY DEF InstallerFinishes, HelperFinishes, ForeignAppears, IInv, StateType, HostType
<1>3. installed' \in Markers
  BY DEF InstallerFinishes, HelperFinishes, ForeignAppears, IInv, StateType, HostType, Markers
<1>4. log' \in [op : Ops, result : Markers]
  <2>1. log \in [op : Ops, result : Markers]
    BY DEF IInv, StateType, HostType
  <2>2. CASE HelperFinishes
    BY <2>1, <2>2 DEF HelperFinishes, Markers
  <2>3. CASE InstallerFinishes \/ ForeignAppears
    BY <2>1, <2>3 DEF InstallerFinishes, ForeignAppears
  <2> QED
    BY <2>2, <2>3
<1>5. HostEvolves
  BY <1>1, <1>2, <1>3, <1>4 DEF IInv, StateType, VmType, HostType, HostEvolves
<1>6. UNCHANGED <<row, snaps, restored, last, exact, stale>>
  BY <1>1 DEF dbVars, clockVars
<1>7. /\ stale \in BOOLEAN
      /\ stale => ~Active /\ \A s \in Sweepers : ~Working(s)
      /\ stale => post.step \notin EarlySteps
  BY DEF IInv, StateType, WorkerLease, Reconciling, EarlyAlone
<1> QED
  BY <1>1, <1>5, <1>6, <1>7, Nothing

LEMMA GoesStaleStep ==
  ASSUME IInv, GoesStale
  PROVE  IInv'
<1>1. /\ row.op = 1 => post.step = "done"
      /\ worker.op # row.op
      /\ \A s \in Sweepers : sweep[s].step \in {"idle", "read"}
      /\ UNCHANGED <<dbVars, last, exact, hostVars, ghostVars, post, worker, poll, sweep>>
  BY DEF GoesStale
<1>2. stale' \in BOOLEAN
  BY DEF GoesStale
<1>3. UNCHANGED <<row, snaps, restored>> /\ KeepHost
  BY <1>1 DEF dbVars, KeepHost
<1>4. ~Active /\ (\A s \in Sweepers : ~Working(s)) /\ post.step \notin EarlySteps
  BY <1>1 DEF IInv, WorkerLease, Working, EarlyAlone, EarlySteps
<1> QED
  BY <1>1, <1>2, <1>3, <1>4, KeepHostEvolves, Nothing

-----------------------------------------------------------------------------
(* The recovery sweeps.                                                    *)

SweepRows == [step : {"idle", "read", "claimed", "apply"}, op : Ops, kind : Kinds, vmid : Vmids,
              snap : Points, status : Statuses, desired : Desires, power : Power,
              plan : Seq(Calls)]

LEMMA SweepTyped ==
  ASSUME IInv
  PROVE  sweep \in [Sweepers -> SweepRows]
BY DEF IInv, StateType, SweepType, SweepRows

LEMMA SweepEffect ==
  ASSUME IInv, NEW s \in Sweepers, NEW r \in SweepRows, SweepTo(s, r)
  PROVE  /\ SweepType' /\ sweep'[s] = r
         /\ \A t \in Sweepers : t # s => sweep'[t] = sweep[t]
BY SweepTyped DEF SweepTo, SweepType, SweepRows

LEMMA SweepMove ==
  ASSUME IInv, NEW s \in Sweepers, NEW r \in SweepRows, SweepTo(s, r), SweepAlone,
         DbGood, HostEvolves, stale' \in BOOLEAN, exact' \subseteq Sweepers, r.op <= last,
         SweepMatch(s)', PlanShape(s)', Reconciling', OneReconciler',
         post.step \notin EarlySteps, row' = row \/ row.op = sweep[s].op,
         Active => r.op # worker.op /\ ~stale',
         r.step = "apply" /\ r.plan = <<"snapshot">> /\ vm'.slot # NoVm => stored'[r.snap] # Absent
  PROVE  IInv'
<1>1. UNCHANGED <<last, post, worker, poll>>
  BY DEF SweepAlone
<1>2. SweepType' /\ sweep'[s] = r /\ \A t \in Sweepers : t # s => sweep'[t] = sweep[t]
  BY SweepEffect
<1>3. Active => row' = row
  BY DEF IInv, WorkerLease
<1>4. /\ worker.op <= last /\ poll.op <= last /\ \A t \in Sweepers : sweep[t].op <= last
      /\ PostType /\ WorkerType /\ PollType
  BY DEF IInv, IdsInOrder, StateType
<1>5. PostType' /\ WorkerType' /\ PollType'
  BY <1>1, <1>4 DEF PostType, WorkerType, PollType
<1>6. EarlyAlone'
  BY <1>1 DEF EarlyAlone
<1>7. WorkerLease' /\ WorkerShape'
  BY <1>1, <1>2, <1>3 DEF IInv, WorkerLease, WorkerShape, Active
<1>8. PollMatch' /\ SweepsGood'
  BY <1>1, <1>2, PollKept, SweepKept DEF DbGood, SweepsGood
<1>9. PointsStored'
  <2>1. worker.step = "settle" /\ worker.kind = "snapshot" /\ vm'.slot # NoVm
          => stored'[worker.snap] # Absent
    <3>1. worker.step = "settle" /\ worker.kind = "snapshot" => worker.snap \in Snapshots /\ last # 1
      BY DEF IInv, IdsInOrder, WorkerLease, RowShape, PointKinds, Active
    <3> QED
      BY <3>1 DEF HostEvolves, IInv, PointsStored
  <2>2. ASSUME NEW t \in Sweepers, t # s, sweep[t].step = "apply", sweep[t].plan = <<"snapshot">>,
               vm'.slot # NoVm
        PROVE  stored'[sweep[t].snap] # Absent
    BY <2>2, SnapshotPlanned DEF HostEvolves, IInv, PointsStored
  <2> QED
    BY <1>1, <1>2, <2>1, <2>2 DEF PointsStored
<1>10. \A t \in Sweepers : sweep'[t].op <= last
  BY <1>2, <1>4
<1>11. Active' => Active
  BY <1>1 DEF Active
<1> QED
  BY <1>1, <1>2, <1>4, <1>5, <1>6, <1>7, <1>8, <1>9, <1>10, <1>11, Move

(* A sweep that does not take an operation over now.                       *)
LEMMA SweepClock ==
  ASSUME IInv, NEW s \in Sweepers, NEW r \in SweepRows, SweepTo(s, r),
         r.step \in {"claimed", "apply"} => Working(s),
         stale' = stale, exact' \subseteq exact
  PROVE  Reconciling' /\ OneReconciler'
<1>1. sweep'[s] = r /\ \A t \in Sweepers : t # s => sweep'[t] = sweep[t]
  BY SweepEffect
<1>2. \A t \in Sweepers : sweep'[t].step \in {"claimed", "apply"} => Working(t)
  BY <1>1 DEF Working
<1> QED
  BY <1>2 DEF IInv, Reconciling, OneReconciler, Working

LEMMA SweepDone ==
  ASSUME IInv, NEW s \in Sweepers, sweep[s].step # "idle", SweepEnds(s), SweepAlone,
         DbGood, HostEvolves, row' = row \/ row.op = sweep[s].op,
         stale' = stale, exact' \subseteq exact
  PROVE  IInv'
<1>1. IdleSweep \in SweepRows /\ IdleSweep.step = "idle" /\ IdleSweep.op = 0
  BY RowTyped DEF IdleSweep, SweepRows, Kinds, Vmids, Points, Statuses, Desires, Power
<1>2. SweepTo(s, IdleSweep)
  BY DEF SweepEnds
<1>3. sweep'[s] = IdleSweep
  BY <1>1, <1>2, SweepEffect
<1>4. SweepMatch(s)' /\ PlanShape(s)'
  BY <1>1, <1>3 DEF SweepMatch, PlanShape
<1>5. Reconciling' /\ OneReconciler'
  BY <1>1, <1>2, SweepClock
<1>6. stale' \in BOOLEAN /\ exact' \subseteq Sweepers /\ IdleSweep.op <= last
  BY <1>1, RowTyped DEF IInv, StateType, Ops
<1>7. post.step \notin EarlySteps
  BY DEF IInv, EarlyAlone
<1>8. Active => IdleSweep.op # worker.op /\ ~stale'
  BY <1>1, RowTyped DEF IInv, WorkerLease
<1> QED
  BY <1>1, <1>2, <1>4, <1>5, <1>6, <1>7, <1>8, SweepMove

(* A sweep goes on with the operation it took over.                        *)
LEMMA SweepGoesOn ==
  ASSUME IInv, NEW s \in Sweepers, Working(s), NEW r \in SweepRows, SweepTo(s, r), SweepAlone,
         KeepClock, DbGood, HostEvolves, row' = row \/ row.op = sweep[s].op,
         r.op = sweep[s].op, r.kind = sweep[s].kind, r.snap = sweep[s].snap,
         r.desired = sweep[s].desired, r.step \in {"claimed", "apply"},
         r.step = "apply" => /\ r.plan \in PlansFor(r.kind)
                             /\ r.plan = <<"release">> => Superseded(s),
         r.step = "apply" /\ r.plan = <<"snapshot">> /\ vm'.slot # NoVm => stored'[r.snap] # Absent
  PROVE  IInv'
<1>1. sweep'[s] = r
  BY SweepEffect
<1>2. /\ sweep[s].op <= last /\ sweep[s].op \in Nat /\ last \in Nat /\ SweepMatch(s)
      /\ sweep[s].step # "idle"
  BY DEF IInv, SweepsGood, IdsInOrder, StateType, SweepType, Ops, Working
<1>3. SweepMatch(s)'
  BY <1>1, <1>2 DEF SweepMatch, DbGood, RowEvolves, Superseded
<1>4. PlanShape(s)'
  BY <1>1 DEF PlanShape, Superseded
<1>5. Reconciling' /\ OneReconciler'
  BY SweepClock DEF KeepClock
<1>6. stale' \in BOOLEAN /\ exact' \subseteq Sweepers /\ r.op <= last
  BY <1>2 DEF IInv, StateType, KeepClock
<1>7. post.step \notin EarlySteps
  BY <1>2 DEF IInv, EarlyAlone
<1>8. Active => r.op # worker.op /\ ~stale'
  BY DEF IInv, WorkerLease, KeepClock
<1> QED
  BY <1>3, <1>4, <1>5, <1>6, <1>7, <1>8, SweepMove

LEMMA PlansTyped ==
  ASSUME NEW kind, NEW plan \in PlansFor(kind)
  PROVE  plan \in Seq(Calls)
<1>1. plan \in SnapshotPlans \/ plan \in RestorePlans \/ plan \in OtherPlans
  BY DEF PlansFor
<1>2. (\A c \in Calls : <<c>> \in Seq(Calls)) /\ \A c, d \in Calls : <<c, d>> \in Seq(Calls)
  OBVIOUS
<1>3. (\E c \in Calls : plan = <<c>>) \/ \E c, d \in Calls : plan = <<c, d>>
  BY <1>1 DEF SnapshotPlans, RestorePlans, OtherPlans, Calls
<1> QED
  BY <1>2, <1>3

LEMMA SweepPlansStep ==
  ASSUME IInv, NEW s \in Sweepers, Working(s), NEW plan \in PlansFor(sweep[s].kind),
         NEW power \in Power, SweepPlans(s, plan, power), SweepAlone, KeepClock, KeepRow, HostEvolves,
         plan = <<"release">> => Superseded(s),
         plan = <<"snapshot">> => KeepHost /\ stored[sweep[s].snap] # Absent
  PROVE  IInv'
<1> DEFINE r == [sweep[s] EXCEPT !.step = "apply", !.plan = plan, !.power = power]
<1>1. plan \in Seq(Calls) /\ sweep[s] \in SweepRows
  BY PlansTyped, SweepTyped
<1>2. /\ r \in SweepRows /\ r.op = sweep[s].op /\ r.kind = sweep[s].kind /\ r.snap = sweep[s].snap
      /\ r.desired = sweep[s].desired /\ r.step = "apply" /\ r.plan = plan
  BY <1>1 DEF SweepRows
<1>3. SweepTo(s, r)
  BY DEF SweepPlans
<1> HIDE DEF r
<1>4. DbGood /\ row' = row
  BY KeepDb
<1>5. plan = <<"snapshot">> => stored'[r.snap] # Absent
  BY <1>2 DEF KeepHost, hostVars
<1> QED
  BY <1>2, <1>3, <1>4, <1>5, SweepGoesOn

LEMMA SweepReadStep ==
  ASSUME IInv, NEW s \in Sweepers, SweepRead(s)
  PROVE  IInv'
<1> DEFINE r == [step |-> "read", op |-> row.op, kind |-> row.kind, vmid |-> row.vmid,
                 snap |-> row.snap, status |-> row.status, desired |-> row.desired,
                 power |-> "stopped", plan |-> <<>>]
<1>1. /\ row.op # 0 /\ stale /\ SweepTo(s, r) /\ exact' = exact \cup {s} /\ stale' = stale
      /\ KeepRow /\ KeepHost /\ SweepAlone
  BY DEF SweepRead, SweepQuiet
<1>2. /\ r \in SweepRows /\ r.step = "read" /\ r.op = row.op /\ r.kind = row.kind
      /\ r.snap = row.snap /\ r.desired = row.desired
  BY RowTyped DEF Rows, SweepRows, Power
<1> HIDE DEF r
<1>3. DbGood /\ row' = row /\ HostEvolves
  BY <1>1, KeepDb, KeepHostEvolves
<1>4. sweep'[s] = r /\ \A t \in Sweepers : t # s => sweep'[t] = sweep[t]
  BY <1>1, <1>2, SweepEffect
<1>5. SweepMatch(s)' /\ PlanShape(s)'
  BY <1>1, <1>2, <1>3, <1>4 DEF SweepMatch, PlanShape, Superseded, IInv, IdsInOrder, RowShape
<1>6. \A t \in Sweepers : sweep'[t].step \notin {"claimed", "apply"}
  BY <1>1, <1>2, <1>4 DEF IInv, Reconciling, Working
<1>7. Reconciling' /\ OneReconciler'
  BY <1>6 DEF Reconciling, OneReconciler, Working
<1>8. stale' \in BOOLEAN /\ exact' \subseteq Sweepers /\ r.op <= last
  BY <1>1, <1>2 DEF IInv, StateType, IdsInOrder
<1>9. post.step \notin EarlySteps /\ ~Active
  BY <1>1 DEF IInv, EarlyAlone, WorkerLease
<1> QED
  BY <1>1, <1>2, <1>3, <1>5, <1>7, <1>8, <1>9, SweepMove

LEMMA SweepClaimStep ==
  ASSUME IInv, NEW s \in Sweepers, SweepClaim(s)
  PROVE  IInv'
<1>1. sweep[s].step = "read" /\ KeepRow /\ KeepHost /\ SweepAlone
  BY DEF SweepClaim, SweepQuiet
<1>2. DbGood /\ row' = row /\ HostEvolves
  BY <1>1, KeepDb, KeepHostEvolves
<1>3. CASE ~Renewable(s)
  BY <1>1, <1>2, <1>3, SweepDone DEF SweepClaim
<1>4. CASE Renewable(s)
  <2> DEFINE r == [sweep[s] EXCEPT !.step = "claimed"]
  <2>1. s \in exact /\ stale' = FALSE /\ exact' = {} /\ SweepTo(s, r)
    BY <1>4 DEF SweepClaim, Renewable
  <2>2. /\ r \in SweepRows /\ r.step = "claimed" /\ r.op = sweep[s].op
        /\ r.kind = sweep[s].kind /\ r.snap = sweep[s].snap /\ r.desired = sweep[s].desired
    BY SweepTyped DEF SweepRows
  <2> HIDE DEF r
  <2>3. sweep'[s] = r /\ \A t \in Sweepers : t # s => sweep'[t] = sweep[t]
    BY <2>1, <2>2, SweepEffect
  <2>4. \A t \in Sweepers : ~Working(t)
    BY <2>1 DEF IInv, Reconciling
  <2>5. Reconciling' /\ OneReconciler'
    BY <2>1, <2>3, <2>4 DEF Reconciling, OneReconciler, Working
  <2>6. SweepMatch(s) /\ sweep[s].op <= last
    BY DEF IInv, SweepsGood, IdsInOrder
  <2>7. SweepMatch(s)' /\ PlanShape(s)'
    BY <1>1, <1>2, <2>2, <2>3, <2>6 DEF SweepMatch, PlanShape, Superseded
  <2>8. stale' \in BOOLEAN /\ exact' \subseteq Sweepers
    BY <2>1
  <2>9. post.step \notin EarlySteps /\ (Active => r.op # worker.op)
    BY <1>1, <2>2 DEF IInv, EarlyAlone, WorkerLease
  <2> QED
    BY <1>1, <1>2, <2>1, <2>2, <2>5, <2>6, <2>7, <2>8, <2>9, SweepMove
<1> QED
  BY <1>3, <1>4

LEMMA OtherPlan ==
  ASSUME NEW s, sweep[s].kind \notin PointKinds, NEW plan \in OtherPlans
  PROVE  /\ plan \in PlansFor(sweep[s].kind) /\ plan # <<"snapshot">>
BY DEF OtherPlans, PlansFor, PointKinds

LEMMA SweepIntentStep ==
  ASSUME IInv, NEW s \in Sweepers, SweepIntent(s)
  PROVE  IInv'
<1> DEFINE plan == <<IF Superseded(s) THEN "delete" ELSE "error">>
<1>1. /\ Working(s) /\ sweep[s].step = "claimed" /\ sweep[s].kind = "provision"
      /\ KeepHost /\ KeepClock /\ SweepAlone
  BY DEF SweepIntent, Claimed, Working, SweepQuiet
<1>2. HostEvolves
  BY <1>1, KeepHostEvolves
<1>3. CASE SweepPlans(s, plan, "stopped") /\ KeepRow
  <2>1. plan \in OtherPlans /\ plan # <<"release">> /\ "stopped" \in Power
    BY DEF OtherPlans, Power
  <2>2. sweep[s].kind \notin PointKinds
    BY <1>1 DEF PointKinds
  <2> HIDE DEF plan
  <2>3. plan \in PlansFor(sweep[s].kind) /\ plan # <<"snapshot">>
    BY <2>1, <2>2, OtherPlan
  <2> QED
    BY <1>1, <1>2, <1>3, <2>1, <2>3, SweepPlansStep
<1>4. CASE Persist(sweep[s].op, intent, TRUE) /\ SweepTo(s, [sweep[s] EXCEPT !.vmid = intent])
  <2> DEFINE r == [sweep[s] EXCEPT !.vmid = intent]
  <2>1. intent \in Vmids /\ sweep[s].op # 0
    BY <1>1 DEF IInv, StateType, HostType, SweepsGood, SweepMatch
  <2>2. DbGood /\ (row' = row \/ row.op = sweep[s].op)
    BY <1>4, <2>1, PersistDb
  <2>3. /\ r \in SweepRows /\ r.step = "claimed" /\ r.op = sweep[s].op
        /\ r.kind = sweep[s].kind /\ r.snap = sweep[s].snap /\ r.desired = sweep[s].desired
    BY <1>1, <2>1, SweepTyped DEF SweepRows
  <2> HIDE DEF r
  <2>4. SweepTo(s, r)
    BY <1>4 DEF r
  <2> QED
    BY <1>1, <1>2, <2>2, <2>3, <2>4, SweepGoesOn
<1>5. ASSUME NEW ok \in BOOLEAN, Persist(sweep[s].op, intent, ok), ~ok PROVE KeepRow
  BY <1>5 DEF Persist, KeepRow, dbVars
<1>6. ASSUME NEW ok \in BOOLEAN, Persist(sweep[s].op, intent, ok), ok
      PROVE  Persist(sweep[s].op, intent, TRUE)
  BY <1>6 DEF Persist
<1> HIDE DEF plan
<1>7. CASE SweepPlans(s, plan, "stopped") /\ KeepRow
  BY <1>3, <1>7
<1>8. CASE \E ok \in BOOLEAN :
             /\ Persist(sweep[s].op, intent, ok)
             /\ IF ok THEN SweepTo(s, [sweep[s] EXCEPT !.vmid = intent])
                      ELSE SweepPlans(s, plan, "stopped")
  <2>1. PICK ok \in BOOLEAN :
             /\ Persist(sweep[s].op, intent, ok)
             /\ IF ok THEN SweepTo(s, [sweep[s] EXCEPT !.vmid = intent])
                      ELSE SweepPlans(s, plan, "stopped")
    BY <1>8
  <2>2. CASE ok
    BY <1>4, <1>6, <2>1, <2>2
  <2>3. CASE ~ok
    BY <1>3, <1>5, <2>1, <2>3
  <2> QED
    BY <2>2, <2>3
<1> QED
  BY <1>7, <1>8 DEF SweepIntent, plan

LEMMA SweepTeardownStep ==
  ASSUME IInv, NEW s \in Sweepers, SweepTeardown(s)
  PROVE  IInv'
<1>1. /\ Working(s) /\ sweep[s].step # "idle" /\ sweep[s].kind \notin PointKinds
      /\ KeepRow /\ KeepClock /\ SweepAlone
  BY DEF SweepTeardown, Claimed, Working, PointKinds, SweepQuiet
<1>2. HostEvolves
  BY KeepHostEvolves, DestroyWithLogsEvolves DEF SweepTeardown
<1>3. CASE SweepEnds(s)
  BY <1>1, <1>2, <1>3, KeepDb, SweepDone DEF KeepClock
<1>4. CASE SweepPlans(s, <<"delete">>, "stopped")
  <2>1. <<"delete">> \in OtherPlans /\ <<"delete">> # <<"release">> /\ "stopped" \in Power
    BY DEF OtherPlans, Power
  <2>2. <<"delete">> \in PlansFor(sweep[s].kind) /\ <<"delete">> # <<"snapshot">>
    BY <1>1, <2>1, OtherPlan
  <2> QED
    BY <1>1, <1>2, <1>4, <2>1, <2>2, SweepPlansStep
<1> QED
  BY <1>3, <1>4 DEF SweepTeardown

LEMMA SweepLetGoStep ==
  ASSUME IInv, NEW s \in Sweepers, SweepLetGo(s)
  PROVE  IInv'
<1>1. /\ Working(s) /\ Superseded(s) /\ SweepPlans(s, <<"release">>, "stopped")
      /\ KeepRow /\ KeepHost /\ KeepClock /\ SweepAlone
  BY DEF SweepLetGo, Claimed, Working, SweepQuiet
<1>2. /\ <<"release">> \in PlansFor(sweep[s].kind) /\ <<"release">> # <<"snapshot">>
      /\ "stopped" \in Power
  BY DEF PlansFor, SnapshotPlans, RestorePlans, OtherPlans, Power
<1> QED
  BY <1>1, <1>2, KeepHostEvolves, SweepPlansStep

LEMMA SweepObserveStep ==
  ASSUME IInv, NEW s \in Sweepers, SweepObserve(s)
  PROVE  IInv'
<1>1. /\ Working(s) /\ sweep[s].kind \in {"snapshot", "restore"}
      /\ SweepPlans(s, SnapshotPlan(s), vm.power)
      /\ KeepRow /\ KeepHost /\ KeepClock /\ SweepAlone
  BY DEF SweepObserve, Claimed, Working, SweepQuiet
<1>2. /\ SnapshotPlan(s) \in PlansFor(sweep[s].kind)
      /\ SnapshotPlan(s) # <<"release">>
      /\ SnapshotPlan(s) = <<"snapshot">> => stored[sweep[s].snap] # Absent
  BY <1>1 DEF SnapshotPlan, PlansFor, SnapshotPlans, RestorePlans
<1>3. vm.power \in Power
  BY DEF IInv, StateType, VmType
<1> QED
  BY <1>1, <1>2, <1>3, KeepHostEvolves, SweepPlansStep

LEMMA SweepProbeStep ==
  ASSUME IInv, NEW s \in Sweepers, SweepProbe(s)
  PROVE  IInv'
<1>1. /\ Working(s) /\ sweep[s].step # "idle" /\ sweep[s].kind \notin PointKinds
      /\ KeepRow /\ KeepHost /\ KeepClock /\ SweepAlone
  BY DEF SweepProbe, Claimed, Working, PointKinds, StartLike, SweepQuiet
<1>2. PICK plan \in ProbePlans(s) :
        IF plan = <<>> THEN SweepEnds(s) ELSE SweepPlans(s, plan, vm.power)
  BY DEF SweepProbe
<1>3. HostEvolves /\ vm.power \in Power
  BY <1>1, KeepHostEvolves DEF IInv, StateType, VmType
<1>4. CASE plan = <<>>
  BY <1>1, <1>2, <1>3, <1>4, KeepDb, SweepDone DEF KeepClock
<1>5. CASE plan # <<>>
  <2>1. SettlePlan(s) \in OtherPlans \ {<<"release">>} /\ RunningPlan(s) \in OtherPlans \ {<<"release">>}
    BY DEF SettlePlan, RunningPlan, OtherPlans
  <2>2. <<"error">> \in OtherPlans \ {<<"release">>} /\ <<"compensate">> \in OtherPlans \ {<<"release">>}
    BY DEF OtherPlans
  <2>3. plan \in {SettlePlan(s), RunningPlan(s), <<"error">>, <<"compensate">>}
    BY <1>5 DEF ProbePlans
  <2>4. plan \in OtherPlans /\ plan # <<"release">>
    BY <2>1, <2>2, <2>3
  <2>5. plan \in PlansFor(sweep[s].kind) /\ plan # <<"snapshot">>
    BY <1>1, <2>4, OtherPlan
  <2> QED
    BY <1>1, <1>2, <1>3, <1>5, <2>4, <2>5, SweepPlansStep
<1> QED
  BY <1>4, <1>5

(* Which operations a sweep's next call is for.                            *)
LEMMA PlannedCall ==
  ASSUME IInv, NEW s \in Sweepers, sweep[s].step = "apply"
  PROVE  LET plan == sweep[s].plan
             call == Head(plan)
             kind == sweep[s].kind
         IN /\ call = "snapshot" => plan = <<"snapshot">>
            /\ call = "snapshot_failed" => kind = "snapshot"
            /\ call \in {"restore", "restore_failed"} => kind = "restore"
            /\ call = "release" => Superseded(s)
            /\ call \in {"delete", "error", "running", "continue", "observed", "compensate",
                         "checkpoint"} => kind \notin PointKinds
            /\ Tail(plan) # <<>> => /\ call = "continue"
                                    /\ Tail(plan) \in {<<"running">>, <<"observed">>}
<1>1. /\ sweep[s].plan \in PlansFor(sweep[s].kind)
      /\ sweep[s].plan = <<"release">> => Superseded(s)
  BY DEF IInv, SweepsGood, PlanShape
<1>2. CASE sweep[s].kind = "snapshot"
  <2>1. PICK c \in {"snapshot", "snapshot_failed", "release"} : sweep[s].plan = <<c>>
    BY <1>1, <1>2 DEF PlansFor, SnapshotPlans
  <2>2. Head(sweep[s].plan) = c /\ Tail(sweep[s].plan) = <<>>
    BY <2>1
  <2> QED
    BY <1>1, <1>2, <2>1, <2>2
<1>3. CASE sweep[s].kind = "restore"
  <2>1. PICK c \in {"restore", "restore_failed", "release"} : sweep[s].plan = <<c>>
    BY <1>1, <1>3 DEF PlansFor, RestorePlans
  <2>2. Head(sweep[s].plan) = c /\ Tail(sweep[s].plan) = <<>>
    BY <2>1
  <2> QED
    BY <1>1, <1>3, <2>1, <2>2
<1>4. CASE sweep[s].kind \notin PointKinds
  <2>1. \/ \E c \in {"delete", "release", "error", "running", "observed", "compensate",
                     "checkpoint"} : sweep[s].plan = <<c>>
        \/ \E c \in {"running", "observed"} : sweep[s].plan = <<"continue", c>>
    BY <1>1, <1>4 DEF PlansFor, OtherPlans, PointKinds
  <2>2. CASE \E c \in {"delete", "release", "error", "running", "observed", "compensate",
                       "checkpoint"} : sweep[s].plan = <<c>>
    <3>1. PICK c \in {"delete", "release", "error", "running", "observed", "compensate",
                      "checkpoint"} : sweep[s].plan = <<c>>
      BY <2>2
    <3>2. Head(sweep[s].plan) = c /\ Tail(sweep[s].plan) = <<>>
      BY <3>1
    <3> QED
      BY <1>1, <1>4, <3>1, <3>2
  <2>3. CASE \E c \in {"running", "observed"} : sweep[s].plan = <<"continue", c>>
    <3>1. PICK c \in {"running", "observed"} : sweep[s].plan = <<"continue", c>>
      BY <2>3
    <3>2. Head(sweep[s].plan) = "continue" /\ Tail(sweep[s].plan) = <<c>>
      BY <3>1
    <3> QED
      BY <1>4, <3>1, <3>2
  <2> QED
    BY <2>1, <2>2, <2>3
<1> QED
  BY <1>2, <1>3, <1>4 DEF PointKinds

LEMMA SweepCompensateStep ==
  ASSUME IInv, NEW s \in Sweepers, SweepCompensate(s)
  PROVE  IInv'
<1>1. /\ Working(s) /\ sweep[s].step = "apply" /\ Head(sweep[s].plan) = "compensate"
      /\ KeepRow /\ KeepClock /\ SweepAlone
  BY DEF SweepCompensate, Planned, Working, SweepQuiet
<1>2. HostEvolves
  BY DestroyWithLogsEvolves DEF SweepCompensate
<1>3. sweep[s].kind \notin PointKinds
  BY <1>1, PlannedCall
<1>4. CASE SweepEnds(s)
  BY <1>1, <1>2, <1>4, KeepDb, SweepDone DEF KeepClock
<1>5. CASE SweepPlans(s, <<"checkpoint">>, "stopped")
  <2>1. /\ <<"checkpoint">> \in OtherPlans /\ <<"checkpoint">> # <<"release">>
        /\ "stopped" \in Power
    BY DEF OtherPlans, Power
  <2>2. <<"checkpoint">> \in PlansFor(sweep[s].kind) /\ <<"checkpoint">> # <<"snapshot">>
    BY <1>3, <2>1, OtherPlan
  <2> QED
    BY <1>1, <1>2, <1>5, <2>1, <2>2, SweepPlansStep
<1> QED
  BY <1>4, <1>5 DEF SweepCompensate

LEMMA SweepRecheckStep ==
  ASSUME IInv, NEW s \in Sweepers, SweepRecheck(s)
  PROVE  IInv'
<1>1. /\ Working(s) /\ sweep[s].step = "apply" /\ Head(sweep[s].plan) = "checkpoint"
      /\ KeepRow /\ KeepHost /\ KeepClock /\ SweepAlone
  BY DEF SweepRecheck, Planned, Working, SweepQuiet
<1>2. PICK plan \in {<<"error">>, <<"delete">>} : SweepPlans(s, plan, "stopped")
  BY DEF SweepRecheck
<1>3. sweep[s].kind \notin PointKinds
  BY <1>1, PlannedCall
<1>4. plan \in OtherPlans /\ plan # <<"release">> /\ "stopped" \in Power
  BY DEF OtherPlans, Power
<1>5. plan \in PlansFor(sweep[s].kind) /\ plan # <<"snapshot">>
  BY <1>3, <1>4, OtherPlan
<1> QED
  BY <1>1, <1>2, <1>4, <1>5, KeepHostEvolves, SweepPlansStep

LEMMA SweepFailsStep ==
  ASSUME IInv, NEW s \in Sweepers, SweepFails(s)
  PROVE  IInv'
BY KeepDb, KeepHostEvolves, SweepDone DEF SweepFails, SweepQuiet

(* Each stored function a sweep calls, on the operation it took over.      *)
LEMMA AppliesDb ==
  ASSUME IInv, NEW s \in Sweepers, sweep[s].step = "apply", NEW ok \in BOOLEAN,
         Applies(s, Head(sweep[s].plan), ok)
  PROVE  DbGood /\ (row' = row \/ row.op = sweep[s].op)
<1> DEFINE o == sweep[s].op
           n == sweep[s].snap
           power == sweep[s].power
           kind == sweep[s].kind
           call == Head(sweep[s].plan)
<1>1. SweepMatch(s) /\ o \in Ops /\ o # 0 /\ power \in Power
  BY SweepTyped DEF IInv, SweepsGood, SweepMatch, SweepRows
<1>2. /\ kind \in PointKinds => n \in Snapshots
      /\ o = row.op => kind = row.kind /\ (Superseded(s) => row.desired = "deleted")
  BY <1>1 DEF SweepMatch
<1>3. /\ call = "snapshot" => /\ sweep[s].plan = <<"snapshot">> /\ kind = "snapshot"
                              /\ n \in Snapshots
      /\ call = "snapshot_failed" => kind = "snapshot"
      /\ call \in {"restore", "restore_failed"} => kind = "restore"
      /\ call = "release" => Superseded(s)
      /\ call \in {"delete", "error", "running", "continue", "observed"} => kind \notin PointKinds
  BY PlannedCall, SnapshotPlanned
<1>4. CASE call = "delete" /\ CompleteDelete(o, ok)
  BY <1>1, <1>4, DeleteDb
<1>5. CASE call = "release" /\ Release(o, FALSE, ok)
  <2>1. row.op = o => row.desired = "deleted"
    BY <1>2, <1>3, <1>5
  <2> QED
    BY <1>1, <1>5, <2>1, ReleaseDb
<1>6. CASE call = "error" /\ Release(o, TRUE, ok)
  <2>1. row.op = o => /\ TRUE \/ row.status # "provisioning" \/ row.desired = "deleted"
                      /\ row.kind \in PointKinds => row.desired = "deleted"
    BY <1>2, <1>3, <1>6
  <2>2. o # 0
    BY <1>1
  <2> HIDE DEF o
  <2>3. DbGood /\ (row' = row \/ row.op = o)
    BY <1>6, <2>1, <2>2, ReleaseDb, Zenon
  <2> QED
    BY <2>3 DEF o
<1>7. CASE call = "running" /\ CompleteRunning(o, kind, ok)
  BY <1>1, <1>3, <1>7, RunningDb
<1>8. CASE call = "continue" /\ Continue(o, ok)
  BY <1>1, <1>8, ContinueDb
<1>9. CASE /\ call = "observed"
           /\ CompleteOperation(o, IF kind = "stop" THEN "stopped" ELSE "running", power, ok)
           /\ UNCHANGED <<snaps, restored>>
  <2>1. PICK expected \in Power : CompleteOperation(o, expected, power, ok)
    BY <1>9 DEF Power
  <2>2. row.op = o => row.kind \notin PointKinds
    BY <1>2, <1>3, <1>9
  <2> QED
    BY <1>1, <1>9, <2>1, <2>2, CompleteDb
<1>10. CASE call = "snapshot" /\ CompleteSnapshot(o, n, power, ok)
  <2>1. n \in Snapshots /\ (row.op = o => row.kind = "snapshot")
    BY <1>2, <1>3, <1>10
  <2>2. stored[n] # Absent \/ vm.slot = NoVm
    BY <1>3, <1>10 DEF IInv, PointsStored
  <2> QED
    BY <1>1, <1>10, <2>1, <2>2, SnapshotDb
<1>11. CASE call = "snapshot_failed" /\ FailSnapshot(o, n, power, ok)
  <2>1. n \in Snapshots
    BY <1>2, <1>3, <1>11 DEF PointKinds
  <2> QED
    BY <1>1, <1>11, <2>1, FailSnapshotDb
<1>12. CASE call = "restore" /\ CompleteRestore(o, n, ok)
  <2>1. n \in Snapshots /\ (row.op = o => row.kind = "restore")
    BY <1>2, <1>3, <1>12 DEF PointKinds
  <2> QED
    BY <1>1, <1>12, <2>1, RestoreDb
<1>13. CASE call = "restore_failed" /\ FailRestore(o, n, power, ok)
  <2>1. n \in Snapshots /\ (row.op = o => row.kind = "restore")
    BY <1>2, <1>3, <1>13 DEF PointKinds
  <2> QED
    BY <1>1, <1>13, <2>1, FailRestoreDb
<1> QED
  BY <1>4, <1>5, <1>6, <1>7, <1>8, <1>9, <1>10, <1>11, <1>12, <1>13 DEF Applies

LEMMA SweepApplyStep ==
  ASSUME IInv, NEW s \in Sweepers, SweepApply(s)
  PROVE  IInv'
<1>1. /\ Working(s) /\ sweep[s].step = "apply" /\ KeepHost /\ KeepClock /\ SweepAlone
  BY DEF SweepApply, Working, SweepQuiet
<1>2. PICK ok \in BOOLEAN :
        /\ Applies(s, Head(sweep[s].plan), ok)
        /\ IF ok /\ Tail(sweep[s].plan) # <<>>
             THEN SweepTo(s, [sweep[s] EXCEPT !.plan = Tail(@)])
             ELSE SweepEnds(s)
  BY DEF SweepApply
<1>3. DbGood /\ (row' = row \/ row.op = sweep[s].op)
  BY <1>1, <1>2, AppliesDb
<1>4. HostEvolves
  BY <1>1, KeepHostEvolves
<1>5. CASE SweepEnds(s)
  BY <1>1, <1>3, <1>4, <1>5, SweepDone DEF KeepClock
<1>6. CASE Tail(sweep[s].plan) # <<>> /\ SweepTo(s, [sweep[s] EXCEPT !.plan = Tail(@)])
  <2>1. /\ Tail(sweep[s].plan) \in {<<"running">>, <<"observed">>}
        /\ sweep[s].kind \notin PointKinds
    BY <1>1, <1>6, PlannedCall
  <2>2. PICK rest \in {<<"running">>, <<"observed">>} : rest = Tail(sweep[s].plan)
    BY <2>1
  <2>3. rest \in OtherPlans /\ rest # <<"release">>
    BY DEF OtherPlans
  <2>4. rest \in PlansFor(sweep[s].kind) /\ rest # <<"snapshot">>
    BY <2>1, <2>3, OtherPlan
  <2>5. rest \in Seq(Calls) /\ sweep[s] \in SweepRows
    BY <2>4, PlansTyped, SweepTyped
  <2> DEFINE r == [sweep[s] EXCEPT !.plan = rest]
  <2>6. /\ r \in SweepRows /\ r.op = sweep[s].op /\ r.kind = sweep[s].kind /\ r.snap = sweep[s].snap
        /\ r.desired = sweep[s].desired /\ r.step = "apply" /\ r.plan = rest
    BY <1>1, <2>5 DEF SweepRows
  <2>7. SweepTo(s, r)
    BY <1>6, <2>2
  <2> HIDE DEF r
  <2> QED
    BY <1>1, <1>3, <1>4, <2>3, <2>4, <2>6, <2>7, SweepGoesOn
<1> QED
  BY <1>2, <1>5, <1>6

LEMMA SweepStep ==
  ASSUME IInv, NEW s \in Sweepers, Sweep(s)
  PROVE  IInv'
BY SweepReadStep, SweepClaimStep, SweepIntentStep, SweepTeardownStep, SweepLetGoStep,
   SweepObserveStep, SweepProbeStep, SweepCompensateStep, SweepRecheckStep, SweepApplyStep,
   SweepFailsStep DEF Sweep

-----------------------------------------------------------------------------
(* The theorems.                                                           *)

LEMMA InitGood ==
  ASSUME Init
  PROVE  IInv
<1>1. 0 \in Ops /\ 1 \in Ops /\ 0 <= 1
  BY OpsAssumption DEF Ops
<1>2. StateType
  <2>1. RowType /\ SnapsType
    BY <1>1 DEF Init, RowType, SnapsType, Statuses, Desires, Power, Kinds, Points, Vmids
  <2>2. VmType /\ HostType
    BY <1>1 DEF Init, VmType, HostType, Gone, NoLog, Vmids, Power, Markers
  <2>3. PostType /\ WorkerType /\ PollType
    BY <1>1 DEF Init, PostType, WorkerType, PollType, PostSteps, WorkerSteps, PollSteps,
                IdleWorker, IdlePoll, Vmids, Kinds, Points, Power, Desires
  <2>4. IdleSweep \in SweepRows
    BY <1>1 DEF IdleSweep, SweepRows, Kinds, Vmids, Points, Statuses, Desires, Power
  <2>5. SweepType
    BY <2>4 DEF Init, SweepType, SweepRows
  <2>6. last \in Ops \ {0} /\ exact \subseteq Sweepers /\ restored \subseteq Ops
        /\ (row.op = 0 <=> row.kind = "none")
    BY <1>1 DEF Init
  <2>7. stale \in BOOLEAN
    BY DEF Init
  <2> QED
    BY <2>1, <2>2, <2>3, <2>5, <2>6, <2>7 DEF StateType
<1>3. /\ worker.step = "idle" /\ worker.op = 0 /\ poll.step = "idle" /\ poll.op = 0
      /\ \A s \in Sweepers : sweep[s].step = "idle" /\ sweep[s].op = 0
  BY DEF Init, IdleWorker, IdlePoll, IdleSweep
<1>4. IdsInOrder
  BY <1>1, <1>3 DEF Init, IdsInOrder, Active
<1>5. RowShape /\ EarlyAlone
  BY <1>3 DEF Init, RowShape, EarlyAlone, PointKinds
<1>6. WorkerLease /\ WorkerShape /\ PollMatch /\ SweepsGood
  BY <1>3 DEF WorkerLease, WorkerShape, Active, PollMatch, SweepsGood, SweepMatch, PlanShape
<1>7. Reconciling /\ OneReconciler
  BY <1>3 DEF Reconciling, OneReconciler, Working
<1>8. PointsOwned /\ PointsStored /\ ReadySnapshotStored
  BY <1>3 DEF Init, PointsOwned, PointsStored, ReadySnapshotStored
<1> QED
  BY <1>2, <1>4, <1>5, <1>6, <1>7, <1>8 DEF IInv

LEMMA NextGood ==
  ASSUME IInv, Next
  PROVE  IInv'
BY HostStep, GoesStaleStep, PostStep, OwnerStep, PollStep, SweepStep DEF Next

LEMMA StutterGood ==
  ASSUME IInv, UNCHANGED vars
  PROVE  IInv'
<1>1. UNCHANGED <<row, snaps, restored, last, stale, exact, post, worker, poll, sweep>> /\ KeepHost
  BY DEF vars, dbVars, clockVars, KeepHost
<1>2. /\ stale \in BOOLEAN
      /\ stale => ~Active /\ \A s \in Sweepers : ~Working(s)
      /\ stale => post.step \notin EarlySteps
  BY DEF IInv, StateType, WorkerLease, Reconciling, EarlyAlone
<1> QED
  BY <1>1, <1>2, KeepHostEvolves, Nothing

(* The inductive invariant holds throughout: whatever the launch, the      *)
(* owner's requests, the polls and the sweeps do, in any order.            *)
THEOREM Invariance == Spec => []IInv
<1>1. Init => IInv
  BY InitGood
<1>2. IInv /\ [Next]_vars => IInv'
  BY NextGood, StutterGood
<1> QED
  BY <1>1, <1>2, PTL DEF Spec

-----------------------------------------------------------------------------
(* The ghosts.  Only three steps touch overtaken and unread, and they only *)
(* add to them.                                                            *)

LEMMA GhostsKept ==
  ASSUME [Next]_vars, ~PostRollback, ~PollConverge, \A s \in Sweepers : ~SweepIntent(s)
  PROVE  UNCHANGED <<overtaken, unread>>
<1> USE DEF ghostVars
<1>1. CASE InstallerFinishes \/ HelperFinishes \/ ForeignAppears \/ GoesStale
  BY <1>1 DEF InstallerFinishes, HelperFinishes, ForeignAppears, GoesStale
<1>2. CASE Post
  BY <1>2 DEF Post, PostTunnel, PostFailBeforeAllocation, PostBeginAllocation, PostCheckpoint, PostPhase1,
     PostPersist, PostVerify, PostCompleteDelete, PostRelease, PostReleaseIntent, PostCrash, PostQuiet
<1>3. CASE Owner
  <2>1. CASE ClaimPower \/ BeginSnapshot \/ BeginRestore \/ RequestDelete
    BY <2>1 DEF ClaimPower, BeginSnapshot, BeginRestore, RequestDelete, Claim
  <2>2. CASE ~(ClaimPower \/ BeginSnapshot \/ BeginRestore \/ RequestDelete)
    BY <1>3, <2>2 DEF Owner, InvalidateDesktop, PowerScript, SnapshotScript, RestoreScript, SettleAnswer,
       ReleaseRefused, DeleteDestroy, DeleteFinish, DeleteAbort, WorkerCrash, WorkerQuiet
  <2> QED
    BY <2>1, <2>2
<1>4. CASE Poll
  BY <1>4 DEF Poll, PollRead, PollCheckpoint, PollCancel, PollCompleteDelete, PollLog, PollQuiet
<1>5. CASE \E s \in Sweepers : Sweep(s)
  BY <1>5 DEF Sweep, SweepRead, SweepClaim, SweepTeardown, SweepLetGo, SweepObserve, SweepProbe,
     SweepCompensate, SweepRecheck, SweepApply, SweepFails, SweepQuiet
<1>6. CASE UNCHANGED vars
  BY <1>6 DEF vars
<1> QED
  BY <1>1, <1>2, <1>3, <1>4, <1>5, <1>6 DEF Next

LEMMA GhostsGrow ==
  ASSUME [Next]_vars
  PROVE  /\ overtaken \subseteq overtaken'
         /\ overtaken' \subseteq overtaken \cup {"post", "sweep"}
         /\ unread' = unread \/ unread' \in BOOLEAN
         /\ unread => unread'
<1>1. CASE PostRollback
  BY <1>1 DEF PostRollback
<1>2. CASE PollConverge
  <2>1. Overtaken \subseteq {"post", "sweep"}
    BY DEF Overtaken
  <2>2. overtaken' = overtaken \/ overtaken' = overtaken \cup Overtaken
    BY <1>2 DEF PollConverge
  <2>3. UNCHANGED unread
    BY <1>2 DEF PollConverge
  <2> QED
    BY <2>1, <2>2, <2>3
<1>3. CASE \E s \in Sweepers : SweepIntent(s)
  <2>1. UNCHANGED overtaken
    BY <1>3 DEF SweepIntent
  <2>2. UNCHANGED unread \/ unread' = (unread \/ intent # NoVm)
    BY <1>3, Zenon DEF SweepIntent
  <2>3. unread' = unread \/ unread' \in BOOLEAN
    BY <2>2, Zenon
  <2>4. unread => unread'
    BY <2>2, Zenon
  <2> QED
    BY <2>1, <2>3, <2>4
<1>4. CASE ~PostRollback /\ ~PollConverge /\ \A s \in Sweepers : ~SweepIntent(s)
  <2>1. UNCHANGED overtaken /\ UNCHANGED unread
    BY <1>4, GhostsKept
  <2>2. unread => unread'
    BY <2>1, Zenon
  <2> QED
    BY <2>1, <2>2
<1> QED
  BY <1>1, <1>2, <1>3, <1>4

LEMMA WokenMoves ==
  ASSUME [Next]_vars
  PROVE  \/ UNCHANGED woken
         \/ \E v : Destroy(v)
         \/ PowerScript /\ woken' \in BOOLEAN
         \/ RestoreScript /\ woken' = FALSE
<1> USE DEF hostVars
<1>1. CASE InstallerFinishes \/ HelperFinishes \/ ForeignAppears \/ GoesStale
  BY <1>1 DEF InstallerFinishes, HelperFinishes, ForeignAppears, GoesStale
<1>2. CASE Post
  BY <1>2 DEF Post, PostTunnel, PostFailBeforeAllocation, PostBeginAllocation, PostCheckpoint, PostPhase1,
     PostPersist, PostVerify, PostRollback, PostCompleteDelete, PostRelease, PostReleaseIntent, PostCrash,
     KeepHost, Rollback
<1>3. CASE Owner
  <2>1. CASE ClaimPower \/ BeginSnapshot \/ BeginRestore \/ RequestDelete
    BY <2>1 DEF ClaimPower, BeginSnapshot, BeginRestore, RequestDelete, Claim
  <2>2. CASE PowerScript
    <3>1. UNCHANGED woken \/ \E out : woken' = (out.power = "running" /\ (woken \/ Wakes(out)))
      BY <2>2, Zenon DEF PowerScript, KeepHost
    <3> QED
      BY <2>2, <3>1
  <2>3. CASE RestoreScript
    BY <2>3 DEF RestoreScript, KeepHost
  <2>4. CASE ~(ClaimPower \/ BeginSnapshot \/ BeginRestore \/ RequestDelete \/ PowerScript \/ RestoreScript)
    BY <1>3, <2>4 DEF Owner, InvalidateDesktop, SnapshotScript, SettleAnswer,
       ReleaseRefused, DeleteDestroy, DeleteFinish, DeleteAbort, WorkerCrash, KeepHost, DestroyWithLogs
  <2> QED
    BY <2>1, <2>2, <2>3, <2>4
<1>4. CASE Poll
  BY <1>4 DEF Poll, PollRead, PollCheckpoint, PollCancel, PollCompleteDelete, PollLog, PollConverge, KeepHost,
     DestroyWithLogs
<1>5. CASE \E s \in Sweepers : Sweep(s)
  BY <1>5 DEF Sweep, SweepRead, SweepClaim, SweepIntent, SweepTeardown, SweepLetGo, SweepObserve, SweepProbe,
     SweepCompensate, SweepRecheck, SweepApply, SweepFails, KeepHost, DestroyWithLogs, DestroyAllocation
<1>6. CASE UNCHANGED vars
  BY <1>6 DEF vars
<1> QED
  BY <1>1, <1>2, <1>3, <1>4, <1>5, <1>6 DEF Next

LEMMA GhostsTyped == Spec => []GhostType
<1>1. Init => GhostType
  BY DEF Init, GhostType
<1>2. GhostType /\ [Next]_vars => GhostType'
  <2> SUFFICES ASSUME GhostType, [Next]_vars
               PROVE  GhostType'
    OBVIOUS
  <2>1. woken' \in BOOLEAN
    <3>1. woken \in BOOLEAN
      BY DEF GhostType
    <3>2. (\E v : Destroy(v)) => woken' \in BOOLEAN
      BY Zenon DEF Destroy
    <3> QED
      BY <3>1, <3>2, WokenMoves
  <2>2. unread' \in BOOLEAN
    BY GhostsGrow DEF GhostType
  <2>3. overtaken' \subseteq {"post", "sweep"}
    BY GhostsGrow DEF GhostType
  <2> QED
    BY <2>1, <2>2, <2>3 DEF GhostType
<1> QED
  BY <1>1, <1>2, PTL DEF Spec

(* The row, the restore points, the host and every process stay within     *)
(* their types; operation_id and operation_kind are null together.         *)
THEOREM TypeCorrect == Spec => []TypeOK
<1>1. IInv => StateType
  BY DEF IInv
<1> QED
  BY <1>1, Invariance, GhostsTyped, PTL DEF TypeOK

(* A power, resize, restore-point or delete request holds the durable      *)
(* lease on the row from its claim to its last call: neither the poll nor  *)
(* a sweep ends or takes over its operation meanwhile.                     *)
THEOREM RequestsOwnTheLease == Spec => []LeaseOwner
<1>1. IInv => LeaseOwner
  BY DEF IInv, WorkerLease, LeaseOwner, Active
<1> QED
  BY <1>1, Invariance, PTL

(* However many sweeps read the same stale row, renewing the timestamp     *)
(* lets only one of them reconcile the operation at a time.                *)
THEOREM ReconciledByOne == Spec => []OneReconciler
<1>1. IInv => OneReconciler
  BY DEF IInv
<1> QED
  BY <1>1, Invariance, PTL

(* A restore point that is being created or restored is always named by    *)
(* the operation on the row, or a delete has been requested.               *)
THEOREM RestorePointsLeased == Spec => []SnapshotLeased
<1>1. IInv => SnapshotLeased
  BY DEF IInv, PointsOwned, SnapshotLeased
<1> QED
  BY <1>1, Invariance, PTL

(* Whatever crashed between the host's snapshot and its record, a restore  *)
(* point the owner is offered exists at the provider while the VM does.    *)
THEOREM OfferedPointsExist == Spec => []ReadySnapshotStored
<1>1. IInv => ReadySnapshotStored
  BY DEF IInv
<1> QED
  BY <1>1, Invariance, PTL

-----------------------------------------------------------------------------
(* A delete request stands.                                                *)

(* Of the stored functions that end an operation, only the failure of a    *)
(* snapshot may overwrite the request.                                     *)
LEMMA StoredFunctionsKeepDelete ==
  ASSUME IInv, row.desired = "deleted", row.kind # "snapshot",
         NEW o, NEW e \in Power, NEW p \in Power, NEW v, NEW n, NEW k, NEW mark, NEW ok \in BOOLEAN,
         \/ Release(o, mark, ok) \/ CompleteOperation(o, e, p, ok) \/ CompleteRunning(o, k, ok)
         \/ Continue(o, ok) \/ Persist(o, v, ok) \/ CompleteDelete(o, ok)
         \/ CompleteSnapshot(o, n, p, ok) \/ FailSnapshot(o, n, p, ok)
         \/ CompleteRestore(o, n, ok) \/ FailRestore(o, n, p, ok)
  PROVE  row'.desired = "deleted"
<1>1. row \in [status : Statuses, desired : Desires, op : Ops, kind : Kinds, snap : Points,
               vmid : Vmids, stage : {"access", "none"}, size : Ops]
  BY DEF IInv, StateType, RowType
<1>2. e # "deleted" /\ p # "deleted"
  BY DEF Power
<1>3. CASE Release(o, mark, ok)
  <2>1. CASE row.op = o
    <3> DEFINE st == IF mark /\ row.desired # "deleted" THEN "error" ELSE row.status
    <3>1. row' = Cleared([row EXCEPT !.status = st])
      BY <1>3, <2>1 DEF Release
    <3> HIDE DEF st
    <3> QED
      BY <1>1, <3>1 DEF Cleared
  <2>2. CASE row.op # o
    BY <1>3, <2>2 DEF Release
  <2> QED
    BY <2>1, <2>2
<1>4. CASE CompleteOperation(o, e, p, ok)
  BY <1>2, <1>4 DEF CompleteOperation
<1>5. CASE CompleteRunning(o, k, ok)
  BY <1>5 DEF CompleteRunning
<1>6. CASE Continue(o, ok)
  BY <1>6 DEF Continue
<1>7. CASE Persist(o, v, ok)
  BY <1>1, <1>7 DEF Persist
<1>8. CASE CompleteDelete(o, ok)
  BY <1>1, <1>8 DEF CompleteDelete, Cleared, KeepRow, dbVars
<1>9. CASE CompleteSnapshot(o, n, p, ok)
  BY <1>2, <1>9 DEF CompleteSnapshot, CompleteOperation
<1>10. CASE FailSnapshot(o, n, p, ok)
  BY <1>10 DEF FailSnapshot
<1>11. CASE CompleteRestore(o, n, ok)
  BY <1>11 DEF CompleteRestore
<1>12. CASE FailRestore(o, n, p, ok)
  BY <1>2, <1>12 DEF FailRestore, CompleteOperation
<1> QED
  BY <1>3, <1>4, <1>5, <1>6, <1>7, <1>8, <1>9, <1>10, <1>11, <1>12

LEMMA PostKeepsDelete ==
  ASSUME IInv, row.desired = "deleted", row.kind # "snapshot", Post
  PROVE  row'.desired = "deleted"
<1>1. "running" \in Power
  BY DEF Power
<1>2. CASE PostFailBeforeAllocation \/ PostBeginAllocation
  BY <1>2 DEF PostFailBeforeAllocation, PostBeginAllocation, PreAllocation
<1>3. CASE PostPersist
  <2>1. PICK ok \in BOOLEAN : Persist(1, post.vmid, ok)
    BY <1>3 DEF PostPersist
  <2> QED
    BY <1>1, <2>1, StoredFunctionsKeepDelete
<1>4. CASE PostCompleteDelete
  <2>1. PICK ok \in BOOLEAN : CompleteDelete(1, ok)
    BY <1>4 DEF PostCompleteDelete
  <2> QED
    BY <1>1, <2>1, StoredFunctionsKeepDelete
<1>5. CASE PostRelease
  <2>1. PICK mark \in BOOLEAN, ok \in BOOLEAN : Release(1, mark, ok)
    BY <1>5, Zenon DEF PostRelease
  <2> QED
    BY <1>1, <2>1, StoredFunctionsKeepDelete
<1>6. CASE KeepRow
  BY <1>6 DEF KeepRow, dbVars
<1> QED
  BY <1>2, <1>3, <1>4, <1>5, <1>6
     DEF Post, PostTunnel, PostCheckpoint, PostPhase1, PostVerify, PostRollback,
         PostReleaseIntent, PostCrash

LEMMA OwnerKeepsDelete ==
  ASSUME IInv, row.desired = "deleted", row.kind # "snapshot", Owner
  PROVE  row'.desired = "deleted"
<1>1. "running" \in Power /\ "stopped" \in Power /\ worker.power \in Power
  BY DEF Power, IInv, StateType, WorkerType
<1>2. CASE ClaimPower \/ BeginSnapshot \/ BeginRestore
  BY <1>2 DEF ClaimPower, BeginSnapshot, BeginRestore, Claim
<1>3. CASE RequestDelete
  BY <1>3 DEF RequestDelete, IInv, StateType, RowType
<1>4. CASE \E mark, ok \in BOOLEAN : Release(worker.op, mark, ok)
  BY <1>1, <1>4, StoredFunctionsKeepDelete
<1>5. CASE SettleAnswer
  <2>1. worker.kind \in Lifecycle
    BY <1>5 DEF IInv, WorkerShape, SettleAnswer, WorkerAt
  <2>2. PICK ok \in BOOLEAN :
          \/ CompleteOperation(worker.op, "stopped", "stopped", ok)
          \/ Continue(worker.op, ok)
          \/ CompleteSnapshot(worker.op, worker.snap, worker.power, ok)
          \/ CompleteRestore(worker.op, worker.snap, ok)
    BY <1>5, <2>1 DEF SettleAnswer, Lifecycle, StartLike
  <2> QED
    BY <1>1, <2>2, StoredFunctionsKeepDelete
<1>6. CASE DeleteFinish
  <2>1. PICK ok \in BOOLEAN : CompleteDelete(worker.op, ok)
    BY <1>6 DEF DeleteFinish
  <2> QED
    BY <1>1, <2>1, StoredFunctionsKeepDelete
<1>7. CASE KeepRow
  BY <1>7 DEF KeepRow, dbVars
<1>8. InvalidateDesktop \/ ReleaseRefused \/ DeleteAbort =>
        KeepRow \/ \E mark, ok \in BOOLEAN : Release(worker.op, mark, ok)
  <2>1. InvalidateDesktop => KeepRow \/ \E ok \in BOOLEAN : Release(worker.op, FALSE, ok)
    BY DEF InvalidateDesktop
  <2>2. ReleaseRefused => \E ok \in BOOLEAN : Release(worker.op, FALSE, ok)
    BY DEF ReleaseRefused
  <2>3. DeleteAbort => \E ok \in BOOLEAN : Release(worker.op, TRUE, ok)
    BY DEF DeleteAbort
  <2> QED
    BY <2>1, <2>2, <2>3, Zenon
<1> QED
  BY <1>2, <1>3, <1>4, <1>5, <1>6, <1>7, <1>8
     DEF Owner, PowerScript, SnapshotScript, RestoreScript, DeleteDestroy, WorkerCrash

LEMMA PollKeepsDelete ==
  ASSUME IInv, row.desired = "deleted", row.kind # "snapshot", Poll
  PROVE  row'.desired = "deleted"
<1>1. "running" \in Power
  BY DEF Power
<1>2. CASE PollCompleteDelete
  <2>1. PICK ok \in BOOLEAN : CompleteDelete(poll.op, ok)
    BY <1>2 DEF PollCompleteDelete
  <2> QED
    BY <1>1, <2>1, StoredFunctionsKeepDelete
<1>3. CASE PollConverge
  <2>1. PICK ok \in BOOLEAN : CompleteRunning(poll.op, poll.kind, ok) \/ Release(poll.op, TRUE, ok)
    BY <1>3 DEF PollConverge
  <2>2. PICK mark \in BOOLEAN : CompleteRunning(poll.op, poll.kind, ok) \/ Release(poll.op, mark, ok)
    BY <2>1, Zenon
  <2> QED
    BY <1>1, <2>2, StoredFunctionsKeepDelete
<1>4. CASE KeepRow
  BY <1>4 DEF KeepRow, dbVars
<1> QED
  BY <1>2, <1>3, <1>4 DEF Poll, PollRead, PollCheckpoint, PollCancel, PollLog

LEMMA SweepKeepsDelete ==
  ASSUME IInv, row.desired = "deleted", row.kind # "snapshot", NEW s \in Sweepers, Sweep(s)
  PROVE  row'.desired = "deleted"
<1>1. "running" \in Power /\ "stopped" \in Power /\ sweep[s].power \in Power
  BY SweepTyped DEF Power, SweepRows
<1>2. CASE SweepIntent(s)
  <2>1. KeepRow \/ \E ok \in BOOLEAN : Persist(sweep[s].op, intent, ok)
    BY <1>2 DEF SweepIntent
  <2> QED
    BY <1>1, <2>1, StoredFunctionsKeepDelete DEF KeepRow, dbVars
<1>3. CASE SweepApply(s)
  <2>1. PICK ok \in BOOLEAN : Applies(s, Head(sweep[s].plan), ok)
    BY <1>3 DEF SweepApply
  <2>2. CASE \E mark \in BOOLEAN : Release(sweep[s].op, mark, ok)
    BY <1>1, <2>2, StoredFunctionsKeepDelete
  <2>3. CASE \E e \in Power : CompleteOperation(sweep[s].op, e, sweep[s].power, ok)
    BY <1>1, <2>3, StoredFunctionsKeepDelete
  <2>4. CASE \/ CompleteRunning(sweep[s].op, sweep[s].kind, ok) \/ Continue(sweep[s].op, ok)
             \/ CompleteDelete(sweep[s].op, ok)
             \/ CompleteSnapshot(sweep[s].op, sweep[s].snap, sweep[s].power, ok)
             \/ FailSnapshot(sweep[s].op, sweep[s].snap, sweep[s].power, ok)
             \/ CompleteRestore(sweep[s].op, sweep[s].snap, ok)
             \/ FailRestore(sweep[s].op, sweep[s].snap, sweep[s].power, ok)
    BY <1>1, <2>4, StoredFunctionsKeepDelete
  <2>5. CASE Release(sweep[s].op, FALSE, ok) \/ Release(sweep[s].op, TRUE, ok)
    BY <2>2, <2>5, Zenon
  <2>6. CASE CompleteOperation(sweep[s].op, IF sweep[s].kind = "stop" THEN "stopped" ELSE "running",
                               sweep[s].power, ok)
    BY <1>1, <2>3, <2>6
  <2> QED
    BY <2>1, <2>4, <2>5, <2>6 DEF Applies
<1>4. CASE KeepRow
  BY <1>4 DEF KeepRow, dbVars
<1> QED
  BY <1>2, <1>3, <1>4
     DEF Sweep, SweepRead, SweepClaim, SweepTeardown, SweepLetGo, SweepObserve, SweepProbe,
         SweepCompensate, SweepRecheck, SweepFails

LEMMA NextKeepsDelete ==
  ASSUME IInv, [Next]_vars, row.desired = "deleted", row.kind # "snapshot"
  PROVE  row'.desired = "deleted"
BY PostKeepsDelete, OwnerKeepsDelete, PollKeepsDelete, SweepKeepsDelete
   DEF Next, vars, dbVars, InstallerFinishes, HelperFinishes, ForeignAppears, GoesStale

(* The failure of a snapshot is the only call that takes a delete back:    *)
(* while no snapshot operation is on the row, every completion, release    *)
(* and recovery leaves desired_state deleted.                              *)
THEOREM OnlySnapshotsTakeDeletesBack ==
  Spec => [][row.desired = "deleted" /\ row.kind # "snapshot" => row'.desired = "deleted"]_vars
<1>1. IInv /\ [Next]_vars =>
        [row.desired = "deleted" /\ row.kind # "snapshot" => row'.desired = "deleted"]_vars
  BY NextKeepsDelete
<1> QED
  BY <1>1, Invariance, PTL DEF Spec

(* Where restore points cannot be taken, a requested deletion is never     *)
(* taken back by any call of the launch, a request, a poll or a sweep.     *)
THEOREM DeletesStand ==
  ASSUME "snapshot" \notin Actions
  PROVE  Spec => DeleteDurable
<1>1. IInv /\ [Next]_vars => [row.desired = "deleted" => row'.desired = "deleted"]_vars
  <2>1. IInv => row.kind # "snapshot"
    BY DEF IInv, RowShape
  <2> QED
    BY <2>1, NextKeepsDelete
<1> QED
  BY <1>1, Invariance, PTL DEF Spec, DeleteDurable
=============================================================================
