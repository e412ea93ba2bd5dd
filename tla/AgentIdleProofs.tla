-------------------------- MODULE AgentIdleProofs --------------------------
(***************************************************************************)
(* Proofs about AgentOperations at rest: once nothing is in progress, the  *)
(* row shows the VM as it is, its power state and its size; and that only  *)
(* a sweep records a restore the host has not performed.  They rest on     *)
(* the invariants of AgentOperationsProofs and AgentHostProofs.            *)
(***************************************************************************)
EXTENDS AgentHostProofs

-----------------------------------------------------------------------------
(* The inductive invariant.  Nothing is claimed of a row that is to be     *)
(* deleted for good (Doomed): its operation is given up where it stands.   *)

(* What an operation asks for, and what it leaves on the row.              *)
RowFits ==
  /\ row.kind \in StartLike \cup {"provision"} => row.desired # "stopped"
  /\ row.kind \in {"stop", "restore"} => row.desired # "running"
  /\ row.kind \in Lifecycle => row.kind \in Actions /\ row.vmid # NoVm
  /\ row.kind = "resize" /\ row.status = "provisioning" => row.size = row.op
  /\ row.kind = "snapshot" => snaps[row.snap].size = row.size /\ snaps[row.snap].status # "none"
  /\ row.op = 1 => row.size = 0

(* Nobody else has our VMID; a launched VM runs in the size of the launch; *)
(* only operations after the launch leave a receipt.                       *)
HostFits ==
  /\ vm.slot # NoVm => vm.slot \notin foreign
  /\ row.op = 1 /\ vm.slot # NoVm => vm.power = "running" /\ vm.config = 0
  /\ log.op <= last /\ log.op # 1

(* A row that is not in error after its launch has a VM.                   *)
VmThere ==
  ~Doomed /\ row.op # 1 /\ row.status \in Power \cup {"provisioning"} => Ours(row.vmid)

(* The size on the row is the VM's, but for what the resize or restore in  *)
(* progress has done.                                                      *)
SizeShown ==
  ~Doomed /\ vm.slot # NoVm =>
    /\ \/ vm.config = row.size
       \/ row.kind = "resize" /\ vm.config = row.op
       \/ row.kind = "restore" /\ vm.power = "stopped" /\ vm.config = stored[row.snap]
    /\ row.kind = "resize" /\ row.status = "provisioning" => vm.config = row.op
    /\ row.kind = "resize" /\ log.op = row.op => vm.config = row.op
    /\ worker.kind = "resize" /\ worker.step \in {"prepare", "script", "refused"}
         => vm.config = row.size

(* A restore point has the size of the VM it was taken of.                 *)
PointSizes ==
  \A n \in Snapshots :
    /\ snaps[n].status = "none" => stored[n] = Absent
    /\ snaps[n].status \in {"creating", "ready", "restoring"} /\ stored[n] # Absent
         => snaps[n].size = stored[n]

(* Until an owner's request reaches the host, and again at rest, the power *)
(* state on the row is the VM's; but a refused resize may have started a   *)
(* stopped VM.                                                             *)
Untried ==
  row.op = 0 \/ (worker.step \in {"prepare", "script", "refused"} /\ worker.kind \in Powering)
PowerShown ==
  ~Doomed /\ Untried /\ row.status \in Power =>
    \/ vm.power = row.status
    \/ row.status = "stopped" /\ woken

(* A start log that reports success stands for a running VM.               *)
LogTrue ==
  ~Doomed /\ row.op # 0 /\ log.op = row.op /\ log.result = "ready"
    => vm.slot # NoVm /\ vm.power = "running"

(* What a request, a poll or a sweep is going to record is still so.       *)
WorkerTrue ==
  ~Doomed =>
    /\ worker.step \in {"prepare", "script"} => log.op # worker.op
    /\ worker.step = "settle" =>
         /\ vm.slot # NoVm
         /\ worker.kind = "stop" => vm.power = "stopped"
         /\ worker.kind = "resize" => vm.config = worker.op
         /\ worker.kind = "snapshot" => vm.power = worker.power
         /\ worker.kind = "restore" => /\ vm.power = "stopped" /\ vm.config = stored[worker.snap]
                                       /\ stored[worker.snap] # Absent

PollTrue ==
  ~Doomed /\ poll.step # "idle" /\ poll.op = row.op =>
    /\ row.status = "provisioning" /\ row.vmid # NoVm
    /\ poll.step = "running" /\ poll.kind = "provision" => vm.slot # NoVm
    /\ poll.step = "running" /\ poll.kind # "provision" => log.op = row.op /\ log.result = "ready"

Runs == {<<"running">>, <<"continue", "running">>}
Observes == {<<"observed">>, <<"continue", "observed">>}
Looks == {<<"snapshot">>, <<"snapshot_failed">>, <<"restore_failed">>}
SweepTrue(s) ==
  ~Doomed /\ sweep[s].step = "apply" /\ sweep[s].op = row.op =>
    LET plan == sweep[s].plan IN
    /\ plan \in Runs \cup Observes \cup Looks \cup {<<"restore">>} => Ours(row.vmid)
    /\ plan \in Runs => vm.power = "running" /\ (row.kind = "resize" => vm.config = row.op)
    /\ plan \in Observes \cup Looks => vm.power = sweep[s].power
    /\ plan = <<"observed">> /\ row.kind = "resize" => vm.config = row.size
    /\ plan = <<"continue", "observed">> /\ row.kind = "resize" => vm.config = row.op
    /\ plan = <<"restore">> => vm.power = "stopped" /\ vm.config = stored[row.snap]
    /\ plan = <<"restore_failed">> /\ SnapshotOwned(row.snap, row.op, "restoring")
         => vm.config = row.size
    /\ plan = <<"error">> => row.op = 1 \/ vm.slot = NoVm
    /\ plan = <<"checkpoint">> => row.op = 1

SweepsTrue == \A s \in Sweepers : SweepTrue(s)

IdleInv ==
  /\ RowFits /\ HostFits
  /\ VmThere /\ SizeShown /\ PointSizes /\ PowerShown
  /\ LogTrue /\ WorkerTrue /\ PollTrue /\ SweepsTrue

(* A result of the installer is that of a VM; a sweep that knows a VMID    *)
(* knows the row's.                                                        *)
MarkedVm == installed # "none" => vm.slot # NoVm
Named(s) ==
  sweep[s].step # "idle" /\ sweep[s].op = row.op /\ sweep[s].vmid # NoVm => row.vmid # NoVm
TraceInv == MarkedVm /\ \A s \in Sweepers : Named(s)

LEMMA RemovedByPost ==
  ASSUME Post, vm.slot # NoVm, vm'.slot = NoVm
  PROVE  PostRollback
<1>1. vm' # vm
  OBVIOUS
<1>2. ~PostPhase1
  BY <1>1, OpsAssumption DEF PostPhase1
<1> QED
  BY <1>1, <1>2 DEF Post, PostTunnel, PostFailBeforeAllocation, PostBeginAllocation, PostCheckpoint,
    PostPersist, PostVerify, PostCompleteDelete, PostRelease, PostReleaseIntent, PostCrash,
    KeepHost, hostVars

LEMMA TraceKept ==
  ASSUME IInv, BaseInv, LeaseInv, TraceInv, [Next]_vars, overtaken' = {}
  PROVE  TraceInv'
<1>1. MarkedVm'
  <2>1. SUFFICES ASSUME installed' # "none", vm'.slot = NoVm PROVE FALSE
    BY DEF MarkedVm
  <2>2. ~Receipt /\ ~LogsRemoved
    BY <2>1 DEF Receipt, LogsRemoved
  <2>3. CASE InstallerFinishes
    BY <2>1, <2>3 DEF InstallerFinishes
  <2>4. CASE MarksKept
    <3>1. installed # "none" /\ vm.slot # NoVm
      BY <2>1, <2>4 DEF MarksKept, TraceInv, MarkedVm
    <3>2. CASE Post
      <4>1. PostRollback
        BY <2>1, <3>1, <3>2, RemovedByPost
      <4>2. Ours(post.vmid) /\ overtaken' = overtaken \cup {"post"}
        BY <2>1, <3>1, <4>1 DEF PostRollback, Rollback, Destroy, KeepHost, hostVars, Ours
      <4> QED
        BY <4>2
    <3>3. CASE DeleteDestroy
      BY <2>1, <3>1, <3>3 DEF DeleteDestroy, DestroyWithLogs, DropLogs, KeepHost, hostVars
    <3>4. CASE PollCancel
      BY <2>1, <3>1, <3>4 DEF PollCancel, DestroyWithLogs, DropLogs, KeepHost, hostVars
    <3>5. ASSUME NEW s \in Sweepers, SweepTeardown(s) \/ SweepCompensate(s) PROVE FALSE
      BY <2>1, <3>1, <3>5 DEF SweepTeardown, SweepCompensate, DestroyWithLogs, DestroyAllocation,
         DropLogs, KeepHost, hostVars
    <3> QED
      BY <2>1, <3>1, <3>2, <3>3, <3>4, <3>5, Removals
  <2> QED
    BY <2>2, <2>3, <2>4, MarksMove
<1>2. ASSUME NEW s \in Sweepers PROVE Named(s)'
  <2>1. SUFFICES ASSUME sweep'[s].step # "idle", sweep'[s].op = row'.op, sweep'[s].vmid # NoVm
                 PROVE  row'.vmid # NoVm
    BY DEF Named
  <2>2. ASSUME sweep[s].step # "idle", sweep'[s].op = sweep[s].op, sweep'[s].vmid = sweep[s].vmid
        PROVE  row'.vmid # NoVm
    <3>1. sweep[s].op # 0 /\ sweep[s].op <= last /\ sweep[s].op \in Nat /\ last \in Nat
      BY <2>2 DEF IInv, SweepsGood, SweepMatch, IdsInOrder, StateType, SweepType, Ops
    <3>2. RowMoves
      BY NextMoves
    <3>3. row'.op = row.op /\ row.op # 0
      BY <2>1, <2>2, <3>1, <3>2 DEF RowMoves
    <3> QED
      BY <2>1, <2>2, <3>2, <3>3 DEF RowMoves, Persists, TraceInv, Named
  <2>3. CASE sweep'[s] = sweep[s]
    BY <2>1, <2>2, <2>3
  <2>4. CASE sweep'[s] = IdleSweep
    BY <2>1, <2>4 DEF IdleSweep
  <2>5. CASE Copied(s)
    BY <2>1, <2>5 DEF Copied
  <2>6. CASE FromIntent(s)
    BY <2>6, RowTyped DEF FromIntent, Persist, Rows
  <2>7. CASE Going(s)
    BY <2>2, <2>7 DEF Going, SameCopy
  <2> QED
    BY <2>3, <2>4, <2>5, <2>6, <2>7, OneMoves, SweepGoes
<1> QED
  BY <1>1, <1>2 DEF TraceInv
-----------------------------------------------------------------------------
(* The shapes of steps.                                                    *)

RestInv == IInv /\ BaseInv /\ LeaseInv /\ TraceInv /\ IdleInv
HostSame ==
  vm' = vm /\ log' = log /\ stored' = stored /\ foreign' = foreign /\ (woken => woken')
RowSame == row' = row /\ snaps' = snaps

LEMMA Facts ==
  ASSUME RestInv
  PROVE  /\ row.op = 0 <=> row.kind = "none"
         /\ row.op = 1 <=> row.kind = "provision"
         /\ row.vmid # NoVm /\ vm.slot # NoVm => Ours(row.vmid)
         /\ Active => /\ row.op = worker.op /\ row.kind = worker.kind /\ row.op > 1
                      /\ worker.kind # "delete" => row.status # "provisioning"
         /\ row.op \in Nat /\ last \in Nat /\ row.op <= last /\ MaxOps \in Nat
         /\ row.desired \in Desires /\ row.status \in Statuses /\ row.kind \in Kinds
<1>1. row \in Rows /\ row.op \in Nat /\ last \in Ops /\ worker.op \in Nat
  BY RowTyped DEF RestInv, IInv, StateType, WorkerType, Ops
<1>2. row.vmid # NoVm /\ vm.slot # NoVm => Ours(row.vmid)
  BY DEF RestInv, BaseInv, RowBase, Known, Ours
<1> QED
  BY <1>1, <1>2, OpsAssumption DEF RestInv, IInv, StateType, IdsInOrder, WorkerLease, Rows, Ops

LEMMA HostFitsKept ==
  ASSUME RestInv, HostSame, last' \in Nat, last' >= last,
         row'.op = 1 => row.op = 1
  PROVE  HostFits'
<1>1. log.op \in Nat
  BY DEF RestInv, IInv, StateType, HostType, Ops
<1> QED
  BY <1>1, Facts DEF RestInv, IdleInv, HostFits, HostSame

(* The lease is given back: what the row then shows must be so.            *)
Rested ==
  /\ row.status # "provisioning"
  /\ row.status \in Power =>
       /\ Ours(row.vmid)
       /\ \/ vm.power = row.status
          \/ row.status = "stopped" /\ woken
  /\ vm.slot # NoVm => vm.config = row.size

LEMMA NobodyAtRest ==
  ASSUME IInv', row'.op = 0
  PROVE  row'.kind = "none" /\ ~Active' /\ PollTrue' /\ SweepsTrue'
<1>1. row'.kind = "none" /\ ~Active'
  BY DEF IInv, StateType, WorkerLease, WorkerType, Ops
<1>2. PollTrue'
  BY DEF IInv, PollMatch, PollTrue
<1>3. SweepsTrue'
  BY DEF IInv, SweepsGood, SweepMatch, SweepsTrue, SweepTrue
<1> QED
  BY <1>1, <1>2, <1>3

LEMMA Ends ==
  ASSUME RestInv, IInv', HostSame, last' = last, row'.op = 0, PointSizes',
         row'.desired = "deleted" \/ Rested'
  PROVE  IdleInv'
<1>1. row'.kind = "none" /\ ~Active' /\ PollTrue' /\ SweepsTrue'
  BY NobodyAtRest
<1>2. RowFits' /\ HostFits'
  <2>1. RowFits'
    BY <1>1 DEF RowFits, StartLike, Lifecycle
  <2> QED
    BY <2>1, HostFitsKept, Facts
<1>3. CASE row'.desired = "deleted"
  <2>1. Doomed'
    BY <1>1, <1>3 DEF Doomed
  <2> QED
    BY <1>1, <1>2, <2>1 DEF IdleInv, VmThere, SizeShown, PowerShown, LogTrue, WorkerTrue
<1>4. CASE Rested'
  <2>1. VmThere' /\ PowerShown'
    BY <1>4 DEF Rested, VmThere, PowerShown
  <2>2. SizeShown'
    BY <1>1, <1>4 DEF Rested, SizeShown, Active
  <2>3. LogTrue' /\ WorkerTrue'
    BY <1>1 DEF LogTrue, WorkerTrue, Active
  <2> QED
    BY <1>1, <1>2, <2>1, <2>2, <2>3 DEF IdleInv
<1> QED
  BY <1>3, <1>4

(* Restore points change their state and never their size.                 *)
LEMMA PointsSettle ==
  ASSUME RestInv, stored' = stored,
         \A n \in Snapshots :
           /\ snaps'[n].size = snaps[n].size
           /\ snaps'[n].status = "none" => snaps[n].status = "none"
           /\ snaps'[n].status \in {"creating", "ready", "restoring"} =>
                snaps[n].status \in {"creating", "ready", "restoring"}
  PROVE  PointSizes'
BY DEF RestInv, IdleInv, PointSizes

(* Nothing moves on the row or the host.                                   *)
LEMMA Quiet ==
  ASSUME RestInv, IInv', HostSame, RowSame, last' = last,
         WorkerTrue', PollTrue', SweepsTrue',
         \/ worker' = worker
         \/ worker'.kind = worker.kind
            /\ worker.step \in {"prepare", "script", "refused"}
         \/ worker'.step \notin {"prepare", "script", "refused"}
         \/ worker'.kind # "resize" /\ row.status \notin Power
         \/ Doomed
  PROVE  IdleInv'
<1>1. HostFits' /\ RowFits' /\ VmThere' /\ PointSizes' /\ LogTrue'
  <2>1. HostFits'
    BY HostFitsKept, Facts DEF RowSame
  <2> QED
    BY <2>1 DEF RestInv, IdleInv, HostSame, RowSame, RowFits, VmThere, PointSizes, LogTrue, Ours, Doomed
<1>2. CASE Doomed
  BY <1>1, <1>2 DEF IdleInv, SizeShown, PowerShown, Doomed, RowSame
<1>3. CASE ~Doomed /\ row.op # 0
  <2>1. SizeShown'
    BY <1>3 DEF RestInv, IdleInv, SizeShown, HostSame, RowSame, Doomed
  <2>2. PowerShown'
    BY <1>3 DEF RestInv, IdleInv, PowerShown, Untried, HostSame, RowSame, Doomed
  <2> QED
    BY <1>1, <2>1, <2>2 DEF IdleInv
<1>4. CASE row.op = 0
  <2>1. ~Active' /\ ~Active
    BY <1>4, NobodyAtRest DEF RowSame, RestInv, IInv, StateType, WorkerType, WorkerLease, Active, Ops
  <2>2. SizeShown'
    BY <1>4, <2>1 DEF RestInv, IdleInv, SizeShown, HostSame, RowSame, Doomed, Active
  <2>3. PowerShown'
    BY <1>4 DEF RestInv, IdleInv, PowerShown, Untried, HostSame, RowSame, Doomed
  <2> QED
    BY <1>1, <2>2, <2>3 DEF IdleInv
<1> QED
  BY <1>2, <1>3, <1>4

(* A process that does not move goes on seeing what it saw.                *)
LEMMA SeenSame ==
  ASSUME RestInv, HostSame, RowSame
  PROVE  /\ worker' = worker => WorkerTrue'
         /\ poll' = poll => PollTrue'
         /\ \A s \in Sweepers : sweep'[s] = sweep[s] => SweepTrue(s)'
         /\ sweep' = sweep => SweepsTrue'
<1>1. worker' = worker => WorkerTrue'
  BY DEF RestInv, IdleInv, WorkerTrue, HostSame, RowSame, Doomed
<1>2. poll' = poll => PollTrue'
  BY DEF RestInv, IdleInv, PollTrue, HostSame, RowSame, Doomed
<1>3. \A s \in Sweepers : sweep'[s] = sweep[s] => SweepTrue(s)'
  BY DEF RestInv, IdleInv, SweepsTrue, SweepTrue, SnapshotOwned, HostSame, RowSame, Doomed, Ours
<1> QED
  BY <1>1, <1>2, <1>3 DEF SweepsTrue
-----------------------------------------------------------------------------
(* The stored functions that give the lease back.                          *)

SizeMatches == vm.slot # NoVm => vm.config = row.size

LEMMA ClearedSize ==
  ASSUME NEW r \in Rows
  PROVE  Cleared(r).size = r.size
<1>1. 0 \in Ops /\ "none" \in Kinds /\ NoSnap \in Points
  BY OpsAssumption DEF Ops, Kinds, Points
<1> QED
  BY <1>1 DEF Cleared, Rows

(* A cleared row shows what it is given.                                   *)
LEMMA ClearedEnds ==
  ASSUME RestInv, IInv', HostSame, last' = last, PointSizes',
         NEW r \in Rows, row' = Cleared(r),
         \/ r.desired = "deleted"
         \/ /\ vm.slot # NoVm => vm.config = r.size
            /\ \/ r.status \in {"error", "deleted"}
               \/ /\ r.status \in Power /\ Ours(r.vmid)
                  /\ \/ vm.power = r.status
                     \/ r.status = "stopped" /\ woken
  PROVE  IdleInv'
<1>1. /\ row'.op = 0 /\ row'.status = r.status /\ row'.desired = r.desired /\ row'.vmid = r.vmid
      /\ row'.size = r.size
  BY ClearedEffect, ClearedSize
<1>2. row'.desired = "deleted" \/ Rested'
  BY <1>1 DEF Rested, Power, Ours, HostSame
<1> QED
  BY <1>1, <1>2, Ends

LEMMA Released ==
  ASSUME RestInv, IInv', HostSame, last' = last, NEW o, NEW mark \in BOOLEAN, NEW ok \in BOOLEAN,
         Release(o, mark, ok), row.op = o,
         row.desired = "deleted" \/ (SizeMatches /\ (mark \/ Rested))
  PROVE  IdleInv'
<1> DEFINE st == IF mark /\ row.desired # "deleted" THEN "error" ELSE row.status
           r == [row EXCEPT !.status = st]
<1>1. row' = Cleared(r) /\ snaps' = snaps
  BY DEF Release
<1>2. row \in Rows
  BY RowTyped DEF RestInv
<1>3. st \in Statuses
  BY <1>2 DEF Statuses, Rows
<1>4. row.desired # "deleted" => st = "error" \/ (st = row.status /\ Rested)
  OBVIOUS
<1> HIDE DEF st
<1>5. r \in Rows /\ r.status = st /\ r.desired = row.desired /\ r.vmid = row.vmid /\ r.size = row.size
  BY <1>2, <1>3 DEF Rows
<1> HIDE DEF r
<1>6. PointSizes'
  BY <1>1, PointsSettle DEF HostSame
<1>7. row.desired # "deleted" /\ st \notin {"error", "deleted"} => st \in Power
  BY <1>3, <1>4 DEF Rested, Statuses
<1>8. row.desired # "deleted" =>
        /\ SizeMatches
        /\ st \in {"error", "deleted"} \/ (st \in Power /\ st = row.status /\ Rested)
  BY <1>4, <1>7
<1> QED
  BY <1>1, <1>5, <1>6, <1>8, ClearedEnds DEF Rested, SizeMatches

LEMMA Completed ==
  ASSUME RestInv, IInv', HostSame, last' = last, PointSizes', NEW o, NEW e, NEW p \in Power,
         CompleteOperation(o, e, p, TRUE), Ours(row.vmid), vm.power = p, SizeMatches
  PROVE  IdleInv'
<1> DEFINE r == [row EXCEPT !.status = p, !.desired = p]
<1>1. row' = Cleared(r)
  BY DEF CompleteOperation
<1>2. row \in Rows
  BY RowTyped DEF RestInv
<1>3. p \in Statuses /\ p \in Desires
  BY DEF Statuses, Desires
<1>4. r \in Rows /\ r.status = p /\ r.desired = p /\ r.vmid = row.vmid /\ r.size = row.size
  BY <1>2, <1>3 DEF Rows
<1> HIDE DEF r
<1> QED
  BY <1>1, <1>4, ClearedEnds DEF SizeMatches

LEMMA Ran ==
  ASSUME RestInv, IInv', HostSame, last' = last, NEW o, NEW k,
         CompleteRunning(o, k, TRUE), Ours(row.vmid), vm.power = "running", SizeMatches
  PROVE  IdleInv'
<1> DEFINE r == [row EXCEPT !.status = "running"]
<1>1. row' = Cleared(r) /\ snaps' = snaps
  BY DEF CompleteRunning
<1>2. row \in Rows
  BY RowTyped DEF RestInv
<1>3. r \in Rows /\ r.status = "running" /\ r.vmid = row.vmid /\ r.size = row.size
  BY <1>2 DEF Rows, Statuses, Power
<1> HIDE DEF r
<1>4. PointSizes'
  BY <1>1, PointsSettle DEF HostSame
<1> QED
  BY <1>1, <1>3, <1>4, ClearedEnds DEF SizeMatches, Power

LEMMA DeleteCompleted ==
  ASSUME RestInv, IInv', HostSame, last' = last, NEW o, CompleteDelete(o, TRUE)
  PROVE  IdleInv'
<1> DEFINE r == [row EXCEPT !.status = "deleted", !.vmid = NoVm]
<1>1. row' = Cleared(r) /\ row.desired = "deleted"
      /\ snaps' = [n \in Snapshots |-> IF snaps[n].status = "none" THEN snaps[n]
                                        ELSE [snaps[n] EXCEPT !.status = "deleted", !.op = 0]]
  BY DEF CompleteDelete, DeletableBy
<1>2. row \in Rows /\ snaps \in [Snapshots -> PointRows]
  BY RowTyped DEF RestInv
<1>3. r \in Rows /\ r.desired = "deleted"
  BY <1>1, <1>2 DEF Rows, Statuses, Vmids
<1> HIDE DEF r
<1>4. PointSizes'
  BY <1>1, <1>2, PointsSettle DEF HostSame, PointRows
<1> QED
  BY <1>1, <1>3, <1>4, ClearedEnds

LEMMA PointSettled ==
  ASSUME RestInv, stored' = stored, NEW n \in Snapshots, NEW st \in {"ready", "failed"},
         snaps[n].status \in {"creating", "restoring"}, SettleSnapshot(n, st)
  PROVE  PointSizes'
<1>1. snaps \in [Snapshots -> PointRows]
  BY RowTyped DEF RestInv
<1>2. \A m \in Snapshots : /\ snaps'[m].size = snaps[m].size
                           /\ snaps'[m].status = (IF m = n THEN st ELSE snaps[m].status)
  BY <1>1 DEF SettleSnapshot, PointRows
<1> QED
  BY <1>2, PointsSettle

LEMMA RestoreCompleted ==
  ASSUME RestInv, IInv', HostSame, last' = last, NEW o, NEW n \in Snapshots,
         CompleteRestore(o, n, TRUE), Ours(row.vmid), vm.power = "stopped", vm.config = stored[n],
         stored[n] # Absent
  PROVE  IdleInv'
<1> DEFINE r == [row EXCEPT !.status = "stopped", !.desired = "stopped", !.size = snaps[n].size]
<1>1. row' = Cleared(r) /\ SettleSnapshot(n, "ready") /\ snaps[n].status = "restoring"
  BY DEF CompleteRestore, SnapshotOwned
<1>2. row \in Rows /\ snaps[n].size \in Ops
  BY RowTyped DEF RestInv, PointRows
<1>3. snaps[n].size = vm.config
  BY <1>1 DEF RestInv, IdleInv, PointSizes
<1>4. r \in Rows /\ r.status = "stopped" /\ r.desired = "stopped" /\ r.vmid = row.vmid
      /\ r.size = snaps[n].size
  BY <1>2 DEF Rows, Statuses, Desires, Power
<1> HIDE DEF r
<1>5. PointSizes'
  BY <1>1, PointSettled DEF HostSame
<1> QED
  BY <1>1, <1>3, <1>4, <1>5, ClearedEnds DEF Power
-----------------------------------------------------------------------------
(* The stored functions after which an operation goes on, or begins.       *)

LEMMA Continued ==
  ASSUME RestInv, IInv', HostSame, last' = last, NEW o, Continue(o, TRUE), Ours(row.vmid),
         row.kind = "resize" => vm.config = row.op,
         worker'.step = "idle", poll' = poll, SweepsTrue'
  PROVE  IdleInv'
<1> DEFINE size == IF row.kind = "resize" THEN o ELSE row.size
           new == [row EXCEPT !.status = "provisioning", !.size = size]
<1>1. /\ row' = new /\ snaps' = snaps
      /\ row.op = o /\ row.kind \in StartLike /\ row.desired = "running"
  BY DEF Continue
<1>2. row \in Rows /\ row.op \in Ops
  BY RowTyped DEF RestInv, Rows
<1>3. size \in Ops /\ (row.kind = "resize" => size = row.op) /\ (row.kind # "resize" => size = row.size)
  BY <1>1, <1>2 DEF Rows
<1> HIDE DEF size
<1>4. /\ row'.status = "provisioning" /\ row'.size = size /\ row'.op = row.op /\ row'.kind = row.kind
      /\ row'.desired = row.desired /\ row'.vmid = row.vmid /\ row'.snap = row.snap
  BY <1>1, <1>2, <1>3 DEF Rows, Statuses
<1> HIDE DEF new
<1>5. ~Doomed /\ ~Doomed'
  BY <1>1, <1>4 DEF Doomed
<1>6. RowFits'
  BY <1>1, <1>3, <1>4, Facts DEF RestInv, IdleInv, RowFits, StartLike, Lifecycle
<1>7. HostFits'
  BY <1>4, HostFitsKept, Facts
<1>8. SizeShown'
  <2>1. vm.slot # NoVm
    BY DEF Ours
  <2>2. CASE row.kind = "resize"
    BY <1>3, <1>4, <2>1, <2>2 DEF SizeShown, HostSame
  <2>3. CASE row.kind # "resize"
    <3>1. vm.config = row.size
      BY <1>1, <1>5, <2>1, <2>3 DEF RestInv, IdleInv, SizeShown, StartLike
    <3> QED
      BY <1>3, <1>4, <2>1, <2>3, <3>1 DEF SizeShown, HostSame
  <2> QED
    BY <2>2, <2>3
<1>9. VmThere' /\ PowerShown'
  BY <1>4 DEF VmThere, PowerShown, Ours, HostSame, Power
<1>10. LogTrue' /\ WorkerTrue'
  BY <1>4, <1>5 DEF RestInv, IdleInv, LogTrue, WorkerTrue, HostSame
<1>11. PollTrue'
  BY <1>4, <1>5 DEF RestInv, IdleInv, PollTrue, HostSame
<1>12. PointSizes'
  BY <1>1, PointsSettle DEF HostSame
<1> QED
  BY <1>6, <1>7, <1>8, <1>9, <1>10, <1>11, <1>12 DEF IdleInv

(* The launch goes on: it has learned its VMID, or passed a stage.         *)
LEMMA Launching ==
  ASSUME RestInv, IInv', HostSame, last' = last, snaps' = snaps, row.op = 1, row'.op = 1,
         row'.kind = row.kind, row'.status = row.status, row'.desired = row.desired,
         row'.size = row.size, row'.snap = row.snap, row.vmid # NoVm => row'.vmid = row.vmid,
         worker' = worker, poll' = poll,
         \A s \in Sweepers : sweep'[s] = sweep[s] \/ sweep'[s].step # "apply"
                             \/ sweep'[s].plan \in {<<"error">>, <<"delete">>}
  PROVE  IdleInv'
<1>1. row.kind = "provision" /\ ~Active
  BY Facts
<1>2. Doomed' <=> Doomed
  BY DEF Doomed
<1>3. RowFits'
  BY <1>1 DEF RestInv, IdleInv, RowFits, StartLike, Lifecycle
<1>4. HostFits'
  BY HostFitsKept, Facts
<1>5. VmThere' /\ PowerShown' /\ WorkerTrue'
  BY <1>1 DEF VmThere, PowerShown, Untried, WorkerTrue, Active
<1>6. SizeShown'
  BY <1>1, <1>2 DEF RestInv, IdleInv, SizeShown, HostSame, Active
<1>7. PointSizes'
  BY PointsSettle DEF HostSame
<1>8. LogTrue'
  BY DEF RestInv, IdleInv, HostFits, LogTrue, HostSame
<1>9. PollTrue'
  BY <1>2 DEF RestInv, IdleInv, PollTrue, HostSame
<1>10. ASSUME NEW s \in Sweepers PROVE SweepTrue(s)'
  <2>1. CASE sweep'[s] = sweep[s]
    BY <1>1, <1>2, <2>1 DEF RestInv, IdleInv, SweepsTrue, SweepTrue, SnapshotOwned, HostSame, Ours
  <2>2. CASE sweep'[s].step # "apply"
    BY <2>2 DEF SweepTrue
  <2>3. CASE sweep'[s].plan \in {<<"error">>, <<"delete">>}
    <3>1. \A p \in {<<"error">>, <<"delete">>} :
            p \notin Runs \cup Observes \cup Looks \cup {<<"restore">>, <<"checkpoint">>}
      BY DEF Runs, Observes, Looks
    <3> QED
      BY <2>3, <3>1 DEF SweepTrue, Runs, Observes, Looks
  <2> QED
    BY <2>1, <2>2, <2>3
<1> QED
  BY <1>3, <1>4, <1>5, <1>6, <1>7, <1>8, <1>9, <1>10 DEF IdleInv, SweepsTrue

LEMMA Begun ==
  ASSUME RestInv, IInv', HostSame, row.op = 0, row.desired # "deleted",
         row.vmid # NoVm, last' = last + 1, row'.op = last + 1,
         row'.kind \in Lifecycle, row'.kind \in Actions,
         row'.status = row.status, row'.size = row.size, row'.vmid = row.vmid,
         row'.kind \in StartLike => row'.desired = "running",
         row'.kind \in {"stop", "restore"} => row'.desired = "stopped",
         row'.kind = "snapshot" => /\ snaps'[row'.snap].size = row.size
                                   /\ snaps'[row'.snap].status # "none",
         worker'.kind = row'.kind, worker'.op = row'.op, worker'.step \in {"prepare", "script"},
         poll' = poll, sweep' = sweep, PointSizes'
  PROVE  IdleInv'
<1>1. /\ row.kind = "none" /\ row'.op \in Nat /\ row'.op # 0 /\ row'.op # 1 /\ ~Doomed
      /\ row.status # "provisioning" /\ last + 1 > last /\ last \in Nat
  BY Facts, RowTyped DEF RestInv, IInv, StateType, RowShape, Doomed, Ops
<1>2. RowFits'
  BY <1>1 DEF RowFits, Lifecycle, StartLike
<1>3. HostFits'
  BY <1>1, HostFitsKept, Facts
<1>4. VmThere'
  BY <1>1 DEF RestInv, IdleInv, VmThere, HostSame, Ours
<1>5. log.op # row'.op
  <2>1. log.op <= last /\ log.op \in Nat
    BY DEF RestInv, IdleInv, HostFits, IInv, StateType, HostType, Ops
  <2> QED
    BY <1>1, <2>1
<1>6. SizeShown'
  BY <1>1, <1>5 DEF RestInv, IdleInv, SizeShown, HostSame
<1>7. PowerShown'
  <2>1. CASE row'.kind \in StartLike
    BY <1>1, <2>1 DEF RestInv, IdleInv, PowerShown, Untried, HostSame, StartLike
  <2>2. CASE row'.kind = "stop"
    BY <1>1, <2>2 DEF RestInv, IdleInv, PowerShown, Untried, HostSame
  <2>3. CASE row'.kind \in PointKinds
    BY <1>1, <2>3 DEF PowerShown, Untried, PointKinds, Powering, StartLike
  <2> QED
    BY <2>1, <2>2, <2>3 DEF Lifecycle, PointKinds
<1>8. LogTrue' /\ WorkerTrue'
  BY <1>5 DEF LogTrue, WorkerTrue, HostSame
<1>9. PollTrue'
  <2>1. poll.op <= last /\ poll.op \in Nat
    BY DEF RestInv, IInv, StateType, PollType, IdsInOrder, Ops
  <2> QED
    BY <1>1, <2>1 DEF PollTrue
<1>10. SweepsTrue'
  <2>1. \A s \in Sweepers : sweep[s].op <= last /\ sweep[s].op \in Nat
    BY DEF RestInv, IInv, StateType, SweepType, IdsInOrder, Ops
  <2> QED
    BY <1>1, <2>1 DEF SweepsTrue, SweepTrue
<1> QED
  BY <1>2, <1>3, <1>4, <1>6, <1>7, <1>8, <1>9, <1>10 DEF IdleInv

(* The owner asks for deletion.                                            *)
LEMMA DoomedInv ==
  ASSUME Doomed', RowFits', HostFits', PointSizes'
  PROVE  IdleInv'
BY DEF IdleInv, VmThere, SizeShown, PowerShown, LogTrue, WorkerTrue, PollTrue, SweepsTrue, SweepTrue
-----------------------------------------------------------------------------
(* Steps on the host.                                                      *)

LEMMA LogTyped ==
  ASSUME RestInv
  PROVE  /\ log.op \in Nat /\ log \in [op : Ops, result : Markers] /\ vm \in [slot : Vmids, power : Power, config : Ops]
         /\ worker \in [step : WorkerSteps, op : Ops, kind : Kinds, vmid : Vmids, snap : Points, power : Power]
         /\ stored \in [Snapshots -> Ops \cup {Absent}]
BY DEF RestInv, IInv, StateType, HostType, VmType, WorkerType, Ops

(* Destroying the VM of a row that is to be deleted.                       *)
LEMMA DestroyedDoomed ==
  ASSUME RestInv, RowSame, last' = last, Doomed, NEW v, Destroy(v), log' \in {log, NoLog}
  PROVE  IdleInv'
<1>1. RowFits' /\ Doomed'
  BY DEF RestInv, IdleInv, RowFits, RowSame, Doomed
<1>2. HostFits'
  BY Facts, DestroyMoves DEF RestInv, IdleInv, HostFits, RowSame, Destroy, Gone, NoLog
<1>3. PointSizes'
  BY DEF RestInv, IdleInv, PointSizes, RowSame, Destroy
<1> QED
  BY <1>1, <1>2, <1>3, DoomedInv

(* Removing the VM of a launch that still is on the row.                   *)
LEMMA LaunchRemoved ==
  ASSUME RestInv, RowSame, last' = last, row.op = 1, NEW v, Destroy(v), log' \in {log, NoLog},
         vm'.slot = NoVm, worker' = worker, poll' = poll, SweepsTrue',
         ~(poll.step = "running" /\ poll.kind = "provision")
  PROVE  IdleInv'
<1>1. ~Active /\ row.kind = "provision"
  BY Facts
<1>2. RowFits'
  BY DEF RestInv, IdleInv, RowFits, RowSame
<1>3. HostFits' /\ log'.op # 1
  BY Facts, DestroyMoves DEF RestInv, IdleInv, HostFits, RowSame, Destroy, NoLog
<1>4. PointSizes'
  BY DEF RestInv, IdleInv, PointSizes, RowSame, Destroy
<1>5. VmThere' /\ SizeShown' /\ PowerShown' /\ LogTrue' /\ WorkerTrue'
  BY <1>1, <1>3 DEF VmThere, SizeShown, PowerShown, Untried, LogTrue, WorkerTrue, RowSame, Active
<1>6. PollTrue'
  BY DEF RestInv, IdleInv, PollTrue, RowSame, Doomed, IInv, PollMatch
<1> QED
  BY <1>2, <1>3, <1>4, <1>5, <1>6 DEF IdleInv

(* Only the logs of a VM that is gone are removed.                         *)
LEMMA LogsErased ==
  ASSUME RestInv, IInv', RowSame, last' = last, vm' = vm, stored' = stored, foreign' = foreign,
         woken => woken', log' = NoLog, vm.slot = NoVm, worker' = worker, poll' = poll, SweepsTrue'
  PROVE  IdleInv'
<1>1. RowFits' /\ VmThere' /\ SizeShown' /\ PowerShown' /\ PointSizes'
  BY DEF RestInv, IdleInv, RowFits, VmThere, SizeShown, PowerShown, Untried, PointSizes, RowSame, Ours, Doomed
<1>2. HostFits'
  BY Facts DEF RestInv, IdleInv, HostFits, RowSame, NoLog
<1>3. LogTrue' /\ WorkerTrue'
  <2>1. worker.step \in {"prepare", "script"} => worker.op # 0
    BY DEF RestInv, IInv, WorkerLease, Active
  <2> QED
    BY <2>1 DEF RestInv, IdleInv, LogTrue, WorkerTrue, NoLog, RowSame, Doomed
<1>4. PollTrue'
  BY DEF RestInv, IdleInv, PollTrue, LogTrue, RowSame, Doomed, IInv, PollMatch
<1> QED
  BY <1>1, <1>2, <1>3, <1>4 DEF IdleInv

(* A script of the owner's request: polls and sweeps that could see it     *)
(* have another operation.                                                 *)
LEMMA ScriptAlone ==
  ASSUME RestInv, Active, RowSame, poll' = poll, sweep' = sweep
  PROVE  PollTrue' /\ SweepsTrue'
<1>1. row.op = worker.op /\ poll.op # worker.op /\ \A s \in Sweepers : sweep[s].op # worker.op
  BY DEF RestInv, IInv, WorkerLease
<1> QED
  BY <1>1 DEF PollTrue, SweepsTrue, SweepTrue, RowSame

LEMMA OutcomeFacts ==
  ASSUME RestInv, NEW kind \in Powering, NEW o, NEW out \in Outcomes(kind, o)
  PROVE  /\ kind # "resize" => out.config = vm.config /\ out.next # "refused"
         /\ kind = "stop" => out.power = "stopped"
         /\ kind = "resize" =>
              /\ out.config \in {vm.config, o}
              /\ out.next = "refused" => out.config = vm.config /\ out.power \in {vm.power, "running"}
              /\ out.next = "settle" => out.config = o
              /\ out.receipt => out.config = o
<1>1. CASE kind = "stop"
  BY <1>1 DEF Outcomes, Reached
<1>2. CASE kind = "start"
  BY <1>2 DEF Outcomes, Reached
<1>3. CASE kind = "restart"
  BY <1>3 DEF Outcomes, Reached
<1>4. CASE kind = "resize"
  <2>1. /\ out.config \in {vm.config, o}
        /\ out.next = "refused" => out.config = vm.config /\ out.power \in {vm.power, "running"}
        /\ out.next = "settle" => out.config = o
    BY <1>4 DEF Outcomes, Reached
  <2>2. out.receipt => out.config = o
    BY <1>4 DEF Outcomes, Reached
  <2> QED
    BY <1>4, <2>1, <2>2
<1> QED
  BY <1>1, <1>2, <1>3, <1>4 DEF Powering, StartLike

LEMMA WorkerNext ==
  ASSUME RestInv
  PROVE  /\ WorkerEnds => worker'.step = "idle"
         /\ \A step : WorkerTo(step) =>
              /\ worker'.step = step /\ worker'.op = worker.op /\ worker'.kind = worker.kind
              /\ worker'.snap = worker.snap /\ worker'.vmid = worker.vmid
BY LogTyped DEF WorkerEnds, WorkerTo, IdleWorker

LEMMA PowerScriptIdle ==
  ASSUME RestInv, IInv', PowerScript
  PROVE  IdleInv'
<1>1. /\ worker.step = "script" /\ worker.kind \in Powering /\ Active /\ RowSame
      /\ last' = last /\ poll' = poll /\ sweep' = sweep
  BY DEF PowerScript, WorkerAt, KeepRow, dbVars, WorkerQuiet, clockVars, Active, RowSame, Powering
<1>2. /\ row.op = worker.op /\ row.kind = worker.kind /\ row.op > 1 /\ row.op <= last /\ row.op # 0
      /\ row.status # "provisioning"
  BY <1>1, Facts DEF Powering, StartLike
<1>3. PollTrue' /\ SweepsTrue'
  BY <1>1, ScriptAlone
<1>4. CASE WorkerEnds /\ KeepHost
  <2>1. HostSame /\ worker'.step = "idle"
    BY <1>4 DEF KeepHost, hostVars, HostSame, WorkerEnds, IdleWorker
  <2> QED
    BY <1>1, <1>3, <2>1, Quiet DEF WorkerTrue
<1>5. ASSUME NEW out \in Outcomes(worker.kind, worker.op), Ours(worker.vmid),
             vm' = [vm EXCEPT !.power = out.power, !.config = out.config],
             log' = (IF out.receipt THEN [op |-> worker.op, result |-> "none"] ELSE log),
             woken' = (out.power = "running" /\ (woken \/ Wakes(out))),
             WorkerEnds \/ (out.next # "idle" /\ WorkerTo(out.next)),
             UNCHANGED <<foreign, stored>>
      PROVE  IdleInv'
  <2>1. vm'.slot = vm.slot /\ vm'.power = out.power /\ vm'.config = out.config /\ vm.slot # NoVm
    BY <1>5, LogTyped DEF Ours
  <2>2. \/ worker'.step = "idle"
        \/ worker'.step = out.next /\ worker'.kind = worker.kind /\ worker'.op = worker.op
    BY <1>5, LogTyped DEF WorkerEnds, WorkerTo, IdleWorker
  <2>3. /\ log'.op \in {log.op, worker.op}
        /\ log'.op = worker.op /\ log.op # worker.op => out.receipt /\ log'.result = "none"
    BY <1>5
  <2>4. /\ out.next \in {"settle", "refused", "idle"}
        /\ worker.kind # "resize" => out.config = vm.config /\ out.next # "refused"
        /\ worker.kind = "stop" => out.power = "stopped"
        /\ worker.kind = "resize" =>
              /\ out.config \in {vm.config, worker.op}
              /\ out.next = "refused" => out.config = vm.config /\ out.power \in {vm.power, "running"}
              /\ out.next = "settle" => out.config = worker.op
              /\ out.receipt => out.config = worker.op
    BY <1>1, OutcomeFacts, OutcomesTyped DEF RestInv
  <2>5. RowFits' /\ PointSizes'
    BY <1>1, <1>5 DEF RestInv, IdleInv, RowFits, PointSizes, RowSame
  <2>6. HostFits'
    BY <1>1, <1>2, <1>5, <2>1, <2>3 DEF RestInv, IdleInv, HostFits, RowSame
  <2>7. CASE Doomed
    BY <1>1, <2>5, <2>6, <2>7, DoomedInv DEF Doomed, RowSame
  <2>8. CASE ~Doomed
    <3>1. log.op # worker.op
      BY <1>1, <2>8 DEF RestInv, IdleInv, WorkerTrue
    <3>2. VmThere'
      BY <1>1, <2>1 DEF RestInv, IdleInv, VmThere, RowSame, Doomed, Ours
    <3>3. vm.config = row.size
      BY <1>1, <1>2, <2>1, <2>8 DEF RestInv, IdleInv, SizeShown, Powering, StartLike
    <3>4. SizeShown'
      BY <1>1, <1>2, <2>1, <2>2, <2>3, <2>4, <3>1, <3>3 DEF SizeShown, RowSame
    <3>5. PowerShown'
      <4>1. Untried' => worker'.step = "refused" /\ worker.kind = "resize"
        BY <1>1, <1>2, <2>2, <2>4 DEF Untried, RowSame
      <4>2. row.status \in Power => vm.power = row.status \/ (row.status = "stopped" /\ woken)
        BY <1>1, <2>8 DEF RestInv, IdleInv, PowerShown, Untried
      <4>3. ASSUME out.power = "running", out.next = "refused", row.status = "stopped"
            PROVE  woken'
        <5>1. CASE vm.power = "running"
          <6>1. woken
            BY <4>2, <4>3, <5>1 DEF Power
          <6> QED
            BY <1>5, <4>3, <6>1
        <5>2. CASE vm.power # "running"
          <6>1. Wakes(out)
            BY <4>3, <5>2 DEF Wakes
          <6> QED
            BY <1>5, <4>3, <6>1
        <5> QED
          BY <5>1, <5>2
      <4>4. ASSUME Untried', row.status \in Power
            PROVE  vm'.power = row.status \/ (row.status = "stopped" /\ woken')
        <5>1. out.next = "refused" /\ out.power \in {vm.power, "running"}
          BY <2>2, <2>4, <4>1, <4>4
        <5>2. vm.power \in Power
          BY LogTyped
        <5> QED
          BY <2>1, <4>2, <4>3, <4>4, <5>1, <5>2 DEF Power
      <4> QED
        BY <1>1, <4>4 DEF PowerShown, RowSame
    <3>6. LogTrue'
      BY <1>1, <1>2, <2>3, <3>1 DEF LogTrue, RowSame
    <3>7. WorkerTrue'
      BY <1>1, <2>1, <2>2, <2>4 DEF WorkerTrue, RowSame, Powering, StartLike
    <3> QED
      BY <1>3, <2>5, <2>6, <3>2, <3>4, <3>5, <3>6, <3>7 DEF IdleInv
  <2> QED
    BY <2>7, <2>8
<1> QED
  BY <1>4, <1>5 DEF PowerScript

LEMMA SnapshotScriptIdle ==
  ASSUME RestInv, IInv', SnapshotScript
  PROVE  IdleInv'
<1>1. /\ worker.step = "script" /\ worker.kind = "snapshot" /\ Active /\ RowSame
      /\ last' = last /\ poll' = poll /\ sweep' = sweep
  BY DEF SnapshotScript, WorkerAt, KeepRow, dbVars, WorkerQuiet, clockVars, Active, RowSame
<1>2. /\ row.op = worker.op /\ row.kind = "snapshot" /\ row.op > 1 /\ row.op # 0 /\ ~Doomed
      /\ worker.snap = row.snap /\ row.snap \in Snapshots
  BY <1>1, Facts DEF Doomed, RestInv, IInv, WorkerLease, RowShape, PointKinds
<1>3. PollTrue' /\ SweepsTrue'
  BY <1>1, ScriptAlone
<1>4. CASE WorkerEnds /\ KeepHost
  <2>1. HostSame /\ worker'.step = "idle"
    BY <1>4 DEF KeepHost, hostVars, HostSame, WorkerEnds, IdleWorker
  <2> QED
    BY <1>1, <1>3, <2>1, Quiet DEF WorkerTrue
<1>5. CASE /\ Ours(worker.vmid)
           /\ stored' = [stored EXCEPT ![worker.snap] = vm.config]
           /\ WorkerEnds \/ worker' = [worker EXCEPT !.step = "settle", !.power = vm.power]
           /\ UNCHANGED <<vm, foreign, log>>
  <2>1. \/ worker'.step = "idle"
        \/ worker'.step = "settle" /\ worker'.kind = "snapshot" /\ worker'.power = vm.power
    <3>1. worker' = [worker EXCEPT !.step = "settle", !.power = vm.power] =>
            worker'.step = "settle" /\ worker'.kind = worker.kind /\ worker'.power = vm.power
      BY LogTyped
    <3> QED
      BY <1>1, <1>5, <3>1, WorkerNext
  <2>2. vm.slot # NoVm
    BY <1>5 DEF Ours
  <2>3. RowFits' /\ HostFits' /\ VmThere' /\ LogTrue'
    BY <1>1, <1>5 DEF RestInv, IdleInv, RowFits, HostFits, VmThere, LogTrue, RowSame, Doomed, Ours
  <2>4. vm.config = row.size
    BY <1>2, <2>2 DEF RestInv, IdleInv, SizeShown
  <2>5. SizeShown' /\ PowerShown'
    BY <1>1, <1>2, <1>5, <2>1, <2>4 DEF SizeShown, PowerShown, Untried, RowSame
  <2>6. PointSizes'
    <3>1. snaps[row.snap].size = row.size /\ snaps[row.snap].status # "none"
      BY <1>2 DEF RestInv, IdleInv, RowFits
    <3>2. \A n \in Snapshots : stored'[n] = IF n = row.snap THEN vm.config ELSE stored[n]
      BY <1>2, <1>5, LogTyped
    <3> QED
      BY <1>1, <2>4, <3>1, <3>2 DEF RestInv, IdleInv, PointSizes, RowSame
  <2>7. WorkerTrue'
    BY <1>5, <2>1, <2>2 DEF WorkerTrue
  <2> QED
    BY <1>3, <2>3, <2>5, <2>6, <2>7 DEF IdleInv
<1> QED
  BY <1>4, <1>5 DEF SnapshotScript

LEMMA RestoreScriptIdle ==
  ASSUME RestInv, IInv', RestoreScript
  PROVE  IdleInv'
<1>1. /\ worker.step = "script" /\ worker.kind = "restore" /\ Active /\ RowSame
      /\ last' = last /\ poll' = poll /\ sweep' = sweep
  BY DEF RestoreScript, WorkerAt, KeepRow, dbVars, WorkerQuiet, clockVars, Active, RowSame
<1>2. /\ row.op = worker.op /\ row.kind = "restore" /\ row.op > 1 /\ row.op # 0
      /\ worker.snap = row.snap /\ row.status # "provisioning"
  BY <1>1, Facts DEF Doomed, RestInv, IInv, WorkerLease, PointKinds
<1>3. PollTrue' /\ SweepsTrue'
  BY <1>1, ScriptAlone
<1>4. CASE WorkerEnds /\ KeepHost
  <2>1. HostSame /\ worker'.step = "idle"
    BY <1>4 DEF KeepHost, hostVars, HostSame, WorkerEnds, IdleWorker
  <2> QED
    BY <1>1, <1>3, <2>1, Quiet DEF WorkerTrue
<1>5. ASSUME NEW config \in {vm.config, stored[worker.snap]}, Ours(worker.vmid), stored[worker.snap] # Absent,
             vm'.slot = vm.slot, vm'.power = "stopped", vm'.config = config,
             worker'.step = "idle" \/ (/\ worker'.step = "settle" /\ worker'.kind = "restore"
                                       /\ worker'.snap = worker.snap /\ config = stored[worker.snap]),
             UNCHANGED <<foreign, log, stored>>
      PROVE  IdleInv'
  <2>1. vm.slot # NoVm
    BY <1>5 DEF Ours
  <2>2. RowFits' /\ VmThere' /\ PointSizes'
    BY <1>1, <1>5 DEF RestInv, IdleInv, RowFits, VmThere, PointSizes, RowSame, Doomed, Ours
  <2>3. HostFits'
    BY <1>1, <1>2, <1>5 DEF RestInv, IdleInv, HostFits, RowSame
  <2>4. CASE Doomed
    BY <1>1, <2>2, <2>3, <2>4, DoomedInv DEF Doomed, RowSame
  <2>5. CASE ~Doomed
    <3>1. log.op # row.op
      BY <1>1, <1>2, <2>5 DEF RestInv, IdleInv, WorkerTrue
    <3>2. vm.config \in {row.size, stored[row.snap]}
      BY <1>2, <2>1, <2>5 DEF RestInv, IdleInv, SizeShown
    <3>3. SizeShown' /\ PowerShown'
      BY <1>1, <1>2, <1>5, <3>1, <3>2 DEF SizeShown, PowerShown, Untried, RowSame, Powering, StartLike
    <3>4. LogTrue' /\ WorkerTrue'
      BY <1>1, <1>2, <1>5, <2>1, <3>1 DEF LogTrue, WorkerTrue, RowSame
    <3> QED
      BY <1>3, <2>2, <2>3, <3>3, <3>4 DEF IdleInv
  <2> QED
    BY <2>4, <2>5
<1>6. CASE ~(WorkerEnds /\ KeepHost)
  <2>1. /\ Ours(worker.vmid) /\ stored[worker.snap] # Absent /\ UNCHANGED <<foreign, log, stored>>
        /\ \/ vm' = [vm EXCEPT !.power = "stopped"] /\ WorkerEnds
           \/ /\ vm' = [vm EXCEPT !.power = "stopped", !.config = stored[worker.snap]]
              /\ WorkerEnds \/ WorkerTo("settle")
    BY <1>6 DEF RestoreScript
  <2>2. \/ vm'.slot = vm.slot /\ vm'.power = "stopped" /\ vm'.config = vm.config /\ worker'.step = "idle"
        \/ /\ vm'.slot = vm.slot /\ vm'.power = "stopped" /\ vm'.config = stored[worker.snap]
           /\ worker'.step = "idle" \/ (/\ worker'.step = "settle" /\ worker'.kind = "restore"
                                        /\ worker'.snap = worker.snap)
    <3>1. vm' = [vm EXCEPT !.power = "stopped"] =>
            vm'.slot = vm.slot /\ vm'.power = "stopped" /\ vm'.config = vm.config
      BY LogTyped
    <3>2. vm' = [vm EXCEPT !.power = "stopped", !.config = stored[worker.snap]] =>
            vm'.slot = vm.slot /\ vm'.power = "stopped" /\ vm'.config = stored[worker.snap]
      BY LogTyped
    <3> QED
      BY <1>1, <2>1, <3>1, <3>2, WorkerNext
  <2> QED
    BY <1>5, <2>1, <2>2
<1> QED
  BY <1>4, <1>6

LEMMA AllocatedIdle ==
  ASSUME RestInv, IInv', PostPhase1
  PROVE  IdleInv'
<1>1. /\ RowSame /\ UNCHANGED <<last, foreign, log, stored, worker, poll, sweep>>
      /\ vm' = vm \/ \E v \in Slots \ foreign : vm' = [slot |-> v, power |-> "running", config |-> 0]
  BY DEF PostPhase1, KeepRow, dbVars, PostQuiet, PostAlone, clockVars, RowSame
<1>2. /\ row.op = 1 /\ row.kind = "provision" /\ ~Active /\ poll.step = "idle"
      /\ \A s \in Sweepers : sweep[s].step = "idle"
  BY Facts DEF PostPhase1, PostAt, RestInv, IInv, EarlyAlone, EarlySteps
<1>3. vm' # vm => vm'.slot \notin foreign /\ vm'.power = "running" /\ vm'.config = 0
  BY <1>1
<1>4. RowFits' /\ PointSizes'
  BY <1>1 DEF RestInv, IdleInv, RowFits, PointSizes, RowSame
<1>5. HostFits'
  BY <1>1, <1>3 DEF RestInv, IdleInv, HostFits, RowSame
<1>6. VmThere' /\ PowerShown' /\ WorkerTrue' /\ PollTrue' /\ SweepsTrue'
  BY <1>1, <1>2 DEF VmThere, PowerShown, Untried, WorkerTrue, PollTrue, SweepsTrue, SweepTrue, RowSame, Active
<1>7. SizeShown' /\ LogTrue'
  BY <1>1, <1>2, <1>3 DEF RestInv, IdleInv, SizeShown, LogTrue, RowFits, HostFits, RowSame, Active, Doomed
<1> QED
  BY <1>4, <1>5, <1>6, <1>7 DEF IdleInv

LEMMA HostIdle ==
  ASSUME RestInv, IInv', InstallerFinishes \/ HelperFinishes \/ ForeignAppears \/ GoesStale
  PROVE  IdleInv'
<1>1. RowSame /\ UNCHANGED <<last, vm, woken, stored, worker, poll, sweep>>
  BY DEF InstallerFinishes, HelperFinishes, ForeignAppears, GoesStale, dbVars, clockVars, hostVars, RowSame
<1>2. CASE InstallerFinishes \/ GoesStale
  <2>1. HostSame
    BY <1>2 DEF InstallerFinishes, GoesStale, hostVars, HostSame
  <2> QED
    BY <1>1, <2>1, Quiet, SeenSame
<1>3. CASE ForeignAppears
  <2>1. vm.slot \notin foreign' \/ vm.slot = NoVm
    BY <1>3 DEF ForeignAppears, RestInv, IdleInv, HostFits
  <2>2. log' = log
    BY <1>3 DEF ForeignAppears
  <2>3. HostFits'
    BY <1>1, <2>1, <2>2 DEF RestInv, IdleInv, HostFits, RowSame
  <2>4. RowFits' /\ VmThere' /\ SizeShown' /\ PointSizes' /\ PowerShown' /\ LogTrue'
    BY <1>1, <2>2 DEF RestInv, IdleInv, RowFits, VmThere, SizeShown, PointSizes, PowerShown, Untried,
      LogTrue, RowSame, Doomed, Ours
  <2>5. WorkerTrue' /\ PollTrue' /\ SweepsTrue'
    BY <1>1, <2>2 DEF RestInv, IdleInv, WorkerTrue, PollTrue, SweepsTrue, SweepTrue, SnapshotOwned,
      RowSame, Doomed, Ours
  <2> QED
    BY <2>3, <2>4, <2>5 DEF IdleInv
<1>4. CASE HelperFinishes
  <2>1. /\ log'.op = log.op /\ foreign' = foreign /\ log.result = "none"
        /\ log'.result = "ready" => vm.slot # NoVm /\ vm.power = "running"
    BY <1>4, LogTyped DEF HelperFinishes
  <2>2. HostFits' /\ LogTrue'
    BY <1>1, <2>1 DEF RestInv, IdleInv, HostFits, LogTrue, RowSame
  <2>3. RowFits' /\ VmThere' /\ SizeShown' /\ PointSizes' /\ PowerShown'
    BY <1>1, <2>1 DEF RestInv, IdleInv, RowFits, VmThere, SizeShown, PointSizes, PowerShown, Untried,
      RowSame, Doomed, Ours
  <2>4. WorkerTrue' /\ PollTrue' /\ SweepsTrue'
    BY <1>1, <2>1 DEF RestInv, IdleInv, WorkerTrue, PollTrue, SweepsTrue, SweepTrue, SnapshotOwned,
      RowSame, Doomed, Ours
  <2> QED
    BY <2>2, <2>3, <2>4 DEF IdleInv
<1> QED
  BY <1>2, <1>3, <1>4
-----------------------------------------------------------------------------
(* The launch.                                                             *)

LEMMA StillIdle ==
  ASSUME RestInv, IInv', HostSame, RowSame, last' = last, worker' = worker, poll' = poll, sweep' = sweep
  PROVE  IdleInv'
BY Quiet, SeenSame

(* A completion of a delete either ends everything or leaves the row.      *)
LEMMA MaybeDeleted ==
  ASSUME RestInv, IInv', HostSame, last' = last, NEW o, NEW ok \in BOOLEAN, CompleteDelete(o, ok)
  PROVE  IdleInv' \/ (RowSame /\ ok = FALSE)
<1>1. CASE ok
  BY <1>1, DeleteCompleted
<1>2. CASE ~ok
  BY <1>2 DEF CompleteDelete, KeepRow, dbVars, RowSame
<1> QED
  BY <1>1, <1>2

LEMMA PostIdle ==
  ASSUME RestInv, IInv', Post, overtaken' = {}
  PROVE  IdleInv'
<1>1. CASE PostTunnel \/ PostCheckpoint \/ PostVerify \/ PostReleaseIntent \/ PostCrash
  BY <1>1, StillIdle DEF PostTunnel, PostCheckpoint, PostVerify, PostReleaseIntent, PostCrash, KeepRow,
     KeepHost, PostQuiet, PostAlone, dbVars, hostVars, clockVars, RowSame, HostSame
<1>2. CASE PostFailBeforeAllocation
  <2>1. /\ HostSame /\ snaps' = snaps /\ UNCHANGED <<last, worker, poll, sweep>>
        /\ row' = row \/ row' = Cleared([row EXCEPT !.status = "error"])
        /\ post.step \in EarlySteps
    BY <1>2 DEF PostFailBeforeAllocation, KeepHost, PostQuiet, PostAlone, hostVars, clockVars, HostSame, PostAt, EarlySteps
  <2>2. vm.slot = NoVm
    BY <2>1 DEF RestInv, BaseInv, RowBase, PostBase, Known
  <2>3. CASE row' = row
    BY <2>1, <2>3, StillIdle DEF RowSame
  <2>4. CASE row' = Cleared([row EXCEPT !.status = "error"])
    <3> DEFINE r == [row EXCEPT !.status = "error"]
    <3>1. r \in Rows /\ r.status = "error"
      BY RowTyped DEF RestInv, Rows, Statuses
    <3>2. row' = Cleared(r)
      BY <2>4
    <3> HIDE DEF r
    <3>3. PointSizes'
      BY <2>1, PointsSettle DEF HostSame
    <3> QED
      BY <2>1, <2>2, <3>1, <3>2, <3>3, ClearedEnds
  <2> QED
    BY <2>1, <2>3, <2>4
<1>3. CASE PostBeginAllocation
  <2>1. /\ HostSame /\ snaps' = snaps /\ UNCHANGED <<last, worker, poll, sweep>>
        /\ row' = row \/ row' = [row EXCEPT !.stage = "none"]
        /\ post.step \in EarlySteps
    BY <1>3 DEF PostBeginAllocation, KeepHost, PostQuiet, PostAlone, hostVars, clockVars, HostSame, PostAt, EarlySteps
  <2>2. /\ row'.op = row.op /\ row'.kind = row.kind /\ row'.status = row.status /\ row'.snap = row.snap
        /\ row'.desired = row.desired /\ row'.size = row.size /\ row'.vmid = row.vmid
    BY <2>1, RowTyped DEF RestInv, Rows
  <2>3. row.op = 1
    BY <2>1 DEF RestInv, IInv, EarlyAlone
  <2> QED
    BY <2>1, <2>2, <2>3, Launching
<1>4. CASE PostPhase1
  BY <1>4, AllocatedIdle
<1>5. CASE PostPersist
  <2>1. /\ HostSame /\ UNCHANGED <<last, worker, poll, sweep>> /\ post.vmid # NoVm
    BY <1>5 DEF PostPersist, KeepHost, PostQuiet, PostAlone, hostVars, clockVars, HostSame, RestInv, BaseInv, PostBase
  <2>2. /\ snaps' = snaps
        /\ row' = row \/ (row' = [row EXCEPT !.vmid = post.vmid] /\ row.op = 1)
    BY <1>5 DEF PostPersist, Persist
  <2>3. CASE row' = row
    BY <2>1, <2>2, <2>3, StillIdle DEF RowSame
  <2>4. CASE row' = [row EXCEPT !.vmid = post.vmid] /\ row.op = 1
    <3>1. /\ row'.op = row.op /\ row'.kind = row.kind /\ row'.status = row.status /\ row'.snap = row.snap
          /\ row'.desired = row.desired /\ row'.size = row.size /\ row'.vmid = post.vmid
      BY <2>4, RowTyped DEF RestInv, Rows
    <3>2. row.vmid # NoVm => row'.vmid = row.vmid
      BY <3>1 DEF RestInv, BaseInv, RowBase, Known
    <3> QED
      BY <2>1, <2>2, <2>4, <3>1, <3>2, Launching
  <2> QED
    BY <2>2, <2>3, <2>4
<1>6. CASE PostRollback
  <2>1. /\ RowSame /\ UNCHANGED <<last, worker, poll, sweep>> /\ post.step # "done"
        /\ KeepHost \/ Rollback(post.vmid)
    BY <1>6 DEF PostRollback, KeepRow, dbVars, PostQuiet, PostAlone, clockVars, RowSame, PostAt
  <2>2. CASE KeepHost
    BY <2>1, <2>2, StillIdle DEF KeepHost, hostVars, HostSame
  <2>3. CASE Rollback(post.vmid) /\ ~Ours(post.vmid)
    BY <2>1, <2>3, StillIdle DEF Rollback, Destroy, HostSame
  <2>4. CASE Rollback(post.vmid) /\ Ours(post.vmid)
    <3>1. Destroy(post.vmid) /\ log' = log /\ vm'.slot = NoVm
      BY <2>4, DestroyMoves DEF Rollback, RestInv
    <3>2. row.op = 1
      BY <2>1, <2>4 DEF RestInv, LeaseInv, HostLease, Ours
    <3>3. SweepsTrue'
      BY <2>1, <3>2 DEF SweepsTrue, SweepTrue, RowSame, RestInv, BaseInv, SweepBase
    <3>4. ~(poll.step = "running" /\ poll.kind = "provision")
      <4>1. installed = "none"
        BY <1>6, <2>1, <2>4, <3>1, Zenon DEF PostRollback, KeepHost, hostVars, Ours
      <4> QED
        BY <2>4, <3>2, <4>1 DEF RestInv, LeaseInv, PollLease, IInv, PollMatch, Ours
    <3> QED
      BY <2>1, <3>1, <3>2, <3>3, <3>4, LaunchRemoved
  <2> QED
    BY <2>1, <2>2, <2>3, <2>4
<1>7. CASE PostCompleteDelete
  <2>1. HostSame /\ UNCHANGED <<last, worker, poll, sweep>> /\ \E ok \in BOOLEAN : CompleteDelete(1, ok)
    BY <1>7 DEF PostCompleteDelete, KeepHost, PostQuiet, PostAlone, hostVars, clockVars, HostSame
  <2> QED
    BY <2>1, MaybeDeleted, StillIdle
<1>8. CASE PostRelease
  <2>1. HostSame /\ UNCHANGED <<last, worker, poll, sweep>> /\ vm.slot = NoVm
    BY <1>8 DEF PostRelease, KeepHost, PostQuiet, PostAlone, hostVars, clockVars, HostSame, PostAt, RestInv, BaseInv,
       PostBase, GoneSteps
  <2>2. PICK ok \in BOOLEAN : Release(1, TRUE, ok)
    BY <1>8 DEF PostRelease
  <2>3. CASE row.op = 1
    <3>1. PICK mark \in BOOLEAN : mark /\ Release(1, mark, ok)
      BY <2>2, Zenon
    <3> QED
      BY <2>1, <2>3, <3>1, Released DEF SizeMatches
  <2>4. CASE row.op # 1
    BY <2>1, <2>2, <2>4, StillIdle DEF Release, RowSame
  <2> QED
    BY <2>3, <2>4
<1> QED
  BY <1>1, <1>2, <1>3, <1>4, <1>5, <1>6, <1>7, <1>8 DEF Post
-----------------------------------------------------------------------------
(* The owner's requests.                                                   *)

LEMMA ClaimFields ==
  ASSUME RestInv, NEW kind \in Lifecycle, NEW desired \in Power, NEW n \in Points,
         NEW step \in {"prepare", "script"}, Claim(kind, desired, n, step)
  PROVE  /\ row.op = 0 /\ row.desired # "deleted" /\ row.vmid # NoVm /\ last' = last + 1
         /\ row'.op = last + 1 /\ row'.kind = kind /\ row'.desired = desired /\ row'.snap = n
         /\ row'.status = row.status /\ row'.size = row.size /\ row'.vmid = row.vmid
         /\ worker'.kind = kind /\ worker'.op = last + 1 /\ worker'.step = step
         /\ HostSame /\ poll' = poll /\ sweep' = sweep
<1> DEFINE new == [row EXCEPT !.op = last + 1, !.kind = kind, !.desired = desired, !.snap = n]
<1>1. row' = new /\ row \in Rows
  BY RowTyped DEF Claim, RestInv
<1>2. /\ new.op = last + 1 /\ new.kind = kind /\ new.desired = desired /\ new.snap = n
      /\ new.status = row.status /\ new.size = row.size /\ new.vmid = row.vmid
  BY <1>1 DEF Rows
<1> HIDE DEF new
<1> QED
  BY <1>1, <1>2 DEF Claim, HostSame, hostVars

LEMMA ClaimIdle ==
  ASSUME RestInv, IInv', ClaimPower \/ BeginSnapshot \/ BeginRestore
  PROVE  IdleInv'
<1>1. NoSnap \in Points /\ Snapshots \subseteq Points /\ snaps \in [Snapshots -> PointRows]
  BY RowTyped DEF Points, RestInv
<1>2. CASE ClaimPower
  <2>1. PICK kind \in Actions \ {"snapshot", "restore"} :
          /\ Claim(kind, IF kind = "stop" THEN "stopped" ELSE "running", NoSnap,
                   IF kind = "resize" THEN "script" ELSE "prepare")
          /\ snaps' = snaps
    BY <1>2 DEF ClaimPower
  <2>2. kind \in Powering /\ kind \in Lifecycle
    BY OpsAssumption DEF Powering, Lifecycle, StartLike
  <2>3. PICK desired \in Power, step \in {"prepare", "script"} :
          /\ Claim(kind, desired, NoSnap, step)
          /\ desired = IF kind = "stop" THEN "stopped" ELSE "running"
    BY <2>1 DEF Power
  <2>4. PointSizes'
    BY <1>1, <2>1, <2>2, <2>3, ClaimFields, PointsSettle DEF HostSame
  <2> QED
    BY <1>1, <2>2, <2>3, <2>4, ClaimFields, Begun DEF Powering, StartLike
<1>3. CASE BeginSnapshot
  <2>1. PICK n \in Snapshots :
          /\ "snapshot" \in Actions /\ row.desired \in Power /\ snaps[n].status = "none"
          /\ Claim("snapshot", row.desired, n, "script")
          /\ snaps' = [snaps EXCEPT ![n] = [status |-> "creating", op |-> last + 1, size |-> row.size]]
    BY <1>3 DEF BeginSnapshot
  <2>2. "snapshot" \in Lifecycle /\ n \in Points
    BY <1>1 DEF Lifecycle
  <2>3. /\ row.op = 0 /\ row.desired # "deleted" /\ row.vmid # NoVm /\ last' = last + 1
        /\ row'.op = last + 1 /\ row'.kind = "snapshot" /\ row'.snap = n
        /\ row'.status = row.status /\ row'.size = row.size /\ row'.vmid = row.vmid
        /\ worker'.kind = "snapshot" /\ worker'.op = last + 1 /\ worker'.step = "script"
        /\ HostSame /\ poll' = poll /\ sweep' = sweep
    BY <2>1, <2>2, ClaimFields
  <2>4. \A m \in Snapshots : m # n => snaps'[m] = snaps[m]
    BY <1>1, <2>1
  <2>5. snaps'[n].size = row.size /\ snaps'[n].status = "creating" /\ stored[n] = Absent
    BY <1>1, <2>1 DEF RestInv, IdleInv, PointSizes
  <2>6. PointSizes'
    BY <2>3, <2>4, <2>5 DEF RestInv, IdleInv, PointSizes, HostSame
  <2> QED
    BY <2>1, <2>2, <2>3, <2>5, <2>6, Begun DEF StartLike
<1>4. CASE BeginRestore
  <2>1. PICK n \in Snapshots :
          /\ "restore" \in Actions /\ snaps[n].status = "ready"
          /\ Claim("restore", "stopped", n, "script")
          /\ snaps' = [snaps EXCEPT ![n].status = "restoring", ![n].op = last + 1]
    BY <1>4 DEF BeginRestore
  <2>2. "restore" \in Lifecycle /\ n \in Points /\ "stopped" \in Power
    BY <1>1 DEF Lifecycle, Power
  <2>3. /\ row.op = 0 /\ row.desired # "deleted" /\ row.vmid # NoVm /\ last' = last + 1
        /\ row'.op = last + 1 /\ row'.kind = "restore" /\ row'.snap = n /\ row'.desired = "stopped"
        /\ row'.status = row.status /\ row'.size = row.size /\ row'.vmid = row.vmid
        /\ worker'.kind = "restore" /\ worker'.op = last + 1 /\ worker'.step = "script"
        /\ HostSame /\ poll' = poll /\ sweep' = sweep
    BY <2>1, <2>2, ClaimFields
  <2>4. \A m \in Snapshots : /\ snaps'[m].size = snaps[m].size
                             /\ snaps'[m].status = (IF m = n THEN "restoring" ELSE snaps[m].status)
    BY <1>1, <2>1 DEF PointRows
  <2>5. PointSizes'
    <3>1. snaps[n].status = "ready" /\ stored' = stored
      BY <2>1, <2>3 DEF HostSame
    <3> QED
      BY <2>4, <3>1, PointsSettle
  <2> QED
    BY <2>1, <2>2, <2>3, <2>5, Begun DEF StartLike
<1> QED
  BY <1>2, <1>3, <1>4

(* A request that has not reached the host, or was refused there, may give *)
(* its lease back.                                                         *)
LEMMA UntriedRested ==
  ASSUME RestInv, worker.step \in {"prepare", "script", "refused"}, worker.kind \in Powering,
         row.desired # "deleted"
  PROVE  Rested /\ SizeMatches
<1>1. Active /\ row.op > 1 /\ row.kind = worker.kind /\ ~Doomed /\ row.status # "provisioning"
  BY Facts DEF Active, Doomed, Powering, StartLike
<1>2. row.status \in Power => Ours(row.vmid)
  BY <1>1, Facts DEF RestInv, IdleInv, VmThere
<1>3. SizeMatches
  BY <1>1 DEF RestInv, IdleInv, SizeShown, SizeMatches, Powering, StartLike
<1> QED
  BY <1>1, <1>2, <1>3 DEF RestInv, IdleInv, PowerShown, Untried, Rested, SizeMatches

(* A request whose answer is in has a VM.                                  *)
LEMMA SettleFacts ==
  ASSUME RestInv, worker.step = "settle"
  PROVE  /\ Active /\ row.op = worker.op /\ row.kind = worker.kind /\ worker.kind \in Lifecycle
         /\ ~Doomed => Ours(row.vmid)
         /\ worker.kind \in PointKinds => worker.snap = row.snap /\ row.snap \in Snapshots
         /\ \A s \in Sweepers : sweep[s].op # row.op
<1>1. worker.kind \in Lifecycle /\ Active
  BY DEF RestInv, IInv, WorkerShape, Active
<1>2. ~Doomed => Ours(row.vmid)
  BY <1>1, Facts DEF RestInv, IdleInv, WorkerTrue, RowFits
<1> QED
  BY <1>1, <1>2, Facts DEF RestInv, IInv, WorkerLease, RowShape

LEMMA SettleIdle ==
  ASSUME RestInv, IInv', SettleAnswer
  PROVE  IdleInv'
<1>1. worker.step = "settle" /\ HostSame /\ UNCHANGED <<last, poll, sweep>>
  BY DEF SettleAnswer, WorkerAt, KeepHost, WorkerQuiet, hostVars, clockVars, HostSame
<1>2. /\ Active /\ row.op = worker.op /\ row.kind = worker.kind /\ worker.kind \in Lifecycle
      /\ ~Doomed => Ours(row.vmid)
      /\ worker.kind \in PointKinds => worker.snap = row.snap /\ row.snap \in Snapshots
      /\ \A s \in Sweepers : sweep[s].op # row.op
  BY <1>1, SettleFacts
<1>3. ASSUME RowSame, WorkerEnds PROVE IdleInv'
  BY <1>1, <1>3, Quiet, SeenSame, WorkerNext DEF WorkerTrue
<1>4. CASE worker.kind = "stop"
  <2>1. PICK ok \in BOOLEAN :
          /\ CompleteOperation(worker.op, "stopped", "stopped", ok)
          /\ snaps' = snaps
          /\ IF ok THEN WorkerEnds ELSE WorkerTo("refused")
    BY <1>4 DEF SettleAnswer, StartLike
  <2>2. CASE ok
    <3>1. CompleteOperation(worker.op, "stopped", "stopped", TRUE) /\ row.desired = "stopped"
      BY <2>1, <2>2 DEF CompleteOperation
    <3>2. ~Doomed
      BY <3>1 DEF Doomed
    <3>3. vm.power = "stopped" /\ SizeMatches
      BY <1>1, <1>2, <1>4, <3>2 DEF RestInv, IdleInv, WorkerTrue, SizeShown, SizeMatches
    <3>4. PointSizes'
      BY <1>1, <2>1, PointsSettle DEF HostSame
    <3> QED
      BY <1>1, <1>2, <3>1, <3>2, <3>3, <3>4, Completed DEF Power
  <2>3. CASE ~ok
    <3>1. RowSame /\ (Doomed \/ row.status = "deleted")
      BY <1>2, <1>4, <2>1, <2>3, Facts
         DEF CompleteOperation, RowSame, Doomed, RestInv, IdleInv, RowFits, Desires, Power
    <3>2. worker'.step = "refused" /\ worker'.kind = "stop"
      BY <1>4, <2>1, <2>3, WorkerNext
    <3> QED
      BY <1>1, <3>1, <3>2, Quiet, SeenSame DEF WorkerTrue, Power
  <2> QED
    BY <2>2, <2>3
<1>5. CASE worker.kind \in StartLike
  <2>1. PICK ok \in BOOLEAN : Continue(worker.op, ok) /\ WorkerEnds
    BY <1>5 DEF SettleAnswer, StartLike
  <2>2. CASE ok
    <3>1. Continue(worker.op, TRUE) /\ row.desired = "running" /\ row'.op = row.op
      BY <2>1, <2>2, RowTyped DEF Continue, RestInv, Rows
    <3>2. ~Doomed
      BY <3>1 DEF Doomed
    <3>3. row.kind = "resize" => vm.config = row.op
      BY <1>1, <1>2, <3>2 DEF RestInv, IdleInv, WorkerTrue
    <3>4. SweepsTrue'
      BY <1>1, <1>2, <3>1 DEF SweepsTrue, SweepTrue
    <3> QED
      BY <1>1, <1>2, <2>1, <3>1, <3>2, <3>3, <3>4, Continued, WorkerNext
  <2>3. CASE ~ok
    BY <1>3, <2>1, <2>3 DEF Continue, RowSame
  <2> QED
    BY <2>2, <2>3
<1>6. CASE worker.kind = "snapshot"
  <2>1. PICK ok \in BOOLEAN : CompleteSnapshot(worker.op, worker.snap, worker.power, ok) /\ WorkerEnds
    BY <1>6 DEF SettleAnswer, StartLike
  <2>2. CASE ok
    <3>1. /\ CompleteOperation(worker.op, worker.power, worker.power, TRUE)
          /\ snaps[worker.snap].status = "creating" /\ SettleSnapshot(worker.snap, "ready")
      BY <2>1, <2>2 DEF CompleteSnapshot, SnapshotOwned
    <3>2. ~Doomed
      BY <1>2, <1>6 DEF Doomed
    <3>3. vm.power = worker.power /\ SizeMatches /\ worker.power \in Power
      BY <1>1, <1>2, <1>6, <3>2, LogTyped DEF RestInv, IdleInv, WorkerTrue, SizeShown, SizeMatches
    <3>4. PointSizes'
      BY <1>1, <1>2, <1>6, <3>1, PointSettled DEF HostSame, PointKinds
    <3> QED
      BY <1>1, <1>2, <3>1, <3>2, <3>3, <3>4, Completed
  <2>3. CASE ~ok
    BY <1>3, <2>1, <2>3 DEF CompleteSnapshot, CompleteOperation, RowSame
  <2> QED
    BY <2>2, <2>3
<1>7. CASE worker.kind = "restore"
  <2>1. PICK ok \in BOOLEAN : CompleteRestore(worker.op, worker.snap, ok) /\ WorkerEnds
    BY <1>7 DEF SettleAnswer, StartLike
  <2>2. CASE ok
    <3>1. CompleteRestore(worker.op, worker.snap, TRUE) /\ row.desired = "stopped"
      BY <2>1, <2>2 DEF CompleteRestore
    <3>2. ~Doomed
      BY <3>1 DEF Doomed
    <3>3. vm.power = "stopped" /\ vm.config = stored[worker.snap] /\ stored[worker.snap] # Absent
      BY <1>1, <1>7, <3>2 DEF RestInv, IdleInv, WorkerTrue
    <3> QED
      BY <1>1, <1>2, <1>7, <3>1, <3>2, <3>3, RestoreCompleted DEF PointKinds
  <2>3. CASE ~ok
    BY <1>3, <2>1, <2>3 DEF CompleteRestore, RowSame
  <2> QED
    BY <2>2, <2>3
<1> QED
  BY <1>2, <1>4, <1>5, <1>6, <1>7 DEF Lifecycle

LEMMA InvalidateIdle ==
  ASSUME RestInv, IInv', InvalidateDesktop \/ ReleaseRefused
  PROVE  IdleInv'
<1>1. /\ worker.step \in {"prepare", "refused"} /\ HostSame /\ UNCHANGED <<last, poll, sweep>>
      /\ worker.kind \in Powering
  <2>1. worker.step \in {"prepare", "refused"} /\ KeepHost /\ UNCHANGED <<last, poll, sweep>>
    BY DEF InvalidateDesktop, ReleaseRefused, WorkerAt, WorkerQuiet, clockVars
  <2>2. worker.kind \in Powering
    BY <2>1 DEF RestInv, IInv, WorkerShape
  <2> QED
    BY <2>1, <2>2 DEF KeepHost, hostVars, HostSame
<1>2. row.op = worker.op
  BY <1>1, Facts DEF Active
<1>3. ASSUME NEW mark \in BOOLEAN, NEW ok \in BOOLEAN, Release(worker.op, mark, ok) PROVE IdleInv'
  <2>1. row.desired = "deleted" \/ (SizeMatches /\ Rested)
    BY <1>1, UntriedRested
  <2> QED
    BY <1>1, <1>2, <1>3, <2>1, Released
<1>4. ASSUME NEW ok \in BOOLEAN, Release(worker.op, FALSE, ok) PROVE IdleInv'
  <2>1. PICK mark \in BOOLEAN : Release(worker.op, mark, ok)
    BY <1>4, Zenon
  <2> QED
    BY <1>3, <2>1
<1>5. CASE ReleaseRefused
  BY <1>4, <1>5 DEF ReleaseRefused
<1>6. CASE InvalidateDesktop
  <2>1. CASE \E ok \in BOOLEAN : Release(worker.op, FALSE, ok)
    BY <1>4, <2>1
  <2>2. CASE WorkerTo("script") /\ KeepRow
    <3>1. /\ worker.step = "prepare" /\ worker'.step = "script" /\ worker'.kind = worker.kind
          /\ worker'.op = worker.op /\ RowSame
      BY <1>6, <2>2, WorkerNext DEF InvalidateDesktop, WorkerAt, KeepRow, dbVars, RowSame
    <3>2. WorkerTrue'
      BY <1>1, <3>1 DEF RestInv, IdleInv, WorkerTrue, RowSame, HostSame, Doomed
    <3> QED
      BY <1>1, <3>1, <3>2, Quiet, SeenSame
  <2> QED
    BY <1>6, <2>1, <2>2 DEF InvalidateDesktop
<1> QED
  BY <1>5, <1>6

LEMMA DeleteIdle ==
  ASSUME RestInv, IInv', DeleteDestroy \/ DeleteFinish \/ DeleteAbort \/ WorkerCrash
  PROVE  IdleInv'
<1>1. UNCHANGED <<last, poll, sweep>> /\ worker.step # "idle"
  BY DEF DeleteDestroy, DeleteFinish, DeleteAbort, WorkerCrash, WorkerAt, WorkerQuiet, clockVars
<1>2. worker.step \in {"destroy", "finish", "abort"} => Doomed /\ row.op = worker.op /\ row.desired = "deleted"
  BY Facts DEF Doomed, Active, RestInv, IInv, WorkerShape, RowShape
<1>3. CASE WorkerCrash
  <2>1. RowSame /\ HostSame /\ worker'.step = "idle"
    BY <1>3, WorkerNext DEF WorkerCrash, KeepRow, KeepHost, dbVars, hostVars, RowSame, HostSame
  <2> QED
    BY <1>1, <2>1, Quiet, SeenSame DEF WorkerTrue
<1>4. ASSUME Doomed, RowSame, HostSame PROVE IdleInv'
  BY <1>1, <1>4, Quiet, SeenSame DEF WorkerTrue, Doomed, RowSame
<1>5. CASE DeleteDestroy
  <2>1. Doomed /\ RowSame
    BY <1>2, <1>5 DEF DeleteDestroy, WorkerAt, KeepRow, dbVars, RowSame
  <2>2. CASE KeepHost
    BY <1>4, <2>1, <2>2 DEF KeepHost, hostVars, HostSame
  <2>3. CASE DestroyWithLogs(worker.vmid)
    BY <1>1, <2>1, <2>3, DestroyedDoomed DEF DestroyWithLogs, DropLogs
  <2> QED
    BY <1>5, <2>2, <2>3 DEF DeleteDestroy
<1>6. CASE DeleteFinish
  <2>1. Doomed /\ HostSame /\ \E ok \in BOOLEAN : CompleteDelete(worker.op, ok)
    BY <1>2, <1>6 DEF DeleteFinish, WorkerAt, KeepHost, hostVars, HostSame
  <2> QED
    BY <1>1, <1>4, <2>1, MaybeDeleted
<1>7. CASE DeleteAbort
  <2>1. /\ row.op = worker.op /\ row.desired = "deleted" /\ HostSame
        /\ \E ok \in BOOLEAN : Release(worker.op, TRUE, ok)
    BY <1>2, <1>7 DEF DeleteAbort, WorkerAt, KeepHost, hostVars, HostSame
  <2>2. PICK ok \in BOOLEAN, mark \in BOOLEAN : Release(worker.op, mark, ok)
    BY <2>1, Zenon
  <2> QED
    BY <1>1, <2>1, <2>2, Released
<1> QED
  BY <1>3, <1>5, <1>6, <1>7

LEMMA RequestDeleteIdle ==
  ASSUME RestInv, IInv', RequestDelete
  PROVE  IdleInv'
<1>1. /\ HostSame /\ snaps' = snaps /\ poll' = poll /\ sweep' = sweep
  BY DEF RequestDelete, hostVars, HostSame
<1>2. PointSizes' /\ row \in Rows
  BY <1>1, PointsSettle, RowTyped DEF HostSame, RestInv
<1>3. CASE row' = [row EXCEPT !.desired = "deleted"] /\ row.op # 0 /\ last' = last /\ worker' = worker
  <2>1. /\ row'.op = row.op /\ row'.kind = row.kind /\ row'.status = row.status /\ row'.size = row.size
        /\ row'.vmid = row.vmid /\ row'.snap = row.snap /\ row'.desired = "deleted"
    BY <1>2, <1>3 DEF Rows
  <2>2. RowFits'
    BY <1>1, <2>1 DEF RestInv, IdleInv, RowFits
  <2>3. HostFits'
    BY <1>1, <1>3, <2>1, HostFitsKept, Facts
  <2>4. CASE row.kind # "snapshot"
    BY <1>2, <2>1, <2>2, <2>3, <2>4, DoomedInv DEF Doomed
  <2>5. CASE row.kind = "snapshot"
    <3>1. ~Doomed /\ (Active => worker.kind = "snapshot")
      BY <2>5, Facts DEF Doomed
    <3>2. VmThere' /\ SizeShown' /\ LogTrue'
      BY <1>1, <1>3, <2>1, <3>1 DEF RestInv, IdleInv, VmThere, SizeShown, LogTrue, HostSame, Ours
    <3>3. PowerShown'
      BY <1>3, <2>1, <3>1 DEF PowerShown, Untried, Active, Powering, StartLike
    <3>4. WorkerTrue' /\ PollTrue'
      BY <1>1, <1>3, <2>1, <3>1 DEF RestInv, IdleInv, WorkerTrue, PollTrue, HostSame
    <3>5. SweepsTrue'
      BY <1>1, <2>1, <3>1 DEF RestInv, IdleInv, SweepsTrue, SweepTrue, SnapshotOwned, HostSame, Ours
    <3> QED
      BY <1>2, <2>2, <2>3, <3>2, <3>3, <3>4, <3>5 DEF IdleInv
  <2> QED
    BY <2>4, <2>5
<1>4. CASE /\ row' = [row EXCEPT !.desired = "deleted", !.op = last + 1, !.kind = "delete"]
           /\ row.op = 0 /\ last' = last + 1
  <2>1. row'.op = last + 1 /\ row'.kind = "delete" /\ row'.desired = "deleted"
    BY <1>2, <1>4 DEF Rows
  <2>2. last \in Nat /\ last >= 1
    BY RowTyped DEF RestInv, Ops
  <2>3. RowFits'
    BY <2>1, <2>2 DEF RowFits, StartLike, Lifecycle
  <2>4. HostFits'
    BY <1>1, <1>4, <2>1, <2>2, HostFitsKept
  <2> QED
    BY <1>2, <2>1, <2>3, <2>4, DoomedInv DEF Doomed
<1> QED
  BY <1>3, <1>4 DEF RequestDelete, clockVars

LEMMA OwnerIdle ==
  ASSUME RestInv, IInv', Owner
  PROVE  IdleInv'
BY ClaimIdle, InvalidateIdle, PowerScriptIdle, SnapshotScriptIdle, RestoreScriptIdle, SettleIdle,
   RequestDeleteIdle, DeleteIdle DEF Owner
-----------------------------------------------------------------------------
(* The poll.                                                               *)

(* The size of a row that is provisioning is the VM's.                     *)
LEMMA ProvisioningSize ==
  ASSUME RestInv, ~Doomed, row.status = "provisioning", row.kind \in StartLike \cup {"provision"}
  PROVE  SizeMatches
<1>1. row.kind # "restore"
  BY DEF StartLike
<1> QED
  BY <1>1 DEF RestInv, IdleInv, SizeShown, RowFits, SizeMatches

LEMMA PollLooksIdle ==
  ASSUME RestInv, IInv', PollRead \/ PollCheckpoint \/ PollLog
  PROVE  IdleInv'
<1>1. HostSame /\ RowSame /\ UNCHANGED <<last, worker, sweep>>
  BY DEF PollRead, PollCheckpoint, PollLog, KeepRow, KeepHost, PollQuiet, PollAlone, dbVars, hostVars, clockVars,
     HostSame, RowSame
<1>2. poll \in [step : PollSteps, op : Ops, kind : Kinds, vmid : Vmids, desired : Desires]
  BY DEF RestInv, IInv, StateType, PollType
<1>3. \A step : PollTo(step) => poll'.step = step /\ poll'.op = poll.op /\ poll'.kind = poll.kind
  BY <1>2 DEF PollTo
<1>4. PollEnds => poll'.step = "idle"
  BY DEF PollEnds, IdlePoll
<1>5. PollTrue'
  <2>1. CASE PollRead
    BY <1>1, <2>1 DEF PollRead, PollTrue, RowSame
  <2>2. CASE PollCheckpoint
    <3>1. \/ poll'.step = "idle"
          \/ /\ poll.step # "idle" /\ poll'.step \in {"log", "cancel"}
             /\ poll'.op = poll.op /\ poll'.kind = poll.kind
      BY <1>3, <1>4, <2>2 DEF PollCheckpoint, PollAt
    <3> QED
      BY <1>1, <3>1 DEF RestInv, IdleInv, PollTrue, RowSame, Doomed
  <2>3. CASE PollLog
    <3>1. \/ poll'.step = "idle"
          \/ /\ poll.step = "log" /\ poll'.op = poll.op /\ poll'.kind = poll.kind
             /\ poll'.step # "running"
          \/ /\ poll.step = "log" /\ poll'.op = poll.op /\ poll'.kind = poll.kind
             /\ MarkerFor(poll.kind) = "ready"
             /\ IF poll.kind = "provision" THEN Ours(poll.vmid) ELSE log.op = poll.op
      BY <1>3, <1>4, <2>3 DEF PollLog, PollAt
    <3> QED
      BY <1>1, <3>1 DEF RestInv, IdleInv, PollTrue, RowSame, HostSame, Doomed, MarkerFor, Ours
  <2> QED
    BY <2>1, <2>2, <2>3
<1> QED
  BY <1>1, <1>5, Quiet, SeenSame

LEMMA PollConvergeIdle ==
  ASSUME RestInv, IInv', PollConverge
  PROVE  IdleInv'
<1>1. HostSame /\ UNCHANGED <<last, worker, sweep>> /\ poll'.step = "idle"
  BY DEF PollConverge, KeepHost, PollQuiet, PollAlone, PollEnds, IdlePoll, hostVars, clockVars, HostSame
<1>2. ASSUME RowSame PROVE IdleInv'
  BY <1>1, <1>2, Quiet, SeenSame DEF PollTrue
<1>3. poll.step # "idle" =>
        /\ poll.op # 0 /\ poll.kind \in StartLike \cup {"provision"}
        /\ poll.op = 1 <=> poll.kind = "provision"
        /\ poll.op = row.op => poll.kind = row.kind
  BY DEF RestInv, IInv, PollMatch
<1>4. ASSUME NEW ok \in BOOLEAN, poll.step = "running", CompleteRunning(poll.op, poll.kind, ok)
      PROVE  IdleInv'
  <2>1. CASE ok
    <3>1. /\ CompleteRunning(poll.op, poll.kind, TRUE)
          /\ row.op = poll.op /\ row.kind = poll.kind /\ row.desired = "running" /\ row.status = "provisioning"
      BY <1>4, <2>1 DEF CompleteRunning
    <3>2. ~Doomed
      BY <3>1 DEF Doomed
    <3>3. SizeMatches
      BY <1>3, <1>4, <3>1, <3>2, ProvisioningSize
    <3>4. /\ row.vmid # NoVm
          /\ poll.kind = "provision" => vm.slot # NoVm
          /\ poll.kind # "provision" => log.op = row.op /\ log.result = "ready"
      BY <1>4, <3>1, <3>2 DEF RestInv, IdleInv, PollTrue
    <3>5. vm.slot # NoVm /\ vm.power = "running"
      BY <1>3, <1>4, <3>1, <3>2, <3>4 DEF RestInv, IdleInv, LogTrue, HostFits
    <3>6. Ours(row.vmid)
      BY <3>4, <3>5, Facts
    <3> QED
      BY <1>1, <3>1, <3>3, <3>5, <3>6, Ran
  <2>2. CASE ~ok
    BY <1>2, <1>4, <2>2 DEF CompleteRunning, RowSame
  <2> QED
    BY <2>1, <2>2
<1>5. ASSUME NEW ok \in BOOLEAN, NEW mark \in BOOLEAN, mark, poll.step = "error",
             Release(poll.op, mark, ok)
      PROVE  IdleInv'
  <2>1. CASE row.op = poll.op
    <3>1. row.desired = "deleted" \/ SizeMatches
      BY <1>3, <1>5, <2>1, ProvisioningSize DEF RestInv, IdleInv, PollTrue, Doomed
    <3> QED
      BY <1>1, <1>5, <2>1, <3>1, Released
  <2>2. CASE row.op # poll.op
    BY <1>2, <1>5, <2>2 DEF Release, RowSame
  <2> QED
    BY <2>1, <2>2
<1>6. PICK ok \in BOOLEAN : \/ poll.step = "running" /\ CompleteRunning(poll.op, poll.kind, ok)
                            \/ poll.step = "error" /\ Release(poll.op, TRUE, ok)
  BY DEF PollConverge, PollAt
<1>7. CASE poll.step = "error" /\ Release(poll.op, TRUE, ok)
  <2>1. PICK mark \in BOOLEAN : mark /\ Release(poll.op, mark, ok)
    BY <1>7, Zenon
  <2> QED
    BY <1>5, <1>7, <2>1
<1> QED
  BY <1>4, <1>6, <1>7

LEMMA PollIdle ==
  ASSUME RestInv, IInv', Poll
  PROVE  IdleInv'
<1>1. CASE PollRead \/ PollCheckpoint \/ PollLog
  BY <1>1, PollLooksIdle
<1>2. CASE PollConverge
  BY <1>2, PollConvergeIdle
<1>3. CASE PollCancel
  <2>1. /\ RowSame /\ UNCHANGED <<last, worker, sweep>> /\ Doomed
        /\ DestroyWithLogs(poll.vmid) \/ KeepHost
    BY <1>3 DEF PollCancel, PollAt, KeepRow, PollQuiet, PollAlone, dbVars, clockVars, RowSame, RestInv, BaseInv, PollBase
  <2>2. CASE DestroyWithLogs(poll.vmid)
    BY <2>1, <2>2, DestroyedDoomed DEF DestroyWithLogs, DropLogs
  <2>3. CASE KeepHost
    BY <2>1, <2>3, Quiet, SeenSame DEF KeepHost, hostVars, HostSame, PollTrue, Doomed, RowSame
  <2> QED
    BY <2>1, <2>2, <2>3
<1>4. CASE PollCompleteDelete
  <2>1. /\ HostSame /\ UNCHANGED <<last, worker, sweep>> /\ poll'.step = "idle"
        /\ \E ok \in BOOLEAN : CompleteDelete(poll.op, ok)
    BY <1>4 DEF PollCompleteDelete, KeepHost, PollQuiet, PollAlone, PollEnds, IdlePoll, hostVars, clockVars, HostSame
  <2> QED
    BY <2>1, MaybeDeleted, Quiet, SeenSame DEF PollTrue
<1> QED
  BY <1>1, <1>2, <1>3, <1>4 DEF Poll
-----------------------------------------------------------------------------
(* The recovery sweep.                                                     *)

LEMMA SweepFrame ==
  ASSUME RestInv, NEW s \in Sweepers, Sweep(s)
  PROVE  /\ last' = last /\ worker' = worker /\ poll' = poll
         /\ \A t \in Sweepers : t # s => sweep'[t] = sweep[t]
<1>1. last' = last /\ worker' = worker /\ poll' = poll
  BY DEF Sweep, SweepRead, SweepClaim, SweepIntent, SweepTeardown, SweepLetGo, SweepObserve, SweepProbe,
     SweepCompensate, SweepRecheck, SweepApply, SweepFails, SweepQuiet, SweepAlone
<1>2. \E r : SweepTo(s, r)
  BY DEF Sweep, SweepRead, SweepClaim, SweepIntent, SweepTeardown, SweepLetGo, SweepObserve, SweepProbe,
     SweepCompensate, SweepRecheck, SweepApply, SweepFails, SweepEnds, SweepPlans
<1>3. sweep \in [Sweepers -> SweepRows]
  BY SweepTyped DEF RestInv
<1> QED
  BY <1>1, <1>2, <1>3 DEF SweepTo

(* Only one sweep acts on the operation it took over, and the owner's      *)
(* request is not at work on that.                                         *)
LEMMA OneSweep ==
  ASSUME RestInv, NEW s \in Sweepers, Sweep(s), Working(s), SweepTrue(s)'
  PROVE  SweepsTrue' /\ (sweep[s].op = row.op => ~Active)
<1>1. \A t \in Sweepers : t # s => sweep'[t].step # "apply"
  BY SweepFrame DEF RestInv, IInv, OneReconciler, Working
<1>2. SweepsTrue'
  BY <1>1 DEF SweepsTrue, SweepTrue
<1> QED
  BY <1>2 DEF RestInv, IInv, WorkerLease

LEMMA SweepIdles ==
  ASSUME RestInv, IInv', NEW s \in Sweepers, Sweep(s), HostSame, RowSame, SweepTrue(s)'
  PROVE  IdleInv'
<1>1. SweepsTrue'
  BY SweepFrame, SeenSame DEF SweepsTrue
<1> QED
  BY <1>1, SweepFrame, Quiet, SeenSame

(* Plans that record nothing of what the sweep saw.                        *)
LEMMA BlindPlan ==
  ASSUME NEW s \in Sweepers,
         \/ sweep'[s].step # "apply"
         \/ sweep'[s].plan \in {<<"delete">>, <<"release">>, <<"compensate">>}
         \/ /\ sweep'[s].plan \in {<<"error">>, <<"checkpoint">>}
            /\ sweep'[s].op = row'.op => row'.op = 1 \/ Doomed'
         \/ /\ sweep'[s].plan = <<"error">>
            /\ sweep'[s].op = row'.op => vm'.slot = NoVm
  PROVE  SweepTrue(s)'
<1>1. \A p \in {<<"delete">>, <<"release">>, <<"compensate">>, <<"error">>, <<"checkpoint">>} :
        p \notin Runs \cup Observes \cup Looks \cup {<<"restore">>}
  BY DEF Runs, Observes, Looks
<1>2. /\ \A p \in {<<"delete">>, <<"release">>, <<"compensate">>} : p \notin {<<"error">>, <<"checkpoint">>}
      /\ <<"error">> # <<"checkpoint">>
  OBVIOUS
<1>3. {<<"observed">>, <<"continue", "observed">>, <<"restore_failed">>}
        \subseteq Runs \cup Observes \cup Looks \cup {<<"restore">>}
  BY DEF Observes, Looks
<1> QED
  BY <1>1, <1>2, <1>3 DEF SweepTrue

LEMMA SweepPlanned ==
  ASSUME RestInv, NEW s \in Sweepers, sweep[s].step # "idle", NEW plan, NEW power,
         SweepPlans(s, plan, power)
  PROVE  /\ sweep'[s].step = "apply" /\ sweep'[s].plan = plan /\ sweep'[s].power = power
         /\ sweep'[s].op = sweep[s].op
<1>1. sweep'[s] = [sweep[s] EXCEPT !.step = "apply", !.plan = plan, !.power = power] /\ sweep[s] \in SweepRows
  BY SweepToFields DEF SweepPlans, RestInv
<1> QED
  BY <1>1 DEF SweepRows

LEMMA SweepReadIdle ==
  ASSUME RestInv, IInv', NEW s \in Sweepers, SweepRead(s) \/ SweepClaim(s) \/ SweepLetGo(s) \/ SweepFails(s)
  PROVE  IdleInv'
<1>1. Sweep(s) /\ HostSame /\ RowSame
  BY DEF Sweep, SweepRead, SweepClaim, SweepLetGo, SweepFails, KeepRow, KeepHost, dbVars, hostVars, HostSame,
     RowSame
<1>2. CASE SweepEnds(s)
  BY <1>1, <1>2, SweepToFields, BlindPlan, SweepIdles DEF SweepEnds, IdleSweep, RestInv
<1>3. CASE SweepRead(s)
  <2>1. sweep'[s].step = "read"
    BY <1>3, SweepToFields DEF SweepRead, RestInv
  <2> QED
    BY <1>1, <2>1, BlindPlan, SweepIdles
<1>4. CASE SweepTo(s, [sweep[s] EXCEPT !.step = "claimed"])
  <2>1. sweep'[s].step = "claimed"
    BY <1>4, SweepToFields DEF RestInv, SweepRows
  <2> QED
    BY <1>1, <2>1, BlindPlan, SweepIdles
<1>5. CASE SweepLetGo(s)
  <2>1. sweep'[s].plan = <<"release">>
    BY <1>5, SweepPlanned DEF SweepLetGo, Claimed
  <2> QED
    BY <1>1, <2>1, BlindPlan, SweepIdles
<1> QED
  BY <1>2, <1>3, <1>4, <1>5 DEF SweepClaim, SweepFails

LEMMA SweepIntentIdle ==
  ASSUME RestInv, IInv', NEW s \in Sweepers, SweepIntent(s)
  PROVE  IdleInv'
<1>1. Sweep(s) /\ HostSame /\ sweep[s].step = "claimed" /\ sweep[s].op = 1
  BY DEF Sweep, SweepIntent, KeepHost, hostVars, HostSame, Claimed, RestInv, IInv, SweepsGood, SweepMatch
<1>2. ASSUME RowSame, SweepPlans(s, <<IF Superseded(s) THEN "delete" ELSE "error">>, "stopped")
      PROVE  IdleInv'
  <2>1. sweep'[s].plan \in {<<"delete">>, <<"error">>} /\ sweep'[s].op = 1
    BY <1>1, <1>2, SweepPlanned
  <2> QED
    BY <1>1, <1>2, <2>1, BlindPlan, SweepIdles
<1>3. ASSUME intent # NoVm, Persist(sweep[s].op, intent, TRUE),
             SweepTo(s, [sweep[s] EXCEPT !.vmid = intent])
      PROVE  IdleInv'
  <2>1. row' = [row EXCEPT !.vmid = intent] /\ snaps' = snaps /\ row.op = 1
    BY <1>1, <1>3 DEF Persist
  <2>2. /\ row'.op = row.op /\ row'.kind = row.kind /\ row'.status = row.status /\ row'.snap = row.snap
        /\ row'.desired = row.desired /\ row'.size = row.size /\ row'.vmid = intent
    BY <2>1, RowTyped DEF RestInv, Rows
  <2>3. row.vmid # NoVm => row'.vmid = row.vmid
    BY <1>3, <2>2 DEF RestInv, BaseInv, RowBase, Known
  <2>4. sweep'[s].step = "claimed"
    BY <1>1, <1>3, SweepToFields DEF RestInv, SweepRows
  <2> QED
    BY <1>1, <2>1, <2>2, <2>3, <2>4, SweepFrame, Launching
<1>4. ASSUME NEW ok \in BOOLEAN, intent # NoVm, Persist(sweep[s].op, intent, ok),
             IF ok THEN SweepTo(s, [sweep[s] EXCEPT !.vmid = intent])
                   ELSE SweepPlans(s, <<IF Superseded(s) THEN "delete" ELSE "error">>, "stopped")
      PROVE  IdleInv'
  <2>1. CASE ok
    BY <1>3, <1>4, <2>1 DEF Persist
  <2>2. CASE ~ok
    BY <1>2, <1>4, <2>2 DEF Persist, RowSame
  <2> QED
    BY <2>1, <2>2
<1> QED
  BY <1>2, <1>4 DEF SweepIntent, KeepRow, dbVars, RowSame

LEMMA SweepTeardownIdle ==
  ASSUME RestInv, IInv', NEW s \in Sweepers, SweepTeardown(s)
  PROVE  IdleInv'
<1>1. Sweep(s) /\ RowSame /\ sweep[s].step = "claimed" /\ Doomed
  BY DEF Sweep, SweepTeardown, KeepRow, dbVars, RowSame, Claimed, RestInv, BaseInv, SweepBase
<1>2. CASE DestroyWithLogs(sweep[s].vmid) \/ DestroyAllocation(sweep[s].vmid)
  BY <1>1, <1>2, SweepFrame, DestroyedDoomed DEF DestroyWithLogs, DestroyAllocation, DropLogs
<1>3. CASE SweepPlans(s, <<"delete">>, "stopped") /\ KeepHost
  <2>1. sweep'[s].plan = <<"delete">>
    BY <1>1, <1>3, SweepPlanned
  <2> QED
    BY <1>1, <1>3, <2>1, BlindPlan, SweepIdles DEF KeepHost, hostVars, HostSame
<1> QED
  BY <1>2, <1>3 DEF SweepTeardown

LEMMA SweepRecheckIdle ==
  ASSUME RestInv, IInv', NEW s \in Sweepers, SweepRecheck(s)
  PROVE  IdleInv'
<1>1. Sweep(s) /\ RowSame /\ HostSame /\ sweep[s].step = "apply" /\ sweep[s].plan = <<"checkpoint">>
  BY DeletePlanned DEF Sweep, SweepRecheck, Planned, KeepRow, KeepHost, dbVars, hostVars, RowSame, HostSame, RestInv
<1>2. sweep'[s].plan \in {<<"delete">>, <<"error">>} /\ sweep'[s].op = sweep[s].op
  BY <1>1, SweepPlanned DEF SweepRecheck
<1>3. sweep[s].op = row.op => row.op = 1 \/ Doomed
  BY <1>1 DEF RestInv, IdleInv, SweepsTrue, SweepTrue
<1> QED
  BY <1>1, <1>2, <1>3, BlindPlan, SweepIdles DEF RowSame, Doomed

LEMMA SweepCompensateIdle ==
  ASSUME RestInv, IInv', NEW s \in Sweepers, SweepCompensate(s)
  PROVE  IdleInv'
<1>1. /\ Sweep(s) /\ RowSame /\ Compensating(s) /\ Working(s) /\ DestroyAllocation(sweep[s].vmid)
      /\ SweepPlans(s, <<"checkpoint">>, "stopped") \/ SweepEnds(s)
  BY DeletePlanned DEF Sweep, SweepCompensate, Planned, KeepRow, dbVars, RowSame, RestInv, Compensating, Working
<1>2. sweep[s].op = 1 /\ sweep[s].vmid # NoVm /\ sweep[s].vmid \in Known
  BY <1>1 DEF Compensating, RestInv, BaseInv, SweepBase, IInv, SweepsGood, SweepMatch
<1>3. SweepsTrue'
  <2>1. sweep'[s].step # "apply" \/ (sweep'[s].plan = <<"checkpoint">> /\ sweep'[s].op = 1)
    BY <1>1, <1>2, SweepPlanned, SweepToFields DEF SweepEnds, IdleSweep, RestInv, Compensating
  <2> QED
    BY <1>1, <2>1, BlindPlan, OneSweep
<1>4. Destroy(sweep[s].vmid) /\ log' = NoLog
  BY <1>1 DEF DestroyAllocation, DropLogs
<1>5. CASE vm.slot # NoVm
  <2>1. row.op = 1 /\ installed = "failed" /\ vm'.slot = NoVm
    BY <1>1, <1>2, <1>4, <1>5, DestroyMoves DEF RestInv, LeaseInv, SweepLease, BaseInv, RowBase, Known, Ours
  <2>2. ~(poll.step = "running" /\ poll.kind = "provision")
    BY <1>5, <2>1 DEF RestInv, LeaseInv, PollLease, IInv, PollMatch
  <2> QED
    BY <1>1, <1>3, <1>4, <2>1, <2>2, SweepFrame, LaunchRemoved
<1>6. CASE vm.slot = NoVm
  <2>1. vm' = vm /\ stored' = stored /\ foreign' = foreign /\ (woken => woken')
    BY <1>4, <1>6 DEF Destroy, Ours
  <2> QED
    BY <1>1, <1>3, <1>4, <1>6, <2>1, SweepFrame, LogsErased
<1> QED
  BY <1>5, <1>6

(* What a sweep sees of the operation it took over.                        *)
LEMMA SweepSees ==
  ASSUME RestInv, NEW s \in Sweepers, sweep[s].step # "idle", sweep[s].op = row.op, sweep[s].vmid # NoVm
  PROVE  /\ row.kind = sweep[s].kind /\ row.op # 0 /\ row.vmid # NoVm
         /\ Ours(sweep[s].vmid) <=> vm.slot # NoVm
         /\ Ours(sweep[s].vmid) => Ours(row.vmid)
         /\ sweep[s].vmid \in foreign => vm.slot = NoVm
<1>1. row.kind = sweep[s].kind /\ row.op # 0
  BY DEF RestInv, IInv, SweepsGood, SweepMatch
<1>2. row.vmid # NoVm
  BY DEF RestInv, TraceInv, Named
<1>3. vm.slot # NoVm => vm.slot = sweep[s].vmid /\ vm.slot = row.vmid
  BY <1>2 DEF RestInv, BaseInv, RowBase, SweepBase, Known
<1> QED
  BY <1>1, <1>2, <1>3 DEF Ours, RestInv, IdleInv, HostFits

LEMMA SweepObserveIdle ==
  ASSUME RestInv, IInv', NEW s \in Sweepers, SweepObserve(s)
  PROVE  IdleInv'
<1>1. /\ Sweep(s) /\ RowSame /\ HostSame /\ sweep[s].step = "claimed" /\ Ours(sweep[s].vmid)
      /\ sweep[s].kind \in PointKinds
  BY DEF Sweep, SweepObserve, Claimed, KeepRow, KeepHost, dbVars, hostVars, RowSame, HostSame, PointKinds
<1>2. /\ sweep'[s].plan = SnapshotPlan(s) /\ sweep'[s].power = vm.power /\ sweep'[s].op = sweep[s].op
  BY <1>1, SweepPlanned DEF SweepObserve
<1>3. SweepTrue(s)'
  <2>1. SUFFICES ASSUME ~Doomed, sweep[s].op = row.op PROVE SweepTrue(s)'
    BY <1>1, <1>2 DEF SweepTrue, RowSame, Doomed
  <2>2. /\ Ours(row.vmid) /\ vm.slot # NoVm /\ row.kind = sweep[s].kind /\ row.snap = sweep[s].snap
    BY <1>1, <2>1, SweepSees DEF Ours, RestInv, IInv, SweepsGood, SweepMatch
  <2>3. SnapshotPlan(s) \in Looks \cup {<<"restore">>}
    BY DEF SnapshotPlan, Looks
  <2>4. SnapshotPlan(s) = <<"restore">> => vm.power = "stopped" /\ vm.config = stored[row.snap]
    BY <2>2 DEF SnapshotPlan
  <2>5. SnapshotPlan(s) = <<"restore_failed">> /\ SnapshotOwned(row.snap, row.op, "restoring")
          => vm.config = row.size
    <3>1. SUFFICES ASSUME SnapshotPlan(s) = <<"restore_failed">>, SnapshotOwned(row.snap, row.op, "restoring")
                   PROVE  vm.config = row.size
      OBVIOUS
    <3>2. row.kind = "restore" /\ ~(vm.power = "stopped" /\ stored[row.snap] = vm.config)
      BY <1>1, <2>1, <2>2, <3>1 DEF SnapshotPlan, PointKinds
    <3> QED
      BY <2>1, <2>2, <3>2 DEF RestInv, IdleInv, SizeShown
  <2>6. /\ SnapshotPlan(s) \notin Runs \cup Observes \cup {<<"error">>, <<"checkpoint">>}
        /\ <<"restore">> \notin Looks
        /\ \A p \in Runs \cup Observes : p # <<"restore">>
    BY <2>3 DEF Looks, Runs, Observes
  <2>7. <<"observed">> \in Observes /\ <<"continue", "observed">> \in Observes
    BY DEF Observes
  <2> HIDE DEF Looks, Runs, Observes, SnapshotPlan
  <2>8. Ours(row.vmid)' /\ row' = row /\ vm' = vm /\ stored' = stored /\ snaps' = snaps
    BY <1>1, <2>2 DEF RowSame, HostSame, Ours
  <2> QED
    BY <1>2, <2>3, <2>4, <2>5, <2>6, <2>7, <2>8 DEF SweepTrue, SnapshotOwned
<1> QED
  BY <1>1, <1>3, SweepIdles

LEMMA ProbeSees ==
  ASSUME RestInv, NEW s \in Sweepers, ~Doomed, sweep[s].step # "idle", sweep[s].op = row.op,
         sweep[s].vmid # NoVm, sweep[s].kind \in StartLike \cup {"stop", "provision"},
         NEW plan \in ProbePlans(s), plan # <<>>
  PROVE  \/ plan = <<"error">> /\ vm.slot = NoVm
         \/ plan = <<"compensate">>
         \/ /\ plan = <<"observed">> /\ Ours(row.vmid)
            /\ row.kind = "resize" => vm.config = row.size
         \/ /\ plan = <<"continue", "observed">> /\ Ours(row.vmid)
            /\ row.kind = "resize" => vm.config = row.op
         \/ /\ plan \in Runs /\ Ours(row.vmid) /\ vm.power = "running"
            /\ row.kind = "resize" => vm.config = row.op
<1>1. /\ row.kind = sweep[s].kind /\ row.op # 0 /\ row.vmid # NoVm
      /\ Ours(sweep[s].vmid) <=> vm.slot # NoVm
      /\ Ours(sweep[s].vmid) => Ours(row.vmid)
      /\ sweep[s].vmid \in foreign => vm.slot = NoVm
  BY SweepSees
<1>2. SettlePlan(s) = <<"error">> => vm.slot = NoVm
  BY <1>1 DEF SettlePlan
<1>3. SettlePlan(s) # <<"error">> =>
        \/ /\ SettlePlan(s) = <<"observed">> /\ Ours(row.vmid)
           /\ row.kind = "resize" => vm.config = row.size
        \/ /\ SettlePlan(s) = <<"continue", "observed">> /\ Ours(row.vmid)
           /\ row.kind = "resize" => vm.config = row.op
  <2>1. row.kind = "resize" /\ vm.config # row.op /\ vm.slot # NoVm => vm.config = row.size
    BY DEF RestInv, IdleInv, SizeShown
  <2> QED
    BY <1>1, <2>1 DEF SettlePlan
<1>4. RunningPlan(s) \in Runs
  BY DEF RunningPlan, Runs
<1>5. row.kind = "resize" /\ log.op = row.op /\ vm.slot # NoVm => vm.config = row.op
  BY DEF RestInv, IdleInv, SizeShown
<1>6. Healthy(s) => Ours(row.vmid) /\ vm.power = "running" /\ vm.slot # NoVm
  BY <1>1 DEF Healthy
<1>7. ASSUME MarkerFor(sweep[s].kind) = "ready", sweep[s].kind \in StartLike => log.op = row.op
      PROVE  sweep[s].kind # "stop" => vm.slot # NoVm /\ vm.power = "running"
  <2>1. CASE sweep[s].kind = "provision"
    <3>1. installed # "none" /\ row.op = 1
      BY <1>1, <1>7, <2>1, Facts DEF MarkerFor
    <3> QED
      BY <3>1 DEF RestInv, TraceInv, MarkedVm, IdleInv, HostFits
  <2>2. CASE sweep[s].kind \in StartLike
    <3>1. log.result = "ready" /\ log.op = row.op
      BY <1>7, <2>2 DEF MarkerFor, StartLike
    <3> QED
      BY <1>1, <3>1 DEF RestInv, IdleInv, LogTrue
  <2> QED
    BY <2>1, <2>2
<1>8. CASE sweep[s].vmid \in foreign
  BY <1>1, <1>8 DEF ProbePlans
<1>9. CASE sweep[s].vmid \notin foreign /\ (sweep[s].kind = "stop" \/ (sweep[s].kind \in StartLike /\ log.op # sweep[s].op))
  <2>1. plan = SettlePlan(s)
    BY <1>9 DEF ProbePlans
  <2> QED
    BY <1>2, <1>3, <2>1
<1>10. CASE sweep[s].vmid \notin foreign /\ ~(sweep[s].kind = "stop" \/ (sweep[s].kind \in StartLike /\ log.op # sweep[s].op))
  <2>1. sweep[s].kind # "stop" /\ (sweep[s].kind \in StartLike => log.op = row.op)
    BY <1>10
  <2>2. row.kind = "resize" => log.op = row.op
    BY <1>1, <2>1 DEF StartLike
  <2>3. CASE MarkerFor(sweep[s].kind) = "ready"
    <3>1. plan = RunningPlan(s)
      BY <1>10, <2>3 DEF ProbePlans
    <3> QED
      BY <1>1, <1>4, <1>5, <1>7, <2>1, <2>2, <2>3, <3>1
  <2>4. CASE MarkerFor(sweep[s].kind) # "ready"
    <3>1. \/ Healthy(s) /\ plan = RunningPlan(s)
          \/ plan = SettlePlan(s)
          \/ ~Ours(sweep[s].vmid) /\ plan = <<"error">>
          \/ plan = <<"compensate">>
      BY <1>10, <2>4 DEF ProbePlans
    <3> QED
      BY <1>1, <1>2, <1>3, <1>4, <1>5, <1>6, <2>2, <3>1
  <2> QED
    BY <2>3, <2>4
<1> QED
  BY <1>8, <1>9, <1>10

LEMMA SweepProbeIdle ==
  ASSUME RestInv, IInv', NEW s \in Sweepers, SweepProbe(s)
  PROVE  IdleInv'
<1>1. /\ Sweep(s) /\ RowSame /\ HostSame /\ sweep[s].step = "claimed" /\ sweep[s].vmid # NoVm
      /\ sweep[s].kind \in StartLike \cup {"stop", "provision"}
  BY DEF Sweep, SweepProbe, Claimed, KeepRow, KeepHost, dbVars, hostVars, RowSame, HostSame
<1>2. PICK plan \in ProbePlans(s) : IF plan = <<>> THEN SweepEnds(s) ELSE SweepPlans(s, plan, vm.power)
  BY DEF SweepProbe
<1>3. CASE plan = <<>>
  BY <1>1, <1>2, <1>3, SweepToFields, BlindPlan, SweepIdles DEF SweepEnds, IdleSweep, RestInv
<1>4. CASE plan # <<>>
  <2>1. sweep'[s].plan = plan /\ sweep'[s].power = vm.power /\ sweep'[s].op = sweep[s].op
    BY <1>1, <1>2, <1>4, SweepPlanned
  <2>2. SweepTrue(s)'
    <3>1. SUFFICES ASSUME ~Doomed, sweep[s].op = row.op PROVE SweepTrue(s)'
      BY <1>1, <2>1 DEF SweepTrue, RowSame, Doomed
    <3>2. row' = row /\ vm' = vm /\ (Ours(row.vmid) => Ours(row.vmid)')
      BY <1>1 DEF RowSame, HostSame, Ours
    <3>3. CASE (plan = <<"error">> /\ vm.slot = NoVm) \/ plan = <<"compensate">>
      BY <2>1, <3>2, <3>3, BlindPlan
    <3>4. CASE /\ plan = <<"observed">> /\ Ours(row.vmid)
               /\ row.kind = "resize" => vm.config = row.size
      BY <2>1, <3>2, <3>4 DEF SweepTrue, Runs, Observes, Looks
    <3>5. CASE /\ plan = <<"continue", "observed">> /\ Ours(row.vmid)
               /\ row.kind = "resize" => vm.config = row.op
      BY <2>1, <3>2, <3>5 DEF SweepTrue, Runs, Observes, Looks
    <3>6. CASE /\ plan \in Runs /\ Ours(row.vmid) /\ vm.power = "running"
               /\ row.kind = "resize" => vm.config = row.op
      BY <2>1, <3>2, <3>6 DEF SweepTrue, Runs, Observes, Looks
    <3> QED
      BY <1>1, <1>4, <3>1, <3>3, <3>4, <3>5, <3>6, ProbeSees
  <2> QED
    BY <1>1, <2>2, SweepIdles
<1> QED
  BY <1>3, <1>4

LEMMA PlanCalls ==
  ASSUME IInv, NEW s \in Sweepers, sweep[s].step = "apply"
  PROVE  \/ Head(sweep[s].plan) # "continue" /\ sweep[s].plan = <<Head(sweep[s].plan)>>
         \/ /\ Head(sweep[s].plan) = "continue"
            /\ \/ sweep[s].plan = <<"continue", "running">> /\ Tail(sweep[s].plan) = <<"running">>
               \/ sweep[s].plan = <<"continue", "observed">> /\ Tail(sweep[s].plan) = <<"observed">>
<1>1. sweep[s].plan \in SnapshotPlans \cup RestorePlans \cup OtherPlans
  BY DEF IInv, SweepsGood, PlanShape, PlansFor
<1>2. PICK c \in Calls \ {"continue"} :
        sweep[s].plan \in {<<c>>, <<"continue", "running">>, <<"continue", "observed">>}
  BY <1>1 DEF SnapshotPlans, RestorePlans, OtherPlans, Calls
<1>3. CASE sweep[s].plan = <<c>>
  BY <1>2, <1>3
<1>4. CASE sweep[s].plan = <<"continue", "running">>
  BY <1>4
<1>5. CASE sweep[s].plan = <<"continue", "observed">>
  BY <1>5
<1> QED
  BY <1>2, <1>3, <1>4, <1>5

(* A sweep whose copy is the row's operation.                              *)
LEMMA AppliesTo ==
  ASSUME RestInv, NEW s \in Sweepers, sweep[s].step = "apply", sweep[s].op = row.op
  PROVE  /\ row.kind = sweep[s].kind /\ row.op # 0 /\ ~Active
         /\ Superseded(s) => row.desired = "deleted"
         /\ sweep[s].kind \in PointKinds => sweep[s].snap = row.snap /\ row.snap \in Snapshots
         /\ sweep[s].power \in Power
         /\ ~Doomed /\ row.kind \notin {"resize", "restore"} => SizeMatches
<1>1. sweep[s] \in SweepRows
  BY SweepToFields DEF RestInv
<1>2. sweep[s].power \in Power
  BY <1>1 DEF SweepRows
<1>3. ~Doomed /\ row.kind \notin {"resize", "restore"} => SizeMatches
  BY DEF RestInv, IdleInv, SizeShown, SizeMatches
<1> QED
  BY <1>2, <1>3 DEF RestInv, IInv, SweepsGood, SweepMatch, WorkerLease

LEMMA ContinueApplied ==
  ASSUME RestInv, IInv', NEW s \in Sweepers, SweepApply(s), HostSame, Head(sweep[s].plan) = "continue",
         Continue(sweep[s].op, TRUE), sweep'[s].step # "idle" =>
           /\ sweep'[s].plan = Tail(sweep[s].plan) /\ sweep'[s].op = sweep[s].op
           /\ sweep'[s].power = sweep[s].power
  PROVE  IdleInv'
<1>1. Sweep(s) /\ sweep[s].step = "apply" /\ Working(s)
  BY DEF Sweep, SweepApply, Working
<1>2. /\ row.op = sweep[s].op /\ row.kind \in StartLike /\ row.desired = "running" /\ ~Doomed
  BY DEF Continue, Doomed
<1>3. /\ row'.op = row.op /\ row'.kind = row.kind /\ row'.vmid = row.vmid
      /\ row.kind = "resize" => row'.size = row.op
  <2> DEFINE size == IF row.kind = "resize" THEN sweep[s].op ELSE row.size
             new == [row EXCEPT !.status = "provisioning", !.size = size]
  <2>1. row' = new
    BY DEF Continue
  <2>2. row \in Rows /\ (row.kind = "resize" => size = row.op)
    BY <1>2, RowTyped DEF RestInv
  <2> HIDE DEF size
  <2> QED
    BY <2>1, <2>2 DEF Rows
<1>4. \/ sweep[s].plan = <<"continue", "running">> /\ Tail(sweep[s].plan) = <<"running">>
      \/ sweep[s].plan = <<"continue", "observed">> /\ Tail(sweep[s].plan) = <<"observed">>
  BY <1>1, PlanCalls DEF RestInv
<1>5. /\ Ours(row.vmid) /\ (row.kind = "resize" => vm.config = row.op)
      /\ sweep[s].plan = <<"continue", "running">> => vm.power = "running"
      /\ sweep[s].plan = <<"continue", "observed">> => vm.power = sweep[s].power
  <2>1. SweepTrue(s)
    BY DEF RestInv, IdleInv, SweepsTrue
  <2> QED
    BY <1>1, <1>2, <1>4, <2>1 DEF SweepTrue, Runs, Observes
<1>6. SweepTrue(s)'
  <2>1. vm' = vm /\ Ours(row.vmid)'
    BY <1>3, <1>5 DEF HostSame, Ours
  <2>2. CASE sweep'[s].step = "idle"
    BY <2>2 DEF SweepTrue
  <2>3. CASE sweep'[s].step # "idle" /\ sweep[s].plan = <<"continue", "running">>
    <3>1. sweep'[s].plan = <<"running">>
      BY <1>4, <2>3
    <3> QED
      BY <1>3, <1>5, <2>1, <2>3, <3>1 DEF SweepTrue, Runs, Observes, Looks
  <2>4. CASE sweep'[s].step # "idle" /\ sweep[s].plan = <<"continue", "observed">>
    <3>1. sweep'[s].plan = <<"observed">>
      BY <1>4, <2>4
    <3> QED
      BY <1>3, <1>5, <2>1, <2>4, <3>1 DEF SweepTrue, Runs, Observes, Looks
  <2> QED
    BY <1>4, <2>2, <2>3, <2>4
<1>7. SweepsTrue' /\ worker'.step = "idle"
  BY <1>1, <1>2, <1>6, OneSweep, SweepFrame DEF Active
<1> QED
  BY <1>1, <1>2, <1>5, <1>7, SweepFrame, Continued

LEMMA PowerApplied ==
  ASSUME RestInv, IInv', NEW s \in Sweepers, SweepApply(s), HostSame,
         \/ Head(sweep[s].plan) = "running" /\ CompleteRunning(sweep[s].op, sweep[s].kind, TRUE)
         \/ /\ Head(sweep[s].plan) = "observed"
            /\ CompleteOperation(sweep[s].op, IF sweep[s].kind = "stop" THEN "stopped" ELSE "running",
                                 sweep[s].power, TRUE)
            /\ snaps' = snaps
  PROVE  IdleInv'
<1>1. Sweep(s) /\ sweep[s].step = "apply"
  BY DEF Sweep, SweepApply
<1>2. row.op = sweep[s].op /\ row.desired \in Power /\ ~Doomed
  BY DEF CompleteRunning, CompleteOperation, Doomed, Power
<1>3. /\ row.kind = sweep[s].kind /\ sweep[s].power \in Power /\ sweep[s].kind \notin PointKinds
      /\ row.kind # "resize" => SizeMatches
  BY <1>1, <1>2, AppliesTo, PlannedCall DEF RestInv, PointKinds
<1>4. SweepTrue(s)
  BY DEF RestInv, IdleInv, SweepsTrue
<1>5. CASE Head(sweep[s].plan) = "running" /\ CompleteRunning(sweep[s].op, sweep[s].kind, TRUE)
  <2>1. sweep[s].plan \in Runs
    BY <1>1, <1>5, PlanCalls DEF Runs, RestInv
  <2>2. Ours(row.vmid) /\ vm.power = "running" /\ row.status = "provisioning"
    BY <1>1, <1>2, <1>4, <1>5, <2>1 DEF SweepTrue, CompleteRunning
  <2>3. SizeMatches
    BY <1>2, <1>3, <2>2, ProvisioningSize DEF StartLike
  <2> QED
    BY <1>1, <1>5, <2>2, <2>3, SweepFrame, Ran
<1>6. CASE /\ Head(sweep[s].plan) = "observed"
           /\ CompleteOperation(sweep[s].op, IF sweep[s].kind = "stop" THEN "stopped" ELSE "running",
                                sweep[s].power, TRUE)
           /\ snaps' = snaps
  <2>1. sweep[s].plan = <<"observed">> /\ sweep[s].plan \in Observes
    BY <1>1, <1>6, PlanCalls DEF Observes, RestInv
  <2>2. Ours(row.vmid) /\ vm.power = sweep[s].power /\ (row.kind = "resize" => SizeMatches)
    BY <1>1, <1>2, <1>4, <2>1 DEF SweepTrue, SizeMatches
  <2>3. PointSizes'
    BY <1>6, PointsSettle DEF HostSame
  <2> QED
    BY <1>1, <1>3, <1>6, <2>2, <2>3, SweepFrame, Completed
<1> QED
  BY <1>5, <1>6

LEMMA PointApplied ==
  ASSUME RestInv, IInv', NEW s \in Sweepers, SweepApply(s), HostSame,
         \/ Head(sweep[s].plan) = "snapshot" /\ CompleteSnapshot(sweep[s].op, sweep[s].snap, sweep[s].power, TRUE)
         \/ Head(sweep[s].plan) = "snapshot_failed" /\ FailSnapshot(sweep[s].op, sweep[s].snap, sweep[s].power, TRUE)
         \/ Head(sweep[s].plan) = "restore" /\ CompleteRestore(sweep[s].op, sweep[s].snap, TRUE)
         \/ Head(sweep[s].plan) = "restore_failed" /\ FailRestore(sweep[s].op, sweep[s].snap, sweep[s].power, TRUE)
  PROVE  IdleInv'
<1> DEFINE call == Head(sweep[s].plan)
           n == sweep[s].snap
<1>1. Sweep(s) /\ sweep[s].step = "apply" /\ sweep[s].plan = <<call>>
  BY PlanCalls DEF Sweep, SweepApply, RestInv
<1>2. row.op = sweep[s].op
  BY DEF CompleteSnapshot, FailSnapshot, CompleteRestore, FailRestore, CompleteOperation
<1>3. /\ row.kind = sweep[s].kind /\ sweep[s].power \in Power
      /\ row.kind \in PointKinds => n = row.snap /\ n \in Snapshots
      /\ ~Doomed /\ row.kind = "snapshot" => SizeMatches
  BY <1>1, <1>2, AppliesTo DEF PointKinds
<1>4. /\ call \in {"snapshot", "snapshot_failed"} => row.kind = "snapshot"
      /\ call \in {"restore", "restore_failed"} => row.kind = "restore"
  <2>1. call = "snapshot" => row.kind = "snapshot"
    <3>1. sweep[s].plan = <<"snapshot">> => sweep[s].plan \notin RestorePlans \cup OtherPlans
      BY DEF RestorePlans, OtherPlans
    <3> QED
      BY <1>1, <1>3, <3>1 DEF RestInv, IInv, SweepsGood, PlanShape, PlansFor
  <2> QED
    BY <1>1, <1>3, <2>1, PlannedCall DEF RestInv
<1>5. SweepTrue(s)
  BY DEF RestInv, IdleInv, SweepsTrue
<1>6. CASE call \in {"snapshot", "snapshot_failed"}
  <2>1. /\ \E e : CompleteOperation(sweep[s].op, e, sweep[s].power, TRUE)
        /\ snaps[n].status = "creating" /\ \E st \in {"ready", "failed"} : SettleSnapshot(n, st)
    BY <1>6 DEF CompleteSnapshot, FailSnapshot, SnapshotOwned
  <2>2. ~Doomed /\ sweep[s].plan \in Looks
    BY <1>1, <1>4, <1>6 DEF Doomed, Looks
  <2>3. Ours(row.vmid) /\ vm.power = sweep[s].power
    BY <1>1, <1>2, <1>5, <2>2 DEF SweepTrue
  <2>4. PointSizes' /\ SizeMatches
    BY <1>3, <1>4, <1>6, <2>1, <2>2, PointSettled DEF HostSame, PointKinds
  <2> QED
    BY <1>1, <1>3, <2>1, <2>3, <2>4, SweepFrame, Completed
<1>7. CASE call = "restore"
  <2>1. CompleteRestore(sweep[s].op, n, TRUE) /\ row.desired = "stopped" /\ snaps[n].status = "restoring"
    BY <1>7 DEF CompleteRestore, SnapshotOwned
  <2>2. ~Doomed /\ n = row.snap /\ n \in Snapshots
    BY <1>3, <1>4, <1>7, <2>1 DEF Doomed, PointKinds
  <2>3. Ours(row.vmid) /\ vm.power = "stopped" /\ vm.config = stored[n]
    BY <1>1, <1>2, <1>5, <1>7, <2>2 DEF SweepTrue
  <2>4. stored[n] # Absent
    BY <2>1, <2>2, <2>3 DEF RestInv, IInv, ReadySnapshotStored, Ours
  <2> QED
    BY <1>1, <2>1, <2>2, <2>3, <2>4, SweepFrame, RestoreCompleted
<1>8. CASE call = "restore_failed"
  <2>1. /\ CompleteOperation(sweep[s].op, "stopped", sweep[s].power, TRUE)
        /\ SnapshotOwned(n, sweep[s].op, "restoring") /\ SettleSnapshot(n, "ready")
    BY <1>8 DEF FailRestore
  <2>2. ~Doomed /\ n = row.snap /\ n \in Snapshots
    BY <1>3, <1>4, <1>8, <2>1 DEF Doomed, PointKinds, CompleteOperation
  <2>3. sweep[s].plan \in Looks
    BY <1>1, <1>8 DEF Looks
  <2>4. Ours(row.vmid) /\ vm.power = sweep[s].power /\ SizeMatches
    BY <1>1, <1>2, <1>5, <1>8, <2>1, <2>2, <2>3 DEF SweepTrue, SizeMatches
  <2>5. PointSizes'
    BY <2>1, <2>2, PointSettled DEF HostSame, SnapshotOwned
  <2> QED
    BY <1>1, <1>3, <2>1, <2>4, <2>5, SweepFrame, Completed
<1> QED
  BY <1>6, <1>7, <1>8

LEMMA ReleaseApplied ==
  ASSUME RestInv, IInv', NEW s \in Sweepers, SweepApply(s), HostSame, row.op = sweep[s].op,
         NEW mark \in BOOLEAN, NEW ok \in BOOLEAN, Release(sweep[s].op, mark, ok),
         \/ Head(sweep[s].plan) = "release"
         \/ Head(sweep[s].plan) = "error" /\ mark
  PROVE  IdleInv'
<1>1. Sweep(s) /\ sweep[s].step = "apply"
  BY DEF Sweep, SweepApply
<1>2. CASE Head(sweep[s].plan) = "release"
  <2>1. row.desired = "deleted"
    BY <1>1, <1>2, AppliesTo, PlannedCall DEF RestInv
  <2> QED
    BY <1>1, <2>1, SweepFrame, Released
<1>3. CASE Head(sweep[s].plan) = "error" /\ mark
  <2>1. sweep[s].plan = <<"error">>
    BY <1>1, <1>3, PlanCalls DEF RestInv
  <2>2. Doomed \/ row.op = 1 \/ vm.slot = NoVm
    BY <1>1, <2>1 DEF RestInv, IdleInv, SweepsTrue, SweepTrue
  <2>3. row.desired = "deleted" \/ SizeMatches
    BY <1>1, <2>2, AppliesTo, Facts DEF SizeMatches, Doomed
  <2> QED
    BY <1>1, <1>3, <2>3, SweepFrame, Released
<1> QED
  BY <1>2, <1>3

LEMMA SweepApplyIdle ==
  ASSUME RestInv, IInv', NEW s \in Sweepers, SweepApply(s)
  PROVE  IdleInv'
<1>1. Sweep(s) /\ HostSame /\ sweep[s].step = "apply"
  BY DEF Sweep, SweepApply, KeepHost, hostVars, HostSame
<1>2. PICK ok \in BOOLEAN :
        /\ Applies(s, Head(sweep[s].plan), ok)
        /\ IF ok /\ Tail(sweep[s].plan) # <<>>
             THEN SweepTo(s, [sweep[s] EXCEPT !.plan = Tail(@)])
             ELSE SweepEnds(s)
  BY DEF SweepApply
<1> DEFINE call == Head(sweep[s].plan)
           o == sweep[s].op
<1>3. CASE ~ok /\ RowSame
  BY <1>1, <1>2, <1>3, SweepToFields, BlindPlan, SweepIdles DEF SweepEnds, IdleSweep, RestInv
<1>4. CASE call = "delete" /\ CompleteDelete(o, ok)
  BY <1>1, <1>3, <1>4, SweepFrame, MaybeDeleted
<1>5. CASE call = "release" /\ Release(o, FALSE, ok)
  <2>1. CASE row.op = o
    <3>1. PICK mark \in BOOLEAN : Release(o, mark, ok)
      BY <1>5, Zenon
    <3> QED
      BY <1>1, <1>5, <2>1, <3>1, ReleaseApplied
  <2>2. CASE row.op # o
    BY <1>3, <1>5, <2>2 DEF Release, RowSame
  <2> QED
    BY <2>1, <2>2
<1>6. CASE call = "error" /\ Release(o, TRUE, ok)
  <2>1. CASE row.op = o
    <3>1. PICK mark \in BOOLEAN : mark /\ Release(o, mark, ok)
      BY <1>6, Zenon
    <3> QED
      BY <1>1, <1>6, <2>1, <3>1, ReleaseApplied
  <2>2. CASE row.op # o
    BY <1>3, <1>6, <2>2 DEF Release, RowSame
  <2> QED
    BY <2>1, <2>2
<1>7. CASE \/ call = "running" /\ CompleteRunning(o, sweep[s].kind, ok)
           \/ /\ call = "observed"
              /\ CompleteOperation(o, IF sweep[s].kind = "stop" THEN "stopped" ELSE "running",
                                   sweep[s].power, ok)
              /\ UNCHANGED <<snaps, restored>>
  <2>1. CASE ok
    BY <1>1, <1>7, <2>1, PowerApplied
  <2>2. CASE ~ok
    BY <1>3, <1>7, <2>2 DEF CompleteRunning, CompleteOperation, RowSame
  <2> QED
    BY <2>1, <2>2
<1>8. CASE call = "continue" /\ Continue(o, ok)
  <2>1. CASE ok
    <3>1. sweep'[s].step # "idle" =>
             /\ sweep'[s].plan = Tail(sweep[s].plan) /\ sweep'[s].op = sweep[s].op
             /\ sweep'[s].power = sweep[s].power
      <4>1. CASE SweepEnds(s)
        BY <4>1, SweepToFields DEF SweepEnds, IdleSweep, RestInv
      <4>2. CASE SweepTo(s, [sweep[s] EXCEPT !.plan = Tail(@)])
        <5>1. sweep[s] \in SweepRows /\ sweep'[s] = [sweep[s] EXCEPT !.plan = Tail(@)]
          BY <4>2, SweepToFields DEF RestInv
        <5> QED
          BY <5>1 DEF SweepRows
      <4> QED
        BY <1>2, <4>1, <4>2
    <3> QED
      BY <1>1, <1>8, <2>1, <3>1, ContinueApplied
  <2>2. CASE ~ok
    BY <1>3, <1>8, <2>2 DEF Continue, RowSame
  <2> QED
    BY <2>1, <2>2
<1>9. CASE \/ call = "snapshot" /\ CompleteSnapshot(o, sweep[s].snap, sweep[s].power, ok)
           \/ call = "snapshot_failed" /\ FailSnapshot(o, sweep[s].snap, sweep[s].power, ok)
           \/ call = "restore" /\ CompleteRestore(o, sweep[s].snap, ok)
           \/ call = "restore_failed" /\ FailRestore(o, sweep[s].snap, sweep[s].power, ok)
  <2>1. CASE ok
    BY <1>1, <1>9, <2>1, PointApplied
  <2>2. CASE ~ok
    BY <1>3, <1>9, <2>2
       DEF CompleteSnapshot, FailSnapshot, CompleteRestore, FailRestore, CompleteOperation, RowSame
  <2> QED
    BY <2>1, <2>2
<1> QED
  BY <1>2, <1>4, <1>5, <1>6, <1>7, <1>8, <1>9 DEF Applies

LEMMA SweepIdle ==
  ASSUME RestInv, IInv', NEW s \in Sweepers, Sweep(s)
  PROVE  IdleInv'
BY SweepReadIdle, SweepIntentIdle, SweepTeardownIdle, SweepObserveIdle, SweepProbeIdle,
   SweepCompensateIdle, SweepRecheckIdle, SweepApplyIdle DEF Sweep
-----------------------------------------------------------------------------
(* The row at rest.                                                        *)

LEMMA IdleKept ==
  ASSUME RestInv, [Next]_vars, overtaken' = {}
  PROVE  IdleInv'
<1>1. IInv'
  BY NextGood, StutterGood DEF RestInv
<1>2. CASE UNCHANGED vars
  BY <1>1, <1>2, StillIdle DEF vars, dbVars, clockVars, hostVars, HostSame, RowSame
<1> QED
  BY <1>1, <1>2, HostIdle, PostIdle, OwnerIdle, PollIdle, SweepIdle DEF Next

LEMMA IdleInit ==
  ASSUME Init
  PROVE  TraceInv /\ IdleInv
<1>1. TraceInv
  BY DEF Init, TraceInv, MarkedVm, Named, IdleSweep
<1>2. RowFits /\ HostFits
  BY DEF Init, RowFits, HostFits, StartLike, Lifecycle, Gone, NoLog
<1>3. VmThere /\ SizeShown /\ PowerShown /\ LogTrue
  BY DEF Init, VmThere, SizeShown, PowerShown, LogTrue, Gone, NoLog, Power
<1>4. PointSizes
  BY DEF Init, PointSizes
<1>5. WorkerTrue /\ PollTrue /\ SweepsTrue
  BY DEF Init, WorkerTrue, PollTrue, SweepsTrue, SweepTrue, IdleWorker, IdlePoll, IdleSweep
<1> QED
  BY <1>1, <1>2, <1>3, <1>4, <1>5 DEF IdleInv

Undisturbed == overtaken = {} => RestInv

(* As long as no launch is ended under its own removal, the invariant that *)
(* relates the row, the VM and what every request, poll and sweep is going *)
(* to record holds of every action of the route, the poll and the sweep.   *)
THEOREM RestingInvariance == Spec => []Undisturbed
<1>1. Init => Undisturbed
  BY InitGood, BaseInit, LeaseInit, IdleInit DEF RestInv, Undisturbed
<1>2. Undisturbed /\ [Next]_vars => Undisturbed'
  <2>1. SUFFICES ASSUME Undisturbed, [Next]_vars, overtaken' = {} PROVE RestInv'
    BY DEF Undisturbed
  <2>2. RestInv
    BY <2>1, GhostsGrow DEF Undisturbed
  <2>3. IInv' /\ BaseInv' /\ LeaseInv' /\ TraceInv'
    BY <2>1, <2>2, NextGood, StutterGood, BaseKept, LeaseKept, TraceKept DEF RestInv
  <2> QED
    BY <2>1, <2>2, <2>3, IdleKept DEF RestInv
<1> QED
  BY <1>1, <1>2, PTL DEF Spec

(* Unless it is to be deleted, a row at rest that shows a power state has  *)
(* its VM, whatever the action route, the poll and the sweeps recorded, in *)
(* whatever order, cut short or repeated: under the row's VMID, with the   *)
(* row's size, and running if the row says so.                             *)
RestingTrue ==
  overtaken = {} /\ row.op = 0 /\ row.status \in Power /\ row.desired # "deleted" =>
    /\ Ours(row.vmid)
    /\ vm.config = row.size
    /\ row.status = "running" => vm.power = "running"

LEMMA AtRest ==
  ASSUME RestInv, row.op = 0, row.status \in Power, row.desired # "deleted"
  PROVE  /\ Ours(row.vmid) /\ vm.config = row.size
         /\ vm.power = row.status \/ (row.status = "stopped" /\ woken)
<1>1. ~Doomed /\ row.kind = "none"
  BY Facts DEF Doomed
<1>2. Ours(row.vmid) /\ vm.slot # NoVm
  BY <1>1 DEF RestInv, IdleInv, VmThere, Ours
<1> QED
  BY <1>1, <1>2 DEF RestInv, IdleInv, PowerShown, Untried, SizeShown

(* The row at rest is never wrong about its VM's existence or size, and    *)
(* never shows a stopped VM as running: every terminal compare-and-set of  *)
(* the action route, the poll and the sweep, for any actions of the owner. *)
THEOREM RestingRowsTrue == Spec => []RestingTrue
<1>1. Undisturbed => RestingTrue
  BY AtRest DEF RestingTrue, Undisturbed
<1> QED
  BY <1>1, RestingInvariance, PTL

(* A row that claims to have converged agrees with the host about the VM,  *)
(* its size and its power, for any actions of the owner; the one exception *)
(* in power is a VM that a refused resize has started and nobody has seen  *)
(* since.  (every terminal compare-and-set of the action route, the poll   *)
(* and the sweep)                                                          *)
THEOREM IdleRowsMatch == Spec => []IdleExplained
<1>1. Undisturbed => IdleExplained
  <2>1. SUFFICES ASSUME RestInv, IdleRow
                 PROVE  /\ Ours(row.vmid)
                        /\ vm.power = row.status \/ (woken /\ row.status = "stopped")
                        /\ vm.config = row.size
    BY DEF Undisturbed, IdleExplained
  <2>2. row.desired # "deleted"
    BY <2>1 DEF IdleRow, Power
  <2> QED
    BY <2>1, <2>2, AtRest DEF IdleRow
<1> QED
  BY <1>1, RestingInvariance, PTL
-----------------------------------------------------------------------------
(* Restores.  A sweep takes an equal configuration for a completed restore *)
(* and may be wrong; nobody else is.                                       *)

RestoreKnown == worker.step = "settle" /\ worker.kind = "restore" => worker.op \in applied

LEMMA AppliedGrows ==
  ASSUME [Next]_vars
  PROVE  applied \subseteq applied'
<1>1. CASE Post
  BY <1>1 DEF Post, PostTunnel, PostFailBeforeAllocation, PostBeginAllocation, PostCheckpoint,
    PostPhase1, PostPersist, PostVerify, PostRollback, PostCompleteDelete, PostRelease,
    PostReleaseIntent, PostCrash, KeepHost, hostVars, Rollback, Destroy
<1>2. CASE Owner
  BY <1>2 DEF Owner, ClaimPower, BeginSnapshot, BeginRestore, Claim, InvalidateDesktop, PowerScript,
    SnapshotScript, RestoreScript, SettleAnswer, ReleaseRefused, RequestDelete, DeleteDestroy,
    DeleteFinish, DeleteAbort, WorkerCrash, KeepHost, hostVars, DestroyWithLogs, Destroy
<1>3. CASE Poll
  BY <1>3 DEF Poll, PollRead, PollCheckpoint, PollCancel, PollCompleteDelete, PollLog, PollConverge,
    KeepHost, hostVars, DestroyWithLogs, Destroy
<1>4. ASSUME NEW s \in Sweepers, Sweep(s) PROVE applied \subseteq applied'
  BY <1>4 DEF Sweep, SweepRead, SweepClaim, SweepIntent, SweepTeardown, SweepLetGo, SweepObserve,
    SweepProbe, SweepCompensate, SweepRecheck, SweepApply, SweepFails, KeepHost, hostVars,
    DestroyWithLogs, DestroyAllocation, Destroy
<1> QED
  BY <1>1, <1>2, <1>3, <1>4
     DEF Next, vars, hostVars, InstallerFinishes, HelperFinishes, ForeignAppears, GoesStale

LEMMA RestoreKnownKept ==
  ASSUME IInv, RestoreKnown, [Next]_vars
  PROVE  RestoreKnown'
<1>1. applied \subseteq applied'
  BY AppliedGrows
<1>2. CASE worker' = worker
  BY <1>1, <1>2 DEF RestoreKnown
<1>3. CASE Owner /\ worker' # worker
  <2>1. SUFFICES ASSUME worker'.step = "settle", worker'.kind = "restore" PROVE worker'.op \in applied'
    BY DEF RestoreKnown
  <2>2. worker \in [step : WorkerSteps, op : Ops, kind : Kinds, vmid : Vmids, snap : Points, power : Power]
    BY DEF IInv, StateType, WorkerType
  <2>3. /\ WorkerEnds => worker'.step = "idle"
        /\ \A step : WorkerTo(step) =>
             worker'.step = step /\ worker'.op = worker.op /\ worker'.kind = worker.kind
    BY <2>2 DEF WorkerEnds, WorkerTo, IdleWorker
  <2>4. CASE RestoreScript
    BY <2>1, <2>3, <2>4 DEF RestoreScript
  <2>5. ~ClaimPower /\ ~BeginSnapshot /\ ~BeginRestore
    <3>1. \A kind, desired, n, step : Claim(kind, desired, n, step) => worker'.step = step
      BY DEF Claim
    <3> QED
      BY <2>1, <3>1, ClaimedBy
  <2>6. ~SnapshotScript
    <3>1. worker' = [worker EXCEPT !.step = "settle", !.power = vm.power] => worker'.kind = worker.kind
      BY <2>2
    <3> QED
      BY <2>1, <2>3, <3>1 DEF SnapshotScript
  <2>7. ~PowerScript
    <3>1. PowerScript => worker.kind \in StartLike \cup {"stop"} /\ (WorkerEnds \/ \E step : WorkerTo(step))
      BY DEF PowerScript
    <3> QED
      BY <2>1, <2>3, <3>1 DEF StartLike
  <2>8. ~SettleAnswer /\ ~InvalidateDesktop /\ ~ReleaseRefused /\ ~WorkerCrash
    <3>1. SettleAnswer => WorkerEnds \/ WorkerTo("refused")
      BY DEF SettleAnswer, StartLike, IInv, WorkerShape, WorkerAt, Lifecycle
    <3>2. InvalidateDesktop => WorkerEnds \/ WorkerTo("script")
      BY DEF InvalidateDesktop
    <3>3. ReleaseRefused \/ WorkerCrash => WorkerEnds
      BY DEF ReleaseRefused, WorkerCrash
    <3>4. ~WorkerEnds /\ ~WorkerTo("refused") /\ ~WorkerTo("script")
      BY <2>1, <2>3
    <3> QED
      BY <3>1, <3>2, <3>3, <3>4
  <2>9. ~RequestDelete
    <3>1. RequestDelete => worker' = [IdleWorker EXCEPT
             !.step = IF row.vmid = NoVm THEN "finish" ELSE "destroy",
             !.op = last + 1, !.kind = "delete", !.vmid = row.vmid]
      BY <1>3 DEF RequestDelete
    <3> QED
      BY <2>1, <3>1 DEF IdleWorker
  <2>10. ~DeleteDestroy /\ ~DeleteFinish /\ ~DeleteAbort
    <3>1. DeleteDestroy \/ DeleteFinish \/ DeleteAbort =>
            WorkerEnds \/ \E step \in {"finish", "abort"} : WorkerTo(step)
      BY DEF DeleteDestroy, DeleteFinish, DeleteAbort
    <3> QED
      BY <2>1, <2>3, <3>1
  <2> QED
    BY <1>3, <2>4, <2>5, <2>6, <2>7, <2>8, <2>9, <2>10 DEF Owner
<1> QED
  BY <1>2, <1>3, OneMoves

LEMMA RecordedRestores ==
  ASSUME IInv, RestoreKnown, [Next]_vars, sweep' = sweep
  PROVE  restored' \subseteq restored \cup applied
<1>1. CASE UNCHANGED restored
  BY <1>1
<1>2. CASE Post
  BY <1>1, <1>2 DEF Post, PostTunnel, PostFailBeforeAllocation, PostBeginAllocation, PostCheckpoint,
    PostPhase1, PostPersist, PostVerify, PostRollback, PostCompleteDelete, PostRelease,
    PostReleaseIntent, PostCrash, KeepRow, dbVars, Persist, CompleteDelete, Release
<1>3. CASE Poll
  BY <1>1, <1>3 DEF Poll, PollRead, PollCheckpoint, PollCancel, PollCompleteDelete, PollLog, PollConverge,
    KeepRow, dbVars, CompleteDelete, CompleteRunning, Release
<1>4. CASE Owner /\ ~SettleAnswer
  BY <1>1, <1>4 DEF Owner, ClaimPower, BeginSnapshot, BeginRestore, Claim, InvalidateDesktop, PowerScript,
    SnapshotScript, RestoreScript, ReleaseRefused, RequestDelete, DeleteDestroy, DeleteFinish, DeleteAbort,
    WorkerCrash, KeepRow, dbVars, CompleteDelete, Release
<1>5. CASE SettleAnswer
  <2>1. worker.step = "settle" /\ worker.kind \in Lifecycle
    BY <1>5 DEF SettleAnswer, WorkerAt, IInv, WorkerShape
  <2>2. CASE worker.kind # "restore"
    BY <1>1, <1>5, <2>1, <2>2
       DEF SettleAnswer, Lifecycle, StartLike, Continue, CompleteSnapshot
  <2>3. CASE worker.kind = "restore"
    <3>1. \E ok \in BOOLEAN : CompleteRestore(worker.op, worker.snap, ok)
      BY <1>5, <2>3 DEF SettleAnswer, StartLike
    <3>2. restored' \subseteq restored \cup {worker.op}
      BY <3>1 DEF CompleteRestore
    <3> QED
      BY <2>1, <2>3, <3>2 DEF RestoreKnown
  <2> QED
    BY <2>2, <2>3
<1>6. ASSUME NEW s \in Sweepers, Sweep(s) PROVE UNCHANGED restored
  <2>1. CASE SweepApply(s)
    <3>1. sweep[s].step = "apply" /\ sweep[s] \in SweepRows
      BY <2>1, SweepToFields DEF SweepApply
    <3>2. ~SweepEnds(s)
      BY <3>1, SweepToFields DEF SweepEnds, IdleSweep
    <3>3. SweepTo(s, [sweep[s] EXCEPT !.plan = Tail(@)]) /\ Tail(sweep[s].plan) # <<>>
      BY <2>1, <3>2 DEF SweepApply
    <3>4. sweep'[s].plan = Tail(sweep[s].plan)
      BY <3>1, <3>3, SweepToFields DEF SweepRows
    <3>5. Tail(sweep[s].plan) # sweep[s].plan
      <4>1. CASE sweep[s].plan = <<Head(sweep[s].plan)>>
        <5>1. \A x : Tail(<<x>>) = <<>>
          OBVIOUS
        <5> QED
          BY <3>3, <4>1, <5>1
      <4>2. CASE sweep[s].plan = <<"continue", "running">>
        BY <4>2
      <4>3. CASE sweep[s].plan = <<"continue", "observed">>
        BY <4>3
      <4> QED
        BY <3>1, <4>1, <4>2, <4>3, PlanCalls
    <3> QED
      BY <3>4, <3>5
  <2>2. CASE ~SweepApply(s)
    BY <1>6, <2>2 DEF Sweep, SweepRead, SweepClaim, SweepIntent, SweepTeardown, SweepLetGo, SweepObserve,
      SweepProbe, SweepCompensate, SweepRecheck, SweepFails, KeepRow, dbVars, Persist
  <2> QED
    BY <2>1, <2>2
<1> QED
  BY <1>1, <1>2, <1>3, <1>4, <1>5, <1>6
     DEF Next, vars, dbVars, InstallerFinishes, HelperFinishes, ForeignAppears, GoesStale

(* The owner's request records a restore only after the host has rolled    *)
(* the disk back under that operation, whatever overlaps it; no launch,    *)
(* poll or delete records one.  What a sweep records from an equal         *)
(* configuration is the one exception.  (route.ts of restore,              *)
(* recover-stuck-provisioning.ts)                                          *)
THEOREM OnlySweepsAssumeRestores == Spec => RestoreRecorded
<1>1. Init => RestoreKnown
  BY DEF Init, RestoreKnown, IdleWorker
<1>2. IInv /\ RestoreKnown /\ [Next]_vars => RestoreKnown'
  BY RestoreKnownKept
<1>3. IInv /\ RestoreKnown /\ [Next]_vars =>
        [sweep' = sweep => restored' \subseteq restored \cup applied]_vars
  BY RecordedRestores
<1> QED
  BY <1>1, <1>2, <1>3, Invariance, PTL DEF Spec, RestoreRecorded
=============================================================================
