-------------------------- MODULE AgentHostProofs --------------------------
(***************************************************************************)
(* Proofs about AgentOperations and the host: no VM is lost, and only the  *)
(* launch or a delete removes one.  They rest on the invariant of          *)
(* AgentOperationsProofs.                                                  *)
(***************************************************************************)
EXTENDS AgentOperationsProofs

-----------------------------------------------------------------------------
(* What holds whatever overlaps and fails.                                 *)

(* There is one VMID: the one POST got from the allocator.  A launch is    *)
(* provisioning until it ends.                                             *)
Known == {NoVm, post.vmid}
RowBase ==
  /\ vm.slot \in Known /\ intent \in Known /\ row.vmid \in Known
  /\ row.op = 1 => row.status = "provisioning"
  /\ row.op = 1 /\ stale => post.step = "done"

(* A delete that no snapshot can take back.                                *)
Doomed == row.desired = "deleted" /\ row.kind # "snapshot"

GoneSteps == {"terminal", "terminal_error", "finish_delete", "drop_intent"}
PostBase ==
  /\ post.step \in EarlySteps => post.vmid = NoVm
  /\ post.step \in {"persist", "persist_failed"} => post.vmid # NoVm
  /\ post.step \in GoneSteps => vm.slot = NoVm

WorkerBase ==
  /\ worker.vmid \in Known
  /\ worker.step = "destroy" => worker.vmid # NoVm

(* A copy of the row that is to be deleted is never out of date.           *)
PollBase ==
  /\ poll.vmid \in Known
  /\ poll.step # "idle" => poll.vmid # NoVm
  /\ poll.step # "idle" /\ poll.kind = "provision" /\ poll.desired = "deleted" => Doomed
  /\ poll.step = "cancel" => poll.kind = "provision" /\ poll.desired = "deleted"
  /\ poll.step = "cancel_row" => vm.slot = NoVm

Compensating(s) == sweep[s].step = "apply" /\ sweep[s].plan = <<"compensate">>

(* Sweeps take a launch over only after its request; only a launch is      *)
(* compensated.                                                            *)
SweepBase(s) ==
  /\ sweep[s].vmid \in Known
  /\ sweep[s].step # "idle" /\ sweep[s].op = 1 => post.step = "done"
  /\ sweep[s].step # "idle" /\ Superseded(s) /\ sweep[s].kind \in {"delete", "provision"} => Doomed
  /\ Compensating(s) => sweep[s].kind = "provision" /\ sweep[s].vmid # NoVm

BaseInv == RowBase /\ PostBase /\ WorkerBase /\ PollBase /\ \A s \in Sweepers : SweepBase(s)

-----------------------------------------------------------------------------
(* While every allocation intent is read: how the row leads to the VM.     *)

RowAccount ==
  vm.slot # NoVm =>
    /\ row.status # "deleted"
    /\ row.vmid = vm.slot \/ (row.op = 1 /\ intent = vm.slot)

(* POST drops the intent file only after the row names the VM.             *)
PostAccount == post.step \in {"check_limit", "verify"} => vm.slot = NoVm \/ row.vmid = vm.slot

WorkerAccount == worker.step = "finish" => vm.slot = NoVm

PollAccount == poll.step # "idle" /\ poll.op = row.op => row.vmid # NoVm

(* The copy of a sweep that can still claim the row, or has, names the     *)
(* row's VMID, and what it is going to call is justified.                  *)
SweepAccount(s) ==
  /\ s \in exact => sweep[s].step = "read"
  /\ (s \in exact \/ Working(s)) /\ sweep[s].op = row.op => sweep[s].vmid = row.vmid
  /\ sweep[s].step = "apply" /\ sweep[s].op = row.op => vm.slot \in {NoVm, row.vmid}
  /\ sweep[s].step = "apply" /\ sweep[s].op = row.op
       /\ sweep[s].plan \in {<<"delete">>, <<"checkpoint">>} => vm.slot = NoVm

AccountInv ==
  RowAccount /\ PostAccount /\ WorkerAccount /\ PollAccount /\ \A s \in Sweepers : SweepAccount(s)

-----------------------------------------------------------------------------
(* While nothing overtakes a launch: it holds its lease until              *)
(* its VM is removed.                                                      *)

(* The provision log: nothing before a VM was asked for, nothing once a    *)
(* start log has replaced it.                                              *)
HostLease ==
  /\ post.step \in EarlySteps => installed = "none" /\ log.op = 0
  /\ log.op # 0 /\ vm.slot # NoVm => installed = "none"
  /\ post.step # "done" /\ vm.slot # NoVm => row.op = 1

(* The marker a poll or a sweep acts on is still the one it read.          *)
PollLease ==
  poll.step = "running" /\ poll.kind = "provision" /\ poll.op = row.op /\ vm.slot # NoVm
    => installed = "ready"

SweepLease(s) ==
  /\ Working(s) /\ sweep[s].op = 1 /\ vm.slot # NoVm
       => row.op = 1 \/ installed = "ready" \/ log.op # 0
  /\ Compensating(s) /\ vm.slot # NoVm => row.op = 1 /\ installed = "failed"

LeaseInv == HostLease /\ PollLease /\ \A s \in Sweepers : SweepLease(s)

-----------------------------------------------------------------------------
(* What a step can do to the row.                                          *)

Persists == row.op = 1 /\ row'.op = 1 /\ row'.vmid = post.vmid /\ row'.vmid # NoVm
RowMoves ==
  /\ row'.vmid \in {row.vmid, NoVm} \/ Persists
  /\ row'.op \in {0, row.op} \/ row'.op > last
  /\ row'.op = row.op /\ row.op # 0 => row'.vmid = row.vmid \/ Persists
  /\ row'.op = 1 => row'.status = "provisioning"
  /\ Doomed => Doomed'

(* Nobody but the completion of a delete unnames the VM, and only POST and *)
(* a sweep that read the intent name it.                                   *)
VmidKept == row'.op = row.op /\ row.op # 0 => row'.vmid = row.vmid

Keeps(o) ==
  /\ row' = row \/ row.op = o
  /\ row'.vmid = row.vmid
  /\ row'.status = "deleted" => row.status = "deleted"

LEMMA SameRowMoves ==
  ASSUME IInv, BaseInv, row' = row, NEW o
  PROVE  RowMoves /\ Keeps(o) /\ VmidKept
BY DEF RowMoves, Doomed, BaseInv, RowBase, Keeps, VmidKept

LEMMA ClearedMoves ==
  ASSUME IInv, NEW r \in Rows, row' = Cleared(r), r.vmid \in {row.vmid, NoVm}, row.op # 0,
         Doomed => r.desired = "deleted"
  PROVE  /\ RowMoves
         /\ r.vmid = row.vmid /\ (r.status = "deleted" => row.status = "deleted") => Keeps(row.op)
<1>1. /\ row'.op = 0 /\ row'.kind = "none" /\ row'.vmid = r.vmid /\ row'.desired = r.desired
      /\ row'.status = r.status
  BY ClearedEffect
<1> QED
  BY <1>1 DEF RowMoves, Doomed, Keeps

LEMMA DeleteMoves ==
  ASSUME IInv, BaseInv, NEW o, o # 0, NEW ok \in BOOLEAN, CompleteDelete(o, ok)
  PROVE  RowMoves /\ VmidKept
<1> DEFINE r == [row EXCEPT !.status = "deleted", !.vmid = NoVm]
<1>1. CASE row' = row
  BY <1>1, SameRowMoves
<1>2. CASE row' # row
  <2>1. row' = Cleared(r) /\ row.op = o
    BY <1>2 DEF CompleteDelete, KeepRow, dbVars, DeletableBy
  <2>2. r \in Rows /\ r.vmid = NoVm /\ r.desired = row.desired
    BY RowTyped DEF Rows, Statuses, Vmids
  <2> HIDE DEF r
  <2> QED
    BY <2>1, <2>2, ClearedMoves, ClearedEffect DEF Doomed, VmidKept
<1> QED
  BY <1>1, <1>2

LEMMA RestoreMoves ==
  ASSUME IInv, BaseInv, NEW o, o # 0, NEW n \in Snapshots, NEW ok \in BOOLEAN, CompleteRestore(o, n, ok)
  PROVE  RowMoves /\ Keeps(o)
<1> DEFINE r == [row EXCEPT !.status = "stopped", !.desired = "stopped", !.size = snaps[n].size]
<1>1. CASE row' = row
  BY <1>1, SameRowMoves
<1>2. CASE row' # row
  <2>1. row' = Cleared(r) /\ row.op = o /\ row.desired = "stopped"
    BY <1>2 DEF CompleteRestore
  <2>2. snaps[n].size \in Ops
    BY RowTyped DEF PointRows
  <2>3. r \in Rows /\ r.vmid = row.vmid /\ r.status = "stopped"
    BY <2>2, RowTyped DEF Rows, Statuses, Desires, Power
  <2> HIDE DEF r
  <2> QED
    BY <2>1, <2>3, ClearedMoves DEF Doomed
<1> QED
  BY <1>1, <1>2

LEMMA ContinueMoves ==
  ASSUME IInv, BaseInv, NEW o, o # 0, NEW ok \in BOOLEAN, Continue(o, ok)
  PROVE  RowMoves /\ Keeps(o)
<1>1. CASE row' = row
  BY <1>1, SameRowMoves
<1>2. CASE row' # row
  <2>1. /\ row.op = o
        /\ row' = [row EXCEPT !.status = "provisioning",
                              !.size = IF row.kind = "resize" THEN o ELSE row.size]
    BY <1>2 DEF Continue
  <2>2. /\ row'.op = row.op /\ row'.vmid = row.vmid /\ row'.kind = row.kind
        /\ row'.desired = row.desired /\ row'.status = "provisioning"
    BY <2>1, RowTyped DEF Rows
  <2> QED
    BY <2>1, <2>2 DEF RowMoves, Doomed, Keeps
<1> QED
  BY <1>1, <1>2

LEMMA PersistMoves ==
  ASSUME IInv, BaseInv, NEW o, o # 0, NEW ok \in BOOLEAN, Persist(o, post.vmid, ok), post.vmid # NoVm
  PROVE  /\ RowMoves
         /\ row'.op = row.op /\ row'.status = row.status /\ row'.vmid \in {row.vmid, post.vmid}
<1>1. CASE row' = row
  BY <1>1, SameRowMoves
<1>2. CASE row' # row
  <2>1. /\ row.op = o /\ row.kind = "provision" /\ row.status = "provisioning"
        /\ row' = [row EXCEPT !.vmid = post.vmid]
    BY <1>2 DEF Persist
  <2>2. /\ row'.op = row.op /\ row'.vmid = post.vmid /\ row'.kind = row.kind
        /\ row'.desired = row.desired /\ row'.status = "provisioning"
    BY <2>1, RowTyped DEF Rows
  <2>3. row.op = 1
    BY <2>1 DEF IInv, IdsInOrder
  <2> QED
    BY <2>1, <2>2, <2>3 DEF RowMoves, Doomed, Persists
<1> QED
  BY <1>1, <1>2

(* Every other stored function.                                            *)
LEMMA StoredMoves ==
  ASSUME IInv, BaseInv,
         NEW o, o # 0, NEW e \in Power, NEW p \in Power, NEW n, NEW k, NEW mark, NEW ok \in BOOLEAN,
         \/ Release(o, mark, ok) \/ CompleteOperation(o, e, p, ok) \/ CompleteRunning(o, k, ok)
         \/ CompleteSnapshot(o, n, p, ok) \/ FailSnapshot(o, n, p, ok)
         \/ FailRestore(o, n, p, ok)
  PROVE  RowMoves /\ Keeps(o)
<1>1. p \in Statuses /\ p \in Desires /\ "error" \in Statuses /\ "running" \in Statuses
      /\ "deleted" \in Statuses /\ "stopped" \in Statuses /\ "stopped" \in Desires /\ NoVm \in Vmids
      /\ "provisioning" \in Statuses
  BY DEF Statuses, Desires, Power, Vmids
<1>2. row \in Rows /\ snaps \in [Snapshots -> PointRows]
  BY RowTyped
<1>3. CASE row' = row
  BY <1>3, SameRowMoves
<1>4. ASSUME NEW x, row.op = o, CompleteOperation(o, x, p, TRUE), ~Doomed
      PROVE  RowMoves /\ Keeps(o)
  <2> DEFINE r == [row EXCEPT !.status = p, !.desired = p]
  <2>1. row' = Cleared(r)
    BY <1>4 DEF CompleteOperation
  <2>2. r \in Rows /\ r.vmid = row.vmid /\ r.status # "deleted"
    BY <1>1, <1>2 DEF Rows, Power
  <2> HIDE DEF r
  <2> QED
    BY <1>4, <2>1, <2>2, ClearedMoves
<1>5. ASSUME Release(o, mark, ok), row' # row PROVE RowMoves /\ Keeps(o)
  <2> DEFINE st == IF mark /\ row.desired # "deleted" THEN "error" ELSE row.status
             r == [row EXCEPT !.status = st]
  <2>1. row' = Cleared(r) /\ row.op = o
    BY <1>5 DEF Release
  <2>2. st \in Statuses
    BY <1>1, <1>2 DEF Rows
  <2>3. st = "deleted" => row.status = "deleted"
    OBVIOUS
  <2> HIDE DEF st
  <2>4. r \in Rows /\ r.vmid = row.vmid /\ r.desired = row.desired /\ r.status = st
    BY <1>2, <2>2 DEF Rows
  <2> HIDE DEF r
  <2> QED
    BY <2>1, <2>3, <2>4, ClearedMoves DEF Doomed
<1>6. ASSUME CompleteRunning(o, k, ok), row' # row PROVE RowMoves /\ Keeps(o)
  <2> DEFINE r == [row EXCEPT !.status = "running"]
  <2>1. row' = Cleared(r) /\ row.op = o
    BY <1>6 DEF CompleteRunning
  <2>2. r \in Rows /\ r.vmid = row.vmid /\ r.desired = row.desired /\ r.status = "running"
    BY <1>1, <1>2 DEF Rows
  <2> HIDE DEF r
  <2> QED
    BY <2>1, <2>2, ClearedMoves DEF Doomed
<1>7. ASSUME NEW x \in Power, CompleteOperation(o, x, p, ok), row' # row PROVE RowMoves /\ Keeps(o)
  <2>1. CompleteOperation(o, x, p, TRUE) /\ row.op = o /\ row.desired = x /\ x # "deleted"
    BY <1>7 DEF CompleteOperation, Power
  <2> QED
    BY <1>4, <2>1 DEF Doomed
<1>8. ASSUME CompleteSnapshot(o, n, p, ok), row' # row PROVE RowMoves /\ Keeps(o)
  BY <1>7, <1>8 DEF CompleteSnapshot
<1>9. ASSUME FailRestore(o, n, p, ok), row' # row PROVE RowMoves /\ Keeps(o)
  BY <1>7, <1>9 DEF FailRestore, Power
<1>10. ASSUME FailSnapshot(o, n, p, ok), row' # row PROVE RowMoves /\ Keeps(o)
  <2>1. row.kind = "snapshot" /\ row.op = o /\ CompleteOperation(o, row.desired, p, ok)
    BY <1>10 DEF FailSnapshot
  <2>2. CompleteOperation(o, row.desired, p, TRUE)
    BY <1>10, <2>1 DEF CompleteOperation
  <2> QED
    BY <1>4, <2>1, <2>2 DEF Doomed
<1> QED
  BY <1>3, <1>5, <1>6, <1>7, <1>8, <1>9, <1>10

-----------------------------------------------------------------------------
(* Every call of every process, and how it can change the row.             *)

(* A VM that was accounted for stays so.                                   *)
Accounted ==
  vm.slot # NoVm =>
    /\ row'.status # "deleted"
    /\ row'.vmid = vm.slot \/ (row'.vmid = row.vmid /\ row'.op = row.op)

LEMMA KeptAccounted ==
  ASSUME BaseInv, RowAccount, NEW o, Keeps(o),
         (row.op = o => vm.slot \in {NoVm, row.vmid}) \/ row'.op = row.op
  PROVE  Accounted
BY DEF BaseInv, RowBase, Known, RowAccount, Keeps, Persists, Accounted

LEMMA SameAccounted ==
  ASSUME RowAccount, row' = row
  PROVE  Accounted
BY DEF RowAccount, Accounted

LEMMA PostMoves ==
  ASSUME IInv, BaseInv, Post
  PROVE  RowMoves /\ (AccountInv => Accounted) /\ (VmidKept \/ PostPersist)
<1>1. "running" \in Power /\ 1 # 0
  BY DEF Power
<1>2. CASE row' = row
  BY <1>2, SameRowMoves, SameAccounted DEF AccountInv
<1>3. CASE PostFailBeforeAllocation /\ row' # row
  <2> DEFINE r == [row EXCEPT !.status = "error"]
  <2>1. row' = Cleared(r) /\ row.op = 1 /\ post.step \in EarlySteps
    BY <1>3 DEF PostFailBeforeAllocation, PreAllocation, PostAt, EarlySteps
  <2>2. r \in Rows /\ r.vmid = row.vmid /\ r.desired = row.desired
    BY RowTyped DEF Rows, Statuses
  <2> HIDE DEF r
  <2>3. RowMoves /\ VmidKept
    BY <2>1, <2>2, ClearedMoves, ClearedEffect DEF Doomed, VmidKept
  <2>4. vm.slot = NoVm
    BY <2>1 DEF BaseInv, RowBase, PostBase, Known
  <2> QED
    BY <2>3, <2>4 DEF Accounted
<1>4. CASE PostBeginAllocation /\ row' # row
  <2>1. row' = [row EXCEPT !.stage = "none"]
    BY <1>4 DEF PostBeginAllocation
  <2>2. /\ row'.op = row.op /\ row'.vmid = row.vmid /\ row'.kind = row.kind
        /\ row'.desired = row.desired /\ row'.status = row.status
    BY <2>1, RowTyped DEF Rows
  <2> QED
    BY <2>2 DEF RowMoves, Doomed, Accounted, AccountInv, RowAccount, BaseInv, RowBase, VmidKept
<1>5. CASE PostPersist
  <2>1. PICK ok \in BOOLEAN : Persist(1, post.vmid, ok)
    BY <1>5 DEF PostPersist
  <2>2. post.vmid # NoVm
    BY <1>5 DEF PostPersist, BaseInv, PostBase
  <2>3. /\ RowMoves
        /\ row'.op = row.op /\ row'.status = row.status /\ row'.vmid \in {row.vmid, post.vmid}
    BY <1>1, <2>1, <2>2, PersistMoves
  <2> QED
    BY <1>5, <2>3 DEF Accounted, AccountInv, RowAccount, BaseInv, RowBase, Known
<1>6. CASE PostCompleteDelete
  <2>1. PICK ok \in BOOLEAN : CompleteDelete(1, ok)
    BY <1>6 DEF PostCompleteDelete
  <2>2. RowMoves /\ VmidKept
    BY <1>1, <2>1, DeleteMoves
  <2>3. vm.slot = NoVm
    BY <1>6 DEF PostCompleteDelete, BaseInv, PostBase, GoneSteps
  <2> QED
    BY <2>2, <2>3 DEF Accounted
<1>7. CASE PostRelease
  <2>1. PICK mark \in BOOLEAN, ok \in BOOLEAN : Release(1, mark, ok)
    BY <1>7, Zenon DEF PostRelease
  <2>2. RowMoves /\ Keeps(1)
    BY <1>1, <2>1, StoredMoves
  <2>3. vm.slot = NoVm
    BY <1>7 DEF PostRelease, PostAt, BaseInv, PostBase, GoneSteps
  <2> QED
    BY <2>2, <2>3 DEF Accounted, Keeps, VmidKept
<1> QED
  BY <1>2, <1>3, <1>4, <1>5, <1>6, <1>7
     DEF Post, PostTunnel, PostCheckpoint, PostPhase1, PostVerify, PostRollback,
         PostReleaseIntent, PostCrash, KeepRow, dbVars

LEMMA FreshMoves ==
  ASSUME IInv, BaseInv, row.op = 0, row'.op = last + 1, row'.vmid = row.vmid,
         row'.status = row.status, Doomed => Doomed'
  PROVE  RowMoves /\ (AccountInv => Accounted) /\ VmidKept
<1>1. last \in Nat /\ last >= 1 /\ last + 1 > last /\ last + 1 # 1
  BY RowTyped, OpsAssumption DEF Ops
<1> QED
  BY <1>1 DEF RowMoves, Accounted, AccountInv, RowAccount, VmidKept

LEMMA OwnerMoves ==
  ASSUME IInv, BaseInv, Owner
  PROVE  RowMoves /\ (AccountInv => Accounted) /\ VmidKept
<1>1. /\ "running" \in Power /\ "stopped" \in Power /\ worker.power \in Power
      /\ row \in Rows
  BY RowTyped DEF Power, IInv, StateType, WorkerType
<1>2. Active => /\ worker.op # 0
                /\ AccountInv => (row.op = worker.op => vm.slot \in {NoVm, row.vmid})
  BY DEF IInv, WorkerLease, AccountInv, RowAccount
<1>3. ASSUME Active, RowMoves, Keeps(worker.op) PROVE RowMoves /\ (AccountInv => Accounted) /\ VmidKept
  BY <1>2, <1>3, KeptAccounted DEF AccountInv, Keeps, VmidKept
<1>4. CASE row' = row
  BY <1>4, SameRowMoves, SameAccounted DEF AccountInv
<1>5. CASE \E kind, desired, n, step : Claim(kind, desired, n, step)
  <2>1. PICK kind, desired, n, step : Claim(kind, desired, n, step)
    BY <1>5
  <2>2. /\ row.op = 0 /\ row.desired # "deleted"
        /\ row' = [row EXCEPT !.op = last + 1, !.kind = kind, !.desired = desired, !.snap = n]
    BY <2>1 DEF Claim
  <2>3. row'.op = last + 1 /\ row'.vmid = row.vmid /\ row'.status = row.status
    BY <1>1, <2>2 DEF Rows
  <2> QED
    BY <2>2, <2>3, FreshMoves DEF Doomed
<1>6. CASE RequestDelete
  <2>1. CASE row.op # 0
    <3>1. row' = [row EXCEPT !.desired = "deleted"]
      BY <1>6, <2>1 DEF RequestDelete
    <3>2. /\ row'.op = row.op /\ row'.vmid = row.vmid /\ row'.kind = row.kind
          /\ row'.desired = "deleted" /\ row'.status = row.status
      BY <1>1, <3>1 DEF Rows
    <3> QED
      BY <3>2 DEF RowMoves, Doomed, Accounted, AccountInv, RowAccount, BaseInv, RowBase, VmidKept
  <2>2. CASE row.op = 0
    <3>1. row' = [row EXCEPT !.desired = "deleted", !.op = last + 1, !.kind = "delete"]
      BY <1>6, <2>2 DEF RequestDelete
    <3>2. /\ row'.op = last + 1 /\ row'.vmid = row.vmid /\ row'.kind = "delete"
          /\ row'.desired = "deleted" /\ row'.status = row.status
      BY <1>1, <3>1 DEF Rows
    <3> QED
      BY <2>2, <3>2, FreshMoves DEF Doomed
  <2> QED
    BY <2>1, <2>2
<1>7. CASE Active /\ \E mark, ok \in BOOLEAN : Release(worker.op, mark, ok)
  <2>1. PICK mark \in BOOLEAN, ok \in BOOLEAN : Release(worker.op, mark, ok)
    BY <1>7
  <2>2. RowMoves /\ Keeps(worker.op)
    BY <1>1, <1>2, <1>7, <2>1, StoredMoves
  <2> QED
    BY <1>3, <1>7, <2>2
<1>8. CASE SettleAnswer
  <2>1. worker.kind \in Lifecycle /\ Active
        /\ (worker.kind = "restore" => worker.snap \in Snapshots)
    BY <1>8 DEF IInv, WorkerShape, SettleAnswer, WorkerAt, Active, Lifecycle, StartLike, WorkerLease,
                RowShape, PointKinds
  <2>2. PICK ok \in BOOLEAN :
          \/ CompleteOperation(worker.op, "stopped", "stopped", ok)
          \/ Continue(worker.op, ok)
          \/ CompleteSnapshot(worker.op, worker.snap, worker.power, ok)
          \/ worker.kind = "restore" /\ CompleteRestore(worker.op, worker.snap, ok)
    BY <1>8, <2>1 DEF SettleAnswer, Lifecycle, StartLike
  <2>3. CASE worker.kind = "restore" /\ CompleteRestore(worker.op, worker.snap, ok)
    <3>1. RowMoves /\ Keeps(worker.op)
      BY <1>2, <2>1, <2>3, RestoreMoves
    <3> QED
      BY <1>3, <2>1, <3>1
  <2>4. CASE \/ CompleteOperation(worker.op, "stopped", "stopped", ok)
             \/ Continue(worker.op, ok)
             \/ CompleteSnapshot(worker.op, worker.snap, worker.power, ok)
    <3>1. RowMoves /\ Keeps(worker.op)
      <4>1. CompleteOperation(worker.op, "stopped", "stopped", ok) => RowMoves /\ Keeps(worker.op)
        BY <1>1, <1>2, <2>1, StoredMoves
      <4>2. Continue(worker.op, ok) => RowMoves /\ Keeps(worker.op)
        BY <1>2, <2>1, ContinueMoves
      <4>3. CompleteSnapshot(worker.op, worker.snap, worker.power, ok) => RowMoves /\ Keeps(worker.op)
        BY <1>1, <1>2, <2>1, StoredMoves
      <4> QED
        BY <2>4, <4>1, <4>2, <4>3
    <3> QED
      BY <1>3, <2>1, <3>1
  <2> QED
    BY <2>2, <2>3, <2>4
<1>9. CASE DeleteFinish
  <2>1. PICK ok \in BOOLEAN : CompleteDelete(worker.op, ok)
    BY <1>9 DEF DeleteFinish
  <2>2. worker.step = "finish"
    BY <1>9 DEF DeleteFinish, WorkerAt
  <2>3. RowMoves /\ VmidKept
    BY <1>1, <1>2, <2>1, <2>2, DeleteMoves DEF Active
  <2>4. AccountInv => vm.slot = NoVm
    BY <2>2 DEF AccountInv, WorkerAccount
  <2> QED
    BY <2>3, <2>4 DEF Accounted
<1>10. InvalidateDesktop \/ ReleaseRefused \/ DeleteAbort =>
        row' = row \/ (Active /\ \E mark, ok \in BOOLEAN : Release(worker.op, mark, ok))
  <2>1. InvalidateDesktop => KeepRow \/ \E ok \in BOOLEAN : Release(worker.op, FALSE, ok)
    BY DEF InvalidateDesktop
  <2>2. ReleaseRefused => \E ok \in BOOLEAN : Release(worker.op, FALSE, ok)
    BY DEF ReleaseRefused
  <2>3. DeleteAbort => \E ok \in BOOLEAN : Release(worker.op, TRUE, ok)
    BY DEF DeleteAbort
  <2>4. InvalidateDesktop \/ ReleaseRefused \/ DeleteAbort => Active
    BY DEF InvalidateDesktop, ReleaseRefused, DeleteAbort, WorkerAt, Active
  <2>5. KeepRow => row' = row
    BY DEF KeepRow, dbVars
  <2> QED
    BY <2>1, <2>2, <2>3, <2>4, <2>5, Zenon
<1>11. ClaimPower \/ BeginSnapshot \/ BeginRestore => \E kind, desired, n, step : Claim(kind, desired, n, step)
  BY Zenon DEF ClaimPower, BeginSnapshot, BeginRestore
<1> QED
  BY <1>4, <1>5, <1>6, <1>7, <1>8, <1>9, <1>10, <1>11
     DEF Owner, PowerScript, SnapshotScript, RestoreScript, DeleteDestroy, WorkerCrash, KeepRow, dbVars

LEMMA PollMoves ==
  ASSUME IInv, BaseInv, Poll
  PROVE  RowMoves /\ (AccountInv => Accounted) /\ VmidKept
<1>1. "running" \in Power /\ (poll.step # "idle" => poll.op # 0)
  BY DEF Power, IInv, PollMatch
<1>2. CASE row' = row
  BY <1>2, SameRowMoves, SameAccounted DEF AccountInv
<1>3. CASE PollCompleteDelete
  <2>1. PICK ok \in BOOLEAN : CompleteDelete(poll.op, ok)
    BY <1>3 DEF PollCompleteDelete
  <2>2. poll.step # "idle" /\ vm.slot = NoVm
    BY <1>3 DEF PollCompleteDelete, PollAt, BaseInv, PollBase
  <2>3. RowMoves /\ VmidKept
    BY <1>1, <2>1, <2>2, DeleteMoves
  <2> QED
    BY <2>2, <2>3 DEF Accounted
<1>4. CASE PollConverge
  <2>1. PICK ok \in BOOLEAN : CompleteRunning(poll.op, poll.kind, ok) \/ Release(poll.op, TRUE, ok)
    BY <1>4 DEF PollConverge
  <2>2. PICK mark \in BOOLEAN : CompleteRunning(poll.op, poll.kind, ok) \/ Release(poll.op, mark, ok)
    BY <2>1, Zenon
  <2>3. poll.step # "idle"
    BY <1>4 DEF PollConverge, PollAt
  <2>4. RowMoves /\ Keeps(poll.op)
    BY <1>1, <2>2, <2>3, StoredMoves
  <2>5. AccountInv => (row.op = poll.op => vm.slot \in {NoVm, row.vmid})
    BY <2>3 DEF AccountInv, PollAccount, RowAccount, BaseInv, RowBase, Known
  <2> QED
    BY <2>4, <2>5, KeptAccounted DEF AccountInv, Keeps, VmidKept
<1> QED
  BY <1>2, <1>3, <1>4 DEF Poll, PollRead, PollCheckpoint, PollCancel, PollLog, KeepRow, dbVars

LEMMA DeletePlanned ==
  ASSUME IInv, NEW s \in Sweepers, sweep[s].step = "apply",
         NEW c \in {"delete", "compensate", "checkpoint"}, Head(sweep[s].plan) = c
  PROVE  sweep[s].plan = <<c>> /\ sweep[s].kind \notin PointKinds
<1>1. sweep[s].kind \notin PointKinds
  BY PlannedCall
<1>2. sweep[s].plan \in OtherPlans
  BY <1>1 DEF IInv, SweepsGood, PlanShape, PlansFor, PointKinds
<1>3. PICK d, e \in Calls : sweep[s].plan \in {<<d>>, <<"continue", e>>}
  BY <1>2 DEF OtherPlans, Calls
<1>4. CASE sweep[s].plan = <<d>>
  BY <1>1, <1>4
<1>5. CASE sweep[s].plan = <<"continue", e>>
  BY <1>5
<1> QED
  BY <1>3, <1>4, <1>5

LEMMA SweepMoves ==
  ASSUME IInv, BaseInv, NEW s \in Sweepers, Sweep(s)
  PROVE  RowMoves /\ (AccountInv => Accounted) /\ (VmidKept \/ SweepIntent(s))
<1>1. /\ "running" \in Power /\ "stopped" \in Power /\ sweep[s].power \in Power
      /\ sweep[s].step # "idle" => sweep[s].op # 0
  BY SweepTyped DEF Power, SweepRows, IInv, SweepsGood, SweepMatch
<1>2. CASE row' = row
  BY <1>2, SameRowMoves, SameAccounted DEF AccountInv
<1>3. CASE SweepIntent(s) /\ row' # row
  <2>1. PICK ok \in BOOLEAN : intent # NoVm /\ Persist(sweep[s].op, intent, ok)
    BY <1>3 DEF SweepIntent, KeepRow, dbVars
  <2>2. intent = post.vmid /\ sweep[s].step # "idle"
    BY <1>3, <2>1 DEF BaseInv, RowBase, Known, SweepIntent, Claimed
  <2>3. /\ RowMoves
        /\ row'.op = row.op /\ row'.status = row.status /\ row'.vmid \in {row.vmid, post.vmid}
    BY <1>1, <2>1, <2>2, PersistMoves
  <2> QED
    BY <1>3, <2>3 DEF Accounted, AccountInv, RowAccount, BaseInv, RowBase, Known
<1>4. CASE SweepApply(s)
  <2> DEFINE call == Head(sweep[s].plan)
             o == sweep[s].op
  <2>1. PICK ok \in BOOLEAN : Applies(s, call, ok)
    BY <1>4 DEF SweepApply
  <2>2. sweep[s].step = "apply" /\ o # 0
    BY <1>1, <1>4 DEF SweepApply
  <2>3. AccountInv => (row.op = o => vm.slot \in {NoVm, row.vmid})
    BY <2>2 DEF AccountInv, SweepAccount
  <2>4. /\ call = "restore" => sweep[s].snap \in Snapshots
        /\ call = "delete" => sweep[s].plan = <<"delete">>
    <3>1. call = "restore" => sweep[s].kind = "restore"
      BY <2>2, PlannedCall
    <3> QED
      BY <2>2, <3>1, DeletePlanned DEF IInv, SweepsGood, SweepMatch, PointKinds
  <2>5. CASE CompleteDelete(o, ok) /\ call = "delete"
    <3>1. RowMoves /\ VmidKept
      BY <1>1, <2>2, <2>5, DeleteMoves
    <3>2. CASE row' = row
      BY <1>2, <3>2
    <3>3. CASE row' # row
      <4>1. row.op = o
        BY <2>5, <3>3 DEF CompleteDelete, DeletableBy, KeepRow, dbVars
      <4>2. AccountInv => vm.slot = NoVm
        BY <2>2, <2>4, <2>5, <4>1 DEF AccountInv, SweepAccount
      <4> QED
        BY <3>1, <4>2 DEF Accounted
    <3> QED
      BY <3>2, <3>3
  <2>6. CASE \E mark \in BOOLEAN : Release(o, mark, ok)
    <3>1. RowMoves /\ Keeps(o)
      BY <1>1, <2>2, <2>6, StoredMoves
    <3> QED
      BY <2>3, <3>1, KeptAccounted DEF AccountInv, Keeps, VmidKept
  <2>7. CASE \E e \in Power : CompleteOperation(o, e, sweep[s].power, ok)
    <3>1. RowMoves /\ Keeps(o)
      BY <1>1, <2>2, <2>7, StoredMoves
    <3> QED
      BY <2>3, <3>1, KeptAccounted DEF AccountInv, Keeps, VmidKept
  <2>8. CASE \/ CompleteRunning(o, sweep[s].kind, ok) \/ Continue(o, ok)
             \/ CompleteSnapshot(o, sweep[s].snap, sweep[s].power, ok)
             \/ FailSnapshot(o, sweep[s].snap, sweep[s].power, ok)
             \/ FailRestore(o, sweep[s].snap, sweep[s].power, ok)
    <3>1. RowMoves /\ Keeps(o)
      <4>1. CompleteRunning(o, sweep[s].kind, ok) => RowMoves /\ Keeps(o)
        BY <1>1, <2>2, StoredMoves
      <4>5. Continue(o, ok) => RowMoves /\ Keeps(o)
        BY <2>2, ContinueMoves
      <4>2. CompleteSnapshot(o, sweep[s].snap, sweep[s].power, ok) => RowMoves /\ Keeps(o)
        BY <1>1, <2>2, StoredMoves
      <4>3. FailSnapshot(o, sweep[s].snap, sweep[s].power, ok) => RowMoves /\ Keeps(o)
        BY <1>1, <2>2, StoredMoves
      <4>4. FailRestore(o, sweep[s].snap, sweep[s].power, ok) => RowMoves /\ Keeps(o)
        BY <1>1, <2>2, StoredMoves
      <4> QED
        BY <2>8, <4>1, <4>2, <4>3, <4>4, <4>5
    <3> QED
      BY <2>3, <3>1, KeptAccounted DEF AccountInv, Keeps, VmidKept
  <2>9. CASE call = "restore" /\ CompleteRestore(o, sweep[s].snap, ok)
    <3>1. RowMoves /\ Keeps(o)
      BY <2>2, <2>4, <2>9, RestoreMoves
    <3> QED
      BY <2>3, <3>1, KeptAccounted DEF AccountInv, Keeps, VmidKept
  <2>10. CASE Release(o, FALSE, ok) \/ Release(o, TRUE, ok)
    BY <2>6, <2>10, Zenon
  <2>11. CASE CompleteOperation(o, IF sweep[s].kind = "stop" THEN "stopped" ELSE "running",
                                sweep[s].power, ok)
    BY <1>1, <2>7, <2>11
  <2> QED
    BY <2>1, <2>5, <2>8, <2>9, <2>10, <2>11 DEF Applies
<1> QED
  BY <1>2, <1>3, <1>4
     DEF Sweep, SweepRead, SweepClaim, SweepTeardown, SweepLetGo, SweepObserve, SweepProbe,
         SweepCompensate, SweepRecheck, SweepFails, KeepRow, dbVars

LEMMA NextMoves ==
  ASSUME IInv, BaseInv, [Next]_vars
  PROVE  /\ RowMoves /\ (AccountInv => Accounted)
         /\ VmidKept \/ PostPersist \/ \E s \in Sweepers : SweepIntent(s)
<1>1. CASE row' = row
  BY <1>1, SameRowMoves, SameAccounted DEF AccountInv
<1> QED
  BY <1>1, PostMoves, OwnerMoves, PollMoves, SweepMoves
     DEF Next, vars, dbVars, InstallerFinishes, HelperFinishes, ForeignAppears, GoesStale

-----------------------------------------------------------------------------
(* What a step leaves alone.                                               *)

LEMMA OneMoves ==
  ASSUME IInv, [Next]_vars
  PROVE  /\ post' = post \/ Post
         /\ worker' = worker \/ Owner
         /\ poll' = poll \/ Poll
         /\ \A t \in Sweepers : sweep'[t] = sweep[t] \/ Sweep(t)
<1>1. CASE UNCHANGED <<post, worker, poll, sweep>>
  BY <1>1
<1>2. CASE Post
  <2>1. UNCHANGED <<worker, poll, sweep>>
    BY <1>2 DEF Post, PostTunnel, PostFailBeforeAllocation, PostBeginAllocation, PostCheckpoint,
      PostPhase1, PostPersist, PostVerify, PostRollback, PostCompleteDelete, PostRelease,
      PostReleaseIntent, PostCrash, PostQuiet, PostAlone
  <2> QED
    BY <1>2, <2>1
<1>3. CASE Owner
  <2>1. UNCHANGED <<post, poll, sweep>>
    BY <1>3 DEF Owner, ClaimPower, BeginSnapshot, BeginRestore, Claim, InvalidateDesktop, PowerScript,
      SnapshotScript, RestoreScript, SettleAnswer, ReleaseRefused, RequestDelete, DeleteDestroy,
      DeleteFinish, DeleteAbort, WorkerCrash, WorkerQuiet
  <2> QED
    BY <1>3, <2>1
<1>4. CASE Poll
  <2>1. UNCHANGED <<post, worker, sweep>>
    BY <1>4 DEF Poll, PollRead, PollCheckpoint, PollCancel, PollCompleteDelete, PollLog,
      PollConverge, PollQuiet, PollAlone
  <2> QED
    BY <1>4, <2>1
<1>5. ASSUME NEW s \in Sweepers, Sweep(s)
      PROVE  UNCHANGED <<post, worker, poll>> /\ \A t \in Sweepers : t # s => sweep'[t] = sweep[t]
  <2>1. UNCHANGED <<post, worker, poll>>
    BY <1>5 DEF Sweep, SweepRead, SweepClaim, SweepIntent, SweepTeardown, SweepLetGo, SweepObserve,
      SweepProbe, SweepCompensate, SweepRecheck, SweepApply, SweepFails, SweepQuiet, SweepAlone
  <2>2. \E r : SweepTo(s, r)
    BY <1>5 DEF Sweep, SweepRead, SweepClaim, SweepIntent, SweepTeardown, SweepLetGo, SweepObserve,
      SweepProbe, SweepCompensate, SweepRecheck, SweepApply, SweepFails, SweepPlans, SweepEnds
  <2> QED
    BY <2>1, <2>2, SweepTyped DEF SweepTo
<1>6. CASE \E s \in Sweepers : Sweep(s)
  BY <1>5, <1>6
<1> QED
  BY <1>1, <1>2, <1>3, <1>4, <1>6
     DEF Next, vars, InstallerFinishes, HelperFinishes, ForeignAppears, GoesStale

LEMMA PostEnded ==
  ASSUME post.step = "done"
  PROVE  ~Post
BY DEF Post, PostTunnel, PostFailBeforeAllocation, PostBeginAllocation, PostCheckpoint,
   PostPhase1, PostPersist, PostVerify, PostRollback, PostCompleteDelete, PostRelease,
   PostReleaseIntent, PostCrash, PostAt

LEMMA PostDone ==
  ASSUME IInv, [Next]_vars, post.step = "done"
  PROVE  post' = post
BY PostEnded, OneMoves

(* No VM appears and no intent is written, except when POST allocates.     *)
HostMoves ==
  post'.vmid = post.vmid /\ vm'.slot \in {vm.slot, NoVm} /\ intent' \in {intent, NoVm}

LEMMA DestroyMoves ==
  ASSUME IInv, NEW v, Destroy(v)
  PROVE  /\ vm' = (IF Ours(v) THEN Gone ELSE vm)
         /\ vm'.slot \in {vm.slot, NoVm}
         /\ Ours(v) => vm'.slot = NoVm
BY DEF Destroy, Gone

LEMMA NextHostMoves ==
  ASSUME IInv, [Next]_vars, ~PostPhase1
  PROVE  HostMoves
<1>1. /\ post \in [step : PostSteps, vmid : Vmids]
      /\ vm \in [slot : Vmids, power : Power, config : Ops]
  BY DEF IInv, StateType, PostType, VmType
<1>2. post'.vmid = post.vmid
  <2>1. CASE Post
    <3>1. PICK step : PostTo(step)
      BY <2>1 DEF Post, PostTunnel, PostFailBeforeAllocation, PostBeginAllocation, PostCheckpoint,
        PostPersist, PostVerify, PostRollback, PostCompleteDelete, PostRelease,
        PostReleaseIntent, PostCrash
    <3> QED
      BY <1>1, <3>1 DEF PostTo
  <2> QED
    BY <2>1, OneMoves
<1>3. vm'.slot \in {vm.slot, NoVm} /\ intent' \in {intent, NoVm}
  <2>1. CASE UNCHANGED <<vm, intent>>
    BY <2>1
  <2>2. CASE UNCHANGED vm /\ intent' \in {intent, NoVm}
    BY <2>2
  <2>3. CASE (\E v : Destroy(v)) /\ intent' \in {intent, NoVm}
    BY <2>3, DestroyMoves
  <2>4. CASE intent' = intent /\ \E p, c : vm' = [vm EXCEPT !.power = p, !.config = c]
    BY <1>1, <2>4
  <2>5. CASE Post
    BY <2>1, <2>2, <2>3, <2>5 DEF Post, PostTunnel, PostFailBeforeAllocation, PostBeginAllocation,
        PostCheckpoint, PostPersist, PostVerify, PostRollback, PostCompleteDelete, PostRelease,
        PostReleaseIntent, PostCrash, KeepHost, hostVars, Rollback
  <2>6. CASE Owner
    <3>1. CASE PowerScript
      <4>1. KeepHost \/ (intent' = intent /\ \E p, c : vm' = [vm EXCEPT !.power = p, !.config = c])
        BY <3>1 DEF PowerScript
      <4> QED
        BY <2>1, <2>4, <4>1 DEF KeepHost, hostVars
    <3>2. CASE RestoreScript
      <4>1. KeepHost \/ (intent' = intent /\ \E p, c : vm' = [vm EXCEPT !.power = p, !.config = c])
                     \/ (intent' = intent /\ vm' = [vm EXCEPT !.power = "stopped"])
        BY <3>2 DEF RestoreScript
      <4> QED
        BY <1>1, <2>1, <2>4, <4>1 DEF KeepHost, hostVars
    <3> QED
      BY <2>1, <2>3, <2>6, <3>1, <3>2
         DEF Owner, ClaimPower, BeginSnapshot, BeginRestore, Claim, InvalidateDesktop, SnapshotScript,
             SettleAnswer, ReleaseRefused, RequestDelete, DeleteDestroy, DeleteFinish, DeleteAbort,
             WorkerCrash, KeepHost, hostVars, DestroyWithLogs
  <2>7. CASE Poll
    BY <2>1, <2>3, <2>7 DEF Poll, PollRead, PollCheckpoint, PollCancel, PollCompleteDelete, PollLog,
      PollConverge, KeepHost, hostVars, DestroyWithLogs
  <2>8. CASE \E s \in Sweepers : Sweep(s)
    BY <2>1, <2>3, <2>8 DEF Sweep, SweepRead, SweepClaim, SweepIntent, SweepTeardown, SweepLetGo,
      SweepObserve, SweepProbe, SweepCompensate, SweepRecheck, SweepApply, SweepFails, KeepHost,
      hostVars, DestroyWithLogs, DestroyAllocation
  <2> QED
    BY <2>1, <2>5, <2>6, <2>7, <2>8
       DEF Next, vars, hostVars, InstallerFinishes, HelperFinishes, ForeignAppears, GoesStale
<1> QED
  BY <1>2, <1>3 DEF HostMoves

-----------------------------------------------------------------------------
(* BaseInv is inductive.                                                   *)

LEMMA RowBaseKept ==
  ASSUME IInv, BaseInv, [Next]_vars, HostMoves
  PROVE  RowBase'
<1>1. RowMoves
  BY NextMoves
<1>2. row'.op = 1 => row.op = 1
  <2>1. last >= 1
    BY RowTyped
  <2> QED
    BY <1>1, <2>1, RowTyped DEF RowMoves, Ops
<1>3. row'.op = 1 /\ stale' => post'.step = "done"
  <2>1. row'.op = 1 /\ stale' => row.op = 1 /\ (stale \/ post.step = "done")
    <3>1. stale' = stale \/ stale' = FALSE \/ GoesStale
      <4>1. CASE UNCHANGED clockVars
        BY <4>1 DEF clockVars
      <4>2. CASE \E s \in Sweepers : Sweep(s)
        BY <4>2 DEF Sweep, SweepRead, SweepClaim, SweepIntent, SweepTeardown, SweepLetGo, SweepObserve,
          SweepProbe, SweepCompensate, SweepRecheck, SweepApply, SweepFails, KeepClock
      <4>3. CASE Owner
        BY <4>3 DEF Owner, ClaimPower, BeginSnapshot, BeginRestore, Claim, InvalidateDesktop,
          PowerScript, SnapshotScript, RestoreScript, SettleAnswer, ReleaseRefused, RequestDelete,
          DeleteDestroy, DeleteFinish, DeleteAbort, WorkerCrash, WorkerQuiet, clockVars
      <4>4. Post \/ Poll => UNCHANGED clockVars
        BY DEF Post, PostTunnel, PostFailBeforeAllocation, PostBeginAllocation, PostCheckpoint,
          PostPhase1, PostPersist, PostVerify, PostRollback, PostCompleteDelete, PostRelease,
          PostReleaseIntent, PostCrash, PostQuiet, PostAlone, Poll, PollRead, PollCheckpoint, PollCancel,
          PollCompleteDelete, PollLog, PollConverge, PollQuiet, PollAlone
      <4> QED
        BY <4>1, <4>2, <4>3, <4>4
           DEF Next, vars, InstallerFinishes, HelperFinishes, ForeignAppears, GoesStale
    <3> QED
      BY <1>2, <3>1 DEF GoesStale
  <2> QED
    BY <2>1, PostDone DEF BaseInv, RowBase
<1> QED
  BY <1>1, <1>2, <1>3 DEF RowMoves, HostMoves, BaseInv, RowBase, Known, Persists

LEMMA PostBaseKept ==
  ASSUME IInv, BaseInv, [Next]_vars, HostMoves, ~PostPhase1
  PROVE  PostBase'
<1>1. post \in [step : PostSteps, vmid : Vmids]
  BY DEF IInv, StateType, PostType
<1>2. ASSUME NEW step, PostTo(step), step \in EarlySteps => post.step \in EarlySteps,
             step \notin {"persist", "persist_failed"},
             step \in GoneSteps => vm'.slot = NoVm
      PROVE  PostBase'
  <2>1. post'.step = step /\ post'.vmid = post.vmid
    BY <1>1, <1>2 DEF PostTo
  <2> QED
    BY <1>2, <2>1 DEF BaseInv, PostBase
<1>3. vm.slot = NoVm => vm'.slot = NoVm
  BY DEF HostMoves
<1>4. post.step \in EarlySteps => vm'.slot = NoVm
  BY <1>3 DEF BaseInv, PostBase, RowBase, Known
<1>5. CASE post' = post
  BY <1>3, <1>5 DEF BaseInv, PostBase, HostMoves
<1>6. CASE PostTunnel \/ PostFailBeforeAllocation \/ PostBeginAllocation
  <2>1. PICK step \in {"allocate", "fail_access", "done", "finish_delete", "check_launch", "finish"} : PostTo(step)
    BY <1>6 DEF PostTunnel, PostFailBeforeAllocation, PostBeginAllocation
  <2>2. post.step \in EarlySteps
    BY <1>6 DEF PostTunnel, PostFailBeforeAllocation, PostBeginAllocation, PostAt, EarlySteps
  <2> QED
    BY <1>2, <1>4, <2>1, <2>2
<1>7. CASE PostCheckpoint
  <2>1. PICK at \in {<<"check_launch", "phase1">>, <<"check_limit", "verify">>, <<"check_final", "done">>} :
          PostAt(at[1]) /\ PostTo(IF Checkpoint(1) THEN at[2] ELSE "finish")
    BY <1>7 DEF PostCheckpoint
  <2>2. PICK step : /\ PostTo(step)
                    /\ \/ step = "phase1" /\ post.step = "check_launch"
                       \/ step \in {"verify", "done", "finish"}
    BY <2>1 DEF PostAt
  <2> QED
    BY <1>2, <2>2 DEF EarlySteps, GoneSteps
<1>8. CASE PostPersist \/ PostVerify \/ PostCrash
  <2>1. PICK step \in {"check_limit", "rollback", "check_final", "rollback_limit", "done"} : PostTo(step)
    BY <1>8 DEF PostPersist, PostVerify, PostCrash
  <2> QED
    BY <1>2, <2>1 DEF EarlySteps, GoneSteps
<1>9. CASE PostRollback
  <2>1. PICK step \in {"terminal", "terminal_error", "finish_delete", "done"} :
          PostTo(step) /\ (step = "done" \/ Rollback(post.vmid) \/ (post.vmid = NoVm /\ KeepHost))
    BY <1>9 DEF PostRollback
  <2>2. Rollback(post.vmid) => vm'.slot = NoVm
    BY DestroyMoves DEF Rollback, Ours, BaseInv, RowBase, Known
  <2>3. post.vmid = NoVm => vm'.slot = NoVm
    BY <1>3 DEF BaseInv, RowBase, Known
  <2> QED
    BY <1>2, <2>1, <2>2, <2>3 DEF EarlySteps, GoneSteps
<1>10. CASE PostCompleteDelete \/ PostRelease \/ PostReleaseIntent
  <2>1. PICK step \in {"drop_intent", "terminal_error", "done"} : PostTo(step)
    BY <1>10 DEF PostCompleteDelete, PostRelease, PostReleaseIntent
  <2>2. post.step \in GoneSteps
    BY <1>10 DEF PostCompleteDelete, PostRelease, PostReleaseIntent, PostAt, GoneSteps
  <2> QED
    BY <1>2, <1>3, <2>1, <2>2 DEF EarlySteps, GoneSteps, BaseInv, PostBase
<1> QED
  BY <1>5, <1>6, <1>7, <1>8, <1>9, <1>10, OneMoves DEF Post

(* How the owner's request goes on: with a fresh operation on the row's    *)
(* VMID, under its own, or not at all.                                     *)
WorkerMoves ==
  \/ worker'.step = "idle" /\ worker'.vmid = NoVm
  \/ Active /\ worker'.vmid = worker.vmid /\ worker'.kind = worker.kind /\ worker'.step # "destroy"
  \/ ~Active /\ worker'.vmid = row.vmid /\ worker'.step \in {"prepare", "script"}
  \/ /\ RequestDelete /\ ~Active /\ worker'.vmid = row.vmid /\ worker'.kind = "delete"
     /\ worker'.step = IF row.vmid = NoVm THEN "finish" ELSE "destroy"

LEMMA ClaimedBy ==
  ASSUME ClaimPower \/ BeginSnapshot \/ BeginRestore
  PROVE  \E kind, desired, n, step : step \in {"prepare", "script"} /\ Claim(kind, desired, n, step)
<1>1. ClaimPower => \E kind, desired, n, step : step \in {"prepare", "script"} /\ Claim(kind, desired, n, step)
  BY DEF ClaimPower
<1>2. BeginSnapshot => \E kind, desired, n, step : step \in {"prepare", "script"} /\ Claim(kind, desired, n, step)
  BY DEF BeginSnapshot
<1>3. BeginRestore => \E kind, desired, n, step : step \in {"prepare", "script"} /\ Claim(kind, desired, n, step)
  BY DEF BeginRestore
<1> QED
  BY <1>1, <1>2, <1>3

LEMMA OwnerWorkerMoves ==
  ASSUME IInv, Owner
  PROVE  WorkerMoves \/ worker' = worker
<1>1. worker \in [step : WorkerSteps, op : Ops, kind : Kinds, vmid : Vmids, snap : Points, power : Power]
  BY DEF IInv, StateType, WorkerType
<1>2. CASE WorkerEnds
  BY <1>2 DEF WorkerEnds, IdleWorker, WorkerMoves
<1>3. ASSUME Active, NEW step, step # "destroy", WorkerTo(step) PROVE WorkerMoves
  BY <1>1, <1>3 DEF WorkerTo, WorkerMoves
<1>4. CASE ClaimPower \/ BeginSnapshot \/ BeginRestore
  <2>1. PICK kind, desired, n, step : step \in {"prepare", "script"} /\ Claim(kind, desired, n, step)
    BY <1>4, ClaimedBy
  <2>2. worker'.vmid = row.vmid /\ worker'.step = step /\ ~Active
    BY <2>1 DEF Claim, WorkerAt, Active
  <2> QED
    BY <2>1, <2>2 DEF WorkerMoves
<1>5. CASE RequestDelete
  <2>1. CASE row.op # 0
    BY <1>5, <2>1 DEF RequestDelete
  <2>2. CASE row.op = 0
    <3>1. /\ WorkerAt("idle")
          /\ worker' = [IdleWorker EXCEPT !.step = IF row.vmid = NoVm THEN "finish" ELSE "destroy",
                                          !.op = last + 1, !.kind = "delete", !.vmid = row.vmid]
      BY <1>5, <2>2 DEF RequestDelete
    <3>2. /\ worker'.vmid = row.vmid /\ worker'.kind = "delete"
          /\ worker'.step = IF row.vmid = NoVm THEN "finish" ELSE "destroy"
      BY <3>1 DEF IdleWorker
    <3> QED
      BY <1>5, <3>1, <3>2 DEF WorkerMoves, WorkerAt, Active
  <2> QED
    BY <2>1, <2>2
<1>6. CASE InvalidateDesktop
  BY <1>2, <1>3, <1>6 DEF InvalidateDesktop, WorkerAt, Active
<1>7. CASE PowerScript
  <2>1. Active /\ (WorkerEnds \/ \E out \in Outcomes(worker.kind, worker.op) : out.next # "idle" /\ WorkerTo(out.next))
    BY <1>7 DEF PowerScript, WorkerAt, Active
  <2>2. WorkerEnds \/ WorkerTo("settle") \/ WorkerTo("refused")
    <3>1. worker.kind \in StartLike \cup {"stop"}
      BY <1>7 DEF PowerScript
    <3>2. \A out \in Outcomes(worker.kind, worker.op) : out.next \in {"settle", "refused", "idle"}
      BY <3>1 DEF Outcomes, StartLike, Reached
    <3> QED
      BY <2>1, <3>2
  <2> QED
    BY <1>2, <1>3, <2>1, <2>2
<1>8. CASE SnapshotScript
  <2>1. CASE worker' = [worker EXCEPT !.step = "settle", !.power = vm.power]
    BY <1>1, <1>8, <2>1 DEF SnapshotScript, WorkerAt, Active, WorkerMoves
  <2> QED
    BY <1>2, <1>8, <2>1 DEF SnapshotScript
<1>9. CASE RestoreScript \/ ReleaseRefused \/ DeleteDestroy \/ DeleteFinish \/ DeleteAbort \/ WorkerCrash
  <2>1. Active /\ (WorkerEnds \/ \E step \in {"settle", "finish", "abort"} : WorkerTo(step))
    BY <1>9 DEF RestoreScript, ReleaseRefused, DeleteDestroy, DeleteFinish, DeleteAbort, WorkerCrash,
                WorkerAt, Active
  <2> QED
    BY <1>2, <1>3, <2>1
<1>10. CASE SettleAnswer
  <2>1. worker.kind \in Lifecycle /\ Active
    BY <1>10 DEF IInv, WorkerShape, SettleAnswer, WorkerAt, Active
  <2>2. WorkerEnds \/ WorkerTo("refused")
    BY <1>10, <2>1 DEF SettleAnswer, Lifecycle, StartLike
  <2> QED
    BY <1>2, <1>3, <2>1, <2>2
<1> QED
  BY <1>4, <1>5, <1>6, <1>7, <1>8, <1>9, <1>10 DEF Owner

LEMMA WorkerBaseKept ==
  ASSUME IInv, BaseInv, [Next]_vars, HostMoves
  PROVE  WorkerBase'
<1>1. worker' = worker \/ WorkerMoves
  BY OneMoves, OwnerWorkerMoves
<1> QED
  BY <1>1 DEF WorkerMoves, HostMoves, BaseInv, RowBase, WorkerBase, Known

LEMMA PollBaseKept ==
  ASSUME IInv, BaseInv, [Next]_vars, HostMoves
  PROVE  PollBase'
<1>1. Doomed => Doomed'
  BY NextMoves DEF RowMoves
<1>2. poll \in [step : PollSteps, op : Ops, kind : Kinds, vmid : Vmids, desired : Desires]
  BY DEF IInv, StateType, PollType
<1>3. CASE poll' = poll
  BY <1>1, <1>3 DEF HostMoves, BaseInv, PollBase, Known
<1>4. CASE PollEnds
  BY <1>4 DEF PollEnds, IdlePoll, PollBase, Known
<1>5. ASSUME NEW step, PollTo(step), poll.step # "idle",
             step = "cancel" => poll.kind = "provision" /\ poll.desired = "deleted",
             step = "cancel_row" => vm'.slot = NoVm
      PROVE  PollBase'
  <2>1. /\ poll'.step = step /\ poll'.vmid = poll.vmid /\ poll'.kind = poll.kind
        /\ poll'.desired = poll.desired
    BY <1>2, <1>5 DEF PollTo
  <2> QED
    BY <1>1, <1>5, <2>1 DEF HostMoves, BaseInv, PollBase, Known
<1>6. CASE PollRead
  <2>1. /\ poll'.step = "check" /\ poll'.vmid = row.vmid /\ poll'.kind = row.kind
        /\ poll'.desired = row.desired /\ row.vmid # NoVm
    BY <1>6 DEF PollRead
  <2>2. row.kind = "provision" /\ row.desired = "deleted" => Doomed'
    BY <1>1 DEF Doomed
  <2> QED
    BY <2>1, <2>2 DEF HostMoves, BaseInv, RowBase, PollBase, Known
<1>7. CASE PollCheckpoint
  BY <1>4, <1>5, <1>7 DEF PollCheckpoint, PollAt
<1>8. CASE PollCancel
  <2>1. PollEnds \/ (DestroyWithLogs(poll.vmid) /\ PollTo("cancel_row") /\ poll.step # "idle")
    BY <1>8 DEF PollCancel, PollAt
  <2>2. DestroyWithLogs(poll.vmid) /\ poll.step # "idle" => vm'.slot = NoVm
    BY DestroyMoves DEF DestroyWithLogs, Ours, BaseInv, RowBase, PollBase, Known
  <2> QED
    BY <1>4, <1>5, <2>1, <2>2
<1>9. CASE PollCompleteDelete \/ PollConverge
  BY <1>4, <1>9 DEF PollCompleteDelete, PollConverge
<1>10. CASE PollLog
  BY <1>4, <1>5, <1>10 DEF PollLog, PollAt
<1> QED
  BY <1>3, <1>6, <1>7, <1>8, <1>9, <1>10, OneMoves DEF Poll

(* How a sweep goes on: with a copy of the row, with what it has, or with  *)
(* the VMID of the intent.                                                 *)
Copied(s) ==
  /\ SweepRead(s) /\ row' = row
  /\ sweep'[s].step = "read" /\ sweep'[s].op = row.op /\ sweep'[s].kind = row.kind
  /\ sweep'[s].vmid = row.vmid /\ sweep'[s].desired = row.desired

SameCopy(s) ==
  /\ sweep[s].step # "idle"
  /\ sweep'[s].op = sweep[s].op /\ sweep'[s].kind = sweep[s].kind
  /\ sweep'[s].desired = sweep[s].desired

Plans(s, plan) == sweep'[s].step = "apply" /\ sweep'[s].plan = plan

FromIntent(s) ==
  /\ SweepIntent(s) /\ SameCopy(s) /\ sweep[s].vmid = NoVm /\ intent # NoVm
  /\ Persist(sweep[s].op, intent, TRUE)
  /\ sweep'[s].vmid = intent /\ sweep'[s].step = "claimed"

Going(s) ==
  /\ SameCopy(s) /\ sweep'[s].vmid = sweep[s].vmid
  /\ \/ SweepClaim(s) /\ sweep'[s].step = "claimed"
     \/ /\ SweepIntent(s) /\ Plans(s, <<IF Superseded(s) THEN "delete" ELSE "error">>)
        /\ \/ KeepRow /\ (intent = NoVm \/ unread')
           \/ intent # NoVm /\ Persist(sweep[s].op, intent, FALSE)
     \/ SweepTeardown(s) /\ Plans(s, <<"delete">>)
     \/ SweepLetGo(s) /\ Plans(s, <<"release">>)
     \/ SweepObserve(s) /\ Plans(s, SnapshotPlan(s))
     \/ SweepProbe(s) /\ \E plan \in ProbePlans(s) : Plans(s, plan)
     \/ SweepCompensate(s) /\ Plans(s, <<"checkpoint">>)
     \/ SweepRecheck(s) /\ Plans(s, IF Checkpoint(sweep[s].op) THEN <<"error">> ELSE <<"delete">>)
     \/ SweepApply(s) /\ \E call \in {"running", "observed"} : Plans(s, <<call>>)

LEMMA SweepToFields ==
  ASSUME IInv, NEW s \in Sweepers
  PROVE  /\ \A r : SweepTo(s, r) => sweep'[s] = r
         /\ sweep[s] \in SweepRows
BY SweepTyped DEF SweepTo

LEMMA SweepPlansFields ==
  ASSUME IInv, NEW s \in Sweepers, sweep[s].step # "idle", NEW plan, NEW power, SweepPlans(s, plan, power)
  PROVE  SameCopy(s) /\ sweep'[s].vmid = sweep[s].vmid /\ Plans(s, plan)
<1>1. sweep'[s] = [sweep[s] EXCEPT !.step = "apply", !.plan = plan, !.power = power]
  BY SweepToFields DEF SweepPlans
<1> QED
  BY <1>1, SweepToFields DEF SameCopy, Plans, SweepRows

LEMMA SweepGoes ==
  ASSUME IInv, NEW s \in Sweepers, Sweep(s)
  PROVE  sweep'[s] = IdleSweep \/ Copied(s) \/ FromIntent(s) \/ Going(s)
<1>1. sweep[s] \in SweepRows
  BY SweepToFields
<1>2. CASE SweepEnds(s)
  BY <1>2, SweepToFields DEF SweepEnds
<1>3. CASE SweepRead(s)
  <2>1. /\ row' = row
        /\ SweepTo(s, [step |-> "read", op |-> row.op, kind |-> row.kind, vmid |-> row.vmid,
                 snap |-> row.snap, status |-> row.status, desired |-> row.desired,
                 power |-> "stopped", plan |-> <<>>])
    BY <1>3 DEF SweepRead, KeepRow, dbVars
  <2> QED
    BY <1>3, <2>1, SweepToFields DEF Copied
<1>4. CASE SweepClaim(s)
  <2>1. SweepEnds(s) \/ SweepTo(s, [sweep[s] EXCEPT !.step = "claimed"])
    BY <1>4 DEF SweepClaim
  <2>2. CASE SweepTo(s, [sweep[s] EXCEPT !.step = "claimed"])
    <3>1. sweep'[s] = [sweep[s] EXCEPT !.step = "claimed"]
      BY <2>2, SweepToFields
    <3> QED
      BY <1>1, <1>4, <3>1 DEF Going, SameCopy, SweepRows, SweepClaim
  <2> QED
    BY <1>2, <2>1, <2>2
<1>5. CASE SweepIntent(s)
  <2> DEFINE call == IF Superseded(s) THEN "delete" ELSE "error"
  <2>1. sweep[s].step # "idle" /\ sweep[s].vmid = NoVm
    BY <1>5 DEF SweepIntent, Claimed
  <2>2. CASE KeepRow /\ (intent = NoVm \/ unread') /\ SweepPlans(s, <<call>>, "stopped")
    BY <1>5, <2>1, <2>2, SweepPlansFields DEF Going
  <2>3. CASE intent # NoVm /\ Persist(sweep[s].op, intent, FALSE) /\ SweepPlans(s, <<call>>, "stopped")
    BY <1>5, <2>1, <2>3, SweepPlansFields DEF Going
  <2>4. CASE intent # NoVm /\ Persist(sweep[s].op, intent, TRUE) /\ SweepTo(s, [sweep[s] EXCEPT !.vmid = intent])
    <3>1. sweep'[s] = [sweep[s] EXCEPT !.vmid = intent]
      BY <2>4, SweepToFields
    <3>2. SameCopy(s) /\ sweep'[s].vmid = intent /\ sweep'[s].step = "claimed"
      BY <1>1, <1>5, <2>1, <3>1 DEF SameCopy, SweepRows, SweepIntent, Claimed
    <3> QED
      BY <1>5, <2>1, <2>4, <3>2 DEF FromIntent
  <2>5. \/ /\ intent # NoVm
           /\ \E ok \in BOOLEAN :
                /\ Persist(sweep[s].op, intent, ok)
                /\ IF ok THEN SweepTo(s, [sweep[s] EXCEPT !.vmid = intent])
                         ELSE SweepPlans(s, <<call>>, "stopped")
        \/ KeepRow /\ (intent = NoVm \/ unread') /\ SweepPlans(s, <<call>>, "stopped")
    <3>1. intent # NoVm /\ unread' = (unread \/ intent # NoVm) => unread'
      BY Zenon
    <3> QED
      BY <1>5, <3>1 DEF SweepIntent
  <2> HIDE DEF call
  <2>6. \/ intent # NoVm /\ Persist(sweep[s].op, intent, TRUE) /\ SweepTo(s, [sweep[s] EXCEPT !.vmid = intent])
        \/ intent # NoVm /\ Persist(sweep[s].op, intent, FALSE) /\ SweepPlans(s, <<call>>, "stopped")
        \/ KeepRow /\ (intent = NoVm \/ unread') /\ SweepPlans(s, <<call>>, "stopped")
    BY <2>5, Zenon
  <2> QED
    BY <2>2, <2>3, <2>4, <2>6
<1>6. CASE SweepTeardown(s)
  <2>1. sweep[s].step # "idle" /\ (SweepEnds(s) \/ SweepPlans(s, <<"delete">>, "stopped"))
    BY <1>6 DEF SweepTeardown, Claimed
  <2> QED
    BY <1>2, <1>6, <2>1, SweepPlansFields DEF Going
<1>7. CASE SweepLetGo(s)
  <2>1. sweep[s].step # "idle" /\ SweepPlans(s, <<"release">>, "stopped")
    BY <1>7 DEF SweepLetGo, Claimed
  <2> QED
    BY <1>7, <2>1, SweepPlansFields DEF Going
<1>8. CASE SweepObserve(s)
  <2>1. sweep[s].step # "idle" /\ SweepPlans(s, SnapshotPlan(s), vm.power)
    BY <1>8 DEF SweepObserve, Claimed
  <2> QED
    BY <1>8, <2>1, SweepPlansFields DEF Going
<1>9. CASE SweepProbe(s)
  <2>1. PICK plan \in ProbePlans(s) : SweepEnds(s) \/ SweepPlans(s, plan, vm.power)
    BY <1>9 DEF SweepProbe
  <2>2. sweep[s].step # "idle"
    BY <1>9 DEF SweepProbe, Claimed
  <2> QED
    BY <1>2, <1>9, <2>1, <2>2, SweepPlansFields DEF Going
<1>10. CASE SweepCompensate(s)
  <2>1. sweep[s].step # "idle" /\ (SweepEnds(s) \/ SweepPlans(s, <<"checkpoint">>, "stopped"))
    BY <1>10 DEF SweepCompensate, Planned
  <2> QED
    BY <1>2, <1>10, <2>1, SweepPlansFields DEF Going
<1>11. CASE SweepRecheck(s)
  <2>1. /\ sweep[s].step # "idle"
        /\ SweepPlans(s, IF Checkpoint(sweep[s].op) THEN <<"error">> ELSE <<"delete">>, "stopped")
    BY <1>11 DEF SweepRecheck, Planned
  <2> QED
    BY <1>11, <2>1, SweepPlansFields DEF Going
<1>12. CASE SweepApply(s)
  <2>1. CASE Tail(sweep[s].plan) # <<>> /\ SweepTo(s, [sweep[s] EXCEPT !.plan = Tail(sweep[s].plan)])
    <3>1. PICK call \in {"running", "observed"} : Tail(sweep[s].plan) = <<call>>
      BY <1>12, <2>1, PlannedCall DEF SweepApply
    <3>2. sweep'[s] = [sweep[s] EXCEPT !.plan = <<call>>]
      BY <2>1, <3>1, SweepToFields
    <3>3. SameCopy(s) /\ sweep'[s].vmid = sweep[s].vmid /\ Plans(s, <<call>>)
      BY <1>1, <1>12, <3>2 DEF SameCopy, Plans, SweepRows, SweepApply
    <3> QED
      BY <1>12, <3>3 DEF Going
  <2> QED
    BY <1>2, <1>12, <2>1 DEF SweepApply
<1> QED
  BY <1>2, <1>3, <1>4, <1>5, <1>6, <1>7, <1>8, <1>9, <1>10, <1>11, <1>12 DEF Sweep, SweepFails

(* Only a probe of a failed launch plans to compensate it.                 *)
LEMMA CompensationPlanned ==
  ASSUME IInv, NEW s \in Sweepers, Going(s), Compensating(s)'
  PROVE  /\ SweepProbe(s) /\ <<"compensate">> \in ProbePlans(s)
         /\ sweep[s].kind = "provision" /\ sweep[s].vmid # NoVm
         /\ installed = "failed"
<1>1. sweep'[s].step = "apply" /\ sweep'[s].plan = <<"compensate">>
  BY DEF Compensating
<1>2. PICK plan : Plans(s, plan) /\ plan = <<"compensate">>
  BY <1>1 DEF Plans
<1>3. SnapshotPlan(s) # <<"compensate">>
  BY DEF SnapshotPlan
<1>4. SweepProbe(s) /\ <<"compensate">> \in ProbePlans(s)
  BY <1>1, <1>3 DEF Going, Plans
<1>5. sweep[s].kind \in StartLike \cup {"stop", "provision"} /\ sweep[s].vmid # NoVm
  BY <1>4 DEF SweepProbe
<1>6. SettlePlan(s) # <<"compensate">> /\ RunningPlan(s) # <<"compensate">>
  BY DEF SettlePlan, RunningPlan
<1>7. sweep[s].kind \notin StartLike \cup {"stop"} /\ MarkerFor(sweep[s].kind) = "failed"
  BY <1>4, <1>6 DEF ProbePlans
<1> QED
  BY <1>4, <1>5, <1>7 DEF MarkerFor

LEMMA SweepBaseKept ==
  ASSUME IInv, BaseInv, [Next]_vars, HostMoves, NEW s \in Sweepers
  PROVE  SweepBase(s)'
<1>1. Doomed => Doomed'
  BY NextMoves DEF RowMoves
<1>2. post.step = "done" => post'.step = "done"
  BY PostDone
<1>3. SweepBase(s)
  BY DEF BaseInv
<1>4. post'.vmid = post.vmid /\ intent \in Known
  BY DEF HostMoves, BaseInv, RowBase
<1>5. CASE sweep'[s] = sweep[s]
  BY <1>1, <1>2, <1>3, <1>4, <1>5 DEF SweepBase, Superseded, Compensating, Known
<1>6. CASE sweep'[s] = IdleSweep
  BY <1>4, <1>6 DEF SweepBase, IdleSweep, Superseded, Compensating, Known
<1>7. CASE Copied(s)
  <2>1. row.op = 1 => post.step = "done"
    BY <1>7 DEF Copied, SweepRead, BaseInv, RowBase
  <2>2. row.desired = "deleted" /\ row.kind \in {"delete", "provision"} => Doomed'
    BY <1>1 DEF Doomed
  <2> QED
    BY <1>2, <1>4, <1>7, <2>1, <2>2 DEF SweepBase, Copied, Superseded, Compensating, Known, BaseInv, RowBase
<1>8. CASE FromIntent(s)
  BY <1>1, <1>2, <1>3, <1>4, <1>8 DEF SweepBase, FromIntent, SameCopy, Superseded, Compensating, Known
<1>9. CASE Going(s)
  <2>1. SameCopy(s) /\ sweep'[s].vmid = sweep[s].vmid
    BY <1>9 DEF Going
  <2>2. Compensating(s)' => sweep[s].kind = "provision" /\ sweep[s].vmid # NoVm
    BY <1>9, CompensationPlanned
  <2> QED
    BY <1>1, <1>2, <1>3, <1>4, <2>1, <2>2 DEF SweepBase, SameCopy, Superseded, Known
<1> QED
  BY <1>5, <1>6, <1>7, <1>8, <1>9, OneMoves, SweepGoes

LEMMA EarlyBase ==
  ASSUME IInv, BaseInv, PostPhase1
  PROVE  BaseInv'
<1>1. /\ post.step \in EarlySteps /\ post.vmid = NoVm /\ vm.slot = NoVm /\ intent = NoVm
      /\ row.vmid = NoVm /\ row.op = 1 /\ ~stale /\ worker.vmid = NoVm
      /\ worker.step = "idle" /\ poll.step = "idle" /\ poll.vmid = NoVm
      /\ \A s \in Sweepers : sweep[s].step = "idle" /\ sweep[s].vmid = NoVm
  <2>1. post.step \in EarlySteps
    BY DEF PostPhase1, PostAt, EarlySteps
  <2> QED
    BY <2>1 DEF IInv, EarlyAlone, IdsInOrder, Active, BaseInv, RowBase, PostBase, WorkerBase, PollBase,
       SweepBase, Known
<1>2. row' = row /\ stale' = stale /\ worker' = worker /\ poll' = poll /\ sweep' = sweep
  BY DEF PostPhase1, KeepRow, dbVars, PostQuiet, PostAlone, clockVars
<1>3. /\ post'.step \in {"persist", "persist_failed", "done"}
      /\ post'.step \in {"persist", "persist_failed"} => post'.vmid # NoVm
      /\ vm'.slot \in {NoVm, post'.vmid} /\ intent' \in {NoVm, post'.vmid}
  <2>1. post \in [step : PostSteps, vmid : Vmids]
    BY DEF IInv, StateType, PostType
  <2>2. CASE PostTo("done") /\ UNCHANGED <<intent, vm>>
    BY <1>1, <2>1, <2>2 DEF PostTo
  <2>3. CASE \E v \in Slots \ foreign :
          /\ intent' = v
          /\ \/ /\ vm' = [slot |-> v, power |-> "running", config |-> 0]
                /\ \E next \in {"persist", "persist_failed", "done"} :
                     post' = [step |-> next, vmid |-> v]
             \/ /\ UNCHANGED vm
                /\ \E next \in {"persist_failed", "done"} :
                     post' = [step |-> next, vmid |-> v]
    BY <1>1, <2>3, OpsAssumption
  <2> QED
    BY <2>2, <2>3 DEF PostPhase1
<1>4. RowBase'
  BY <1>1, <1>2, <1>3 DEF BaseInv, RowBase, Known
<1>5. PostBase'
  BY <1>3 DEF PostBase, EarlySteps, GoneSteps
<1>6. WorkerBase' /\ PollBase'
  BY <1>1, <1>2 DEF WorkerBase, PollBase, Known
<1>7. \A s \in Sweepers : SweepBase(s)'
  BY <1>1, <1>2 DEF SweepBase, Compensating, Known
<1> QED
  BY <1>4, <1>5, <1>6, <1>7 DEF BaseInv

LEMMA BaseKept ==
  ASSUME IInv, BaseInv, [Next]_vars
  PROVE  BaseInv'
<1>1. CASE PostPhase1
  BY <1>1, EarlyBase
<1>2. CASE ~PostPhase1
  <2>1. HostMoves
    BY <1>2, NextHostMoves
  <2>2. RowBase' /\ PostBase' /\ WorkerBase' /\ PollBase'
    BY <1>2, <2>1, RowBaseKept, PostBaseKept, WorkerBaseKept, PollBaseKept
  <2>3. \A s \in Sweepers : SweepBase(s)'
    BY <2>1, SweepBaseKept
  <2> QED
    BY <2>2, <2>3 DEF BaseInv
<1> QED
  BY <1>1, <1>2

LEMMA BaseInit ==
  ASSUME Init
  PROVE  BaseInv
BY DEF Init, BaseInv, RowBase, PostBase, WorkerBase, PollBase, SweepBase, Known, Gone, IdleWorker,
   IdlePoll, IdleSweep, EarlySteps, GoneSteps, Compensating, Doomed, Superseded

(* Each process's picture of the host stays true, however they interleave:  *)
(* a launch goes stale only after its request, a VMID that the row, POST, a *)
(* request, a poll or a sweep carries was chosen by the allocator, and who  *)
(* has verified the VM absent finds it absent until it has said so.         *)
(* (route.ts, the action and delete routes, recover-stuck-provisioning.ts)  *)
THEOREM HostInvariance == Spec => [](IInv /\ BaseInv)
<1>1. Init => IInv /\ BaseInv
  BY InitGood, BaseInit
<1>2. IInv /\ BaseInv /\ [Next]_vars => (IInv /\ BaseInv)'
  <2>1. IInv /\ [Next]_vars => IInv'
    BY NextGood, StutterGood
  <2> QED
    BY <2>1, BaseKept
<1> QED
  BY <1>1, <1>2, PTL DEF Spec

-----------------------------------------------------------------------------
(* AccountInv is inductive while every allocation intent is read.          *)

LEMMA IntentKept ==
  ASSUME IInv, BaseInv, [Next]_vars
  PROVE  intent' = intent \/ PostVerify \/ PostReleaseIntent \/ PostPhase1 \/ vm'.slot = NoVm
<1>1. CASE UNCHANGED hostVars
  BY <1>1 DEF hostVars
<1>2. CASE Post
  BY <1>1, <1>2 DEF Post, PostTunnel, PostFailBeforeAllocation, PostBeginAllocation,
        PostCheckpoint, PostPersist, PostRollback, PostCompleteDelete, PostRelease,
        PostCrash, KeepHost, Rollback
<1>3. CASE Owner
  BY <1>3 DEF Owner, ClaimPower, BeginSnapshot, BeginRestore, Claim, InvalidateDesktop, PowerScript,
    SnapshotScript, RestoreScript, SettleAnswer, ReleaseRefused, RequestDelete, DeleteDestroy,
    DeleteFinish, DeleteAbort, WorkerCrash, KeepHost, hostVars, DestroyWithLogs
<1>4. CASE Poll
  BY <1>4 DEF Poll, PollRead, PollCheckpoint, PollCancel, PollCompleteDelete, PollLog,
    PollConverge, KeepHost, hostVars, DestroyWithLogs
<1>5. ASSUME NEW s \in Sweepers, Sweep(s) PROVE intent' = intent \/ vm'.slot = NoVm
  <2>1. ASSUME sweep[s].vmid # NoVm, DestroyAllocation(sweep[s].vmid) PROVE vm'.slot = NoVm
    BY <2>1, DestroyMoves DEF DestroyAllocation, Ours, BaseInv, RowBase, SweepBase, Known
  <2>2. CASE SweepCompensate(s)
    BY <2>1, <2>2, DeletePlanned DEF SweepCompensate, Planned, BaseInv, SweepBase, Compensating
  <2>3. CASE SweepTeardown(s)
    BY <2>1, <2>3 DEF SweepTeardown, KeepHost, hostVars, DestroyWithLogs
  <2> QED
    BY <1>5, <2>2, <2>3 DEF Sweep, SweepRead, SweepClaim, SweepIntent, SweepLetGo, SweepObserve,
      SweepProbe, SweepRecheck, SweepApply, SweepFails, KeepHost, hostVars
<1> QED
  BY <1>1, <1>2, <1>3, <1>4, <1>5
     DEF Next, vars, InstallerFinishes, HelperFinishes, ForeignAppears, GoesStale

LEMMA RowAccountKept ==
  ASSUME IInv, BaseInv, AccountInv, [Next]_vars, HostMoves, ~PostPhase1
  PROVE  RowAccount'
<1>1. SUFFICES ASSUME vm'.slot # NoVm
               PROVE  /\ row'.status # "deleted"
                      /\ row'.vmid = vm'.slot \/ (row'.op = 1 /\ intent' = vm'.slot)
  BY DEF RowAccount
<1>2. vm'.slot = vm.slot /\ vm.slot # NoVm
  BY <1>1 DEF HostMoves
<1>3. /\ row'.status # "deleted"
      /\ row'.vmid = vm.slot \/ (row'.vmid = row.vmid /\ row'.op = row.op)
  BY <1>2, NextMoves DEF Accounted
<1>4. intent' = intent \/ row.vmid = vm.slot
  BY <1>2, IntentKept DEF PostVerify, PostReleaseIntent, PostAt, AccountInv, PostAccount, BaseInv,
     PostBase, GoneSteps
<1> QED
  BY <1>2, <1>3, <1>4 DEF AccountInv, RowAccount

LEMMA PostAccountKept ==
  ASSUME IInv, BaseInv, AccountInv, [Next]_vars, HostMoves, ~PostPhase1
  PROVE  PostAccount'
<1>1. post \in [step : PostSteps, vmid : Vmids]
  BY DEF IInv, StateType, PostType
<1>2. ASSUME vm.slot = NoVm \/ row.vmid = vm.slot PROVE vm'.slot = NoVm \/ row'.vmid = vm'.slot
  BY <1>2, NextMoves DEF Accounted, HostMoves
<1>3. CASE post' = post
  BY <1>2, <1>3 DEF AccountInv, PostAccount
<1>4. ASSUME NEW step, PostTo(step), step \notin {"check_limit", "verify"} PROVE PostAccount'
  BY <1>1, <1>4 DEF PostTo, PostAccount
<1>5. CASE PostPersist
  <2>1. PICK ok \in BOOLEAN, heard \in BOOLEAN :
          /\ Persist(1, post.vmid, ok)
          /\ PostTo(IF PostAt("persist") /\ ok /\ heard THEN "check_limit" ELSE "rollback")
    BY <1>5 DEF PostPersist
  <2>2. CASE PostTo("check_limit") /\ Persist(1, post.vmid, TRUE)
    <3>1. row'.vmid = post.vmid
      BY <2>2, RowTyped DEF Persist, Rows
    <3> QED
      BY <3>1 DEF PostAccount, HostMoves, BaseInv, RowBase, Known
  <2>3. PostTo("rollback") \/ (PostTo("check_limit") /\ Persist(1, post.vmid, TRUE))
    BY <2>1
  <2> QED
    BY <1>4, <2>2, <2>3
<1>6. CASE PostCheckpoint
  <2>1. PICK at \in {<<"check_launch", "phase1">>, <<"check_limit", "verify">>, <<"check_final", "done">>} :
          PostAt(at[1]) /\ PostTo(IF Checkpoint(1) THEN at[2] ELSE "finish")
    BY <1>6 DEF PostCheckpoint
  <2>2. PICK step : PostTo(step) /\ (post.step = "check_limit" \/ step \in {"phase1", "done", "finish"})
    BY <2>1 DEF PostAt
  <2>3. CASE post.step = "check_limit"
    BY <1>2, <2>3 DEF AccountInv, PostAccount
  <2> QED
    BY <1>4, <2>2, <2>3
<1>7. CASE PostTunnel \/ PostFailBeforeAllocation \/ PostBeginAllocation \/ PostVerify \/ PostRollback
           \/ PostCompleteDelete \/ PostRelease \/ PostReleaseIntent \/ PostCrash
  <2>1. PICK step : PostTo(step) /\ step \notin {"check_limit", "verify"}
    <3>1. PostTunnel \/ PostFailBeforeAllocation \/ PostBeginAllocation \/ PostVerify =>
            \E step \in {"allocate", "fail_access", "done", "finish_delete", "check_launch", "finish",
                        "check_final", "rollback_limit"} : PostTo(step)
      BY DEF PostTunnel, PostFailBeforeAllocation, PostBeginAllocation, PostVerify
    <3>2. PostRollback => \E step \in {"terminal", "terminal_error", "finish_delete", "done"} : PostTo(step)
      BY DEF PostRollback
    <3>3. PostCompleteDelete \/ PostRelease \/ PostReleaseIntent \/ PostCrash =>
            \E step \in {"drop_intent", "terminal_error", "done"} : PostTo(step)
      BY DEF PostCompleteDelete, PostRelease, PostReleaseIntent, PostCrash
    <3> QED
      BY <1>7, <3>1, <3>2, <3>3
  <2> QED
    BY <1>4, <2>1
<1> QED
  BY <1>3, <1>5, <1>6, <1>7, OneMoves DEF Post

(* DELETE finishes once the VM is gone, or the row never named one.        *)
LEMMA FinishReached ==
  ASSUME IInv, Owner, worker'.step = "finish", worker' # worker
  PROVE  \/ worker.step = "destroy" /\ Destroy(worker.vmid)
         \/ RequestDelete /\ row.op = 0 /\ row.vmid = NoVm
<1>1. worker \in [step : WorkerSteps, op : Ops, kind : Kinds, vmid : Vmids, snap : Points, power : Power]
  BY DEF IInv, StateType, WorkerType
<1>2. \A step : WorkerTo(step) => worker'.step = step
  BY <1>1 DEF WorkerTo
<1>3. ~WorkerEnds
  BY DEF WorkerEnds, IdleWorker
<1>4. CASE RequestDelete
  <2>1. /\ row.op = 0
        /\ worker' = [IdleWorker EXCEPT !.step = IF row.vmid = NoVm THEN "finish" ELSE "destroy",
                                        !.op = last + 1, !.kind = "delete", !.vmid = row.vmid]
    BY <1>4 DEF RequestDelete
  <2>2. worker'.step = IF row.vmid = NoVm THEN "finish" ELSE "destroy"
    BY <2>1 DEF IdleWorker
  <2> QED
    BY <1>4, <2>1, <2>2
<1>5. CASE DeleteDestroy
  BY <1>2, <1>5 DEF DeleteDestroy, DestroyWithLogs, WorkerAt
<1>6. ~ClaimPower /\ ~BeginSnapshot /\ ~BeginRestore
  <2>1. SUFFICES ASSUME NEW kind, NEW desired, NEW n, NEW step \in {"prepare", "script"},
                        Claim(kind, desired, n, step)
                 PROVE  FALSE
    BY ClaimedBy
  <2>2. worker'.step = step
    BY <2>1 DEF Claim
  <2> QED
    BY <2>1, <2>2
<1>7. ~InvalidateDesktop /\ ~RestoreScript /\ ~ReleaseRefused /\ ~DeleteFinish /\ ~DeleteAbort /\ ~WorkerCrash
  BY <1>2, <1>3 DEF InvalidateDesktop, RestoreScript, ReleaseRefused, DeleteFinish, DeleteAbort, WorkerCrash
<1>8. ~PowerScript
  <2>1. SUFFICES ASSUME PowerScript PROVE FALSE
    OBVIOUS
  <2>2. PICK out \in Outcomes(worker.kind, worker.op) : WorkerTo(out.next)
    BY <1>3, <2>1 DEF PowerScript
  <2>3. worker.kind \in StartLike \cup {"stop"}
    BY <2>1 DEF PowerScript
  <2>4. \A x \in Outcomes(worker.kind, worker.op) : x.next \in {"settle", "refused", "idle"}
    BY <2>3 DEF Outcomes, StartLike, Reached
  <2> QED
    BY <1>2, <2>2, <2>4
<1>9. ~SnapshotScript
  BY <1>1, <1>3 DEF SnapshotScript
<1>10. ~SettleAnswer
  <2>1. SettleAnswer => worker.kind \in Lifecycle
    BY DEF IInv, WorkerShape, SettleAnswer, WorkerAt
  <2>2. SettleAnswer => WorkerEnds \/ WorkerTo("refused")
    BY <2>1 DEF SettleAnswer, Lifecycle, StartLike
  <2> QED
    BY <1>2, <1>3, <2>2
<1> QED
  BY <1>4, <1>5, <1>6, <1>7, <1>8, <1>9, <1>10 DEF Owner

LEMMA WorkerAccountKept ==
  ASSUME IInv, BaseInv, AccountInv, [Next]_vars, HostMoves
  PROVE  WorkerAccount'
<1>1. CASE worker' = worker
  BY <1>1 DEF AccountInv, WorkerAccount, HostMoves
<1>2. CASE worker' # worker /\ worker'.step = "finish"
  <2>1. \/ worker.step = "destroy" /\ Destroy(worker.vmid)
        \/ RequestDelete /\ row.op = 0 /\ row.vmid = NoVm
    BY <1>2, OneMoves, FinishReached
  <2>2. CASE worker.step = "destroy" /\ Destroy(worker.vmid)
    BY <2>2, DestroyMoves DEF Ours, WorkerAccount, BaseInv, RowBase, WorkerBase, Known
  <2>3. CASE RequestDelete /\ row.op = 0 /\ row.vmid = NoVm
    BY <2>3 DEF RequestDelete, hostVars, AccountInv, RowAccount, WorkerAccount
  <2> QED
    BY <2>1, <2>2, <2>3
<1> QED
  BY <1>1, <1>2 DEF WorkerAccount

LEMMA SameOperation ==
  ASSUME IInv, BaseInv, [Next]_vars, NEW o \in Nat, o # 0, o <= last, row'.op = o
  PROVE  row.op = o
BY NextMoves, RowTyped DEF RowMoves, Ops

PollGoes ==
  \/ poll'.step = "idle"
  \/ /\ PollRead /\ row' = row /\ row.vmid # NoVm
     /\ poll'.step = "check" /\ poll'.op = row.op /\ poll'.kind = row.kind
  \/ poll.step # "idle" /\ poll'.op = poll.op /\ poll'.kind = poll.kind

LEMMA PollGoesOnward ==
  ASSUME IInv, Poll
  PROVE  PollGoes
<1>1. poll \in [step : PollSteps, op : Ops, kind : Kinds, vmid : Vmids, desired : Desires]
  BY DEF IInv, StateType, PollType
<1>2. CASE PollEnds
  BY <1>2 DEF PollEnds, IdlePoll, PollGoes
<1>3. ASSUME NEW step, PollTo(step), poll.step # "idle" PROVE PollGoes
  BY <1>1, <1>3 DEF PollTo, PollGoes
<1>4. CASE PollRead
  BY <1>4 DEF PollRead, KeepRow, dbVars, PollGoes
<1>5. CASE PollCheckpoint \/ PollCancel \/ PollCompleteDelete \/ PollLog \/ PollConverge
  <2>1. PollEnds \/ (poll.step # "idle" /\ \E step : PollTo(step))
    BY <1>5 DEF PollCheckpoint, PollCancel, PollCompleteDelete, PollLog, PollConverge, PollAt
  <2> QED
    BY <1>2, <1>3, <2>1
<1> QED
  BY <1>4, <1>5 DEF Poll

LEMMA PollAccountKept ==
  ASSUME IInv, BaseInv, AccountInv, [Next]_vars, HostMoves
  PROVE  PollAccount'
<1>1. SUFFICES ASSUME poll'.step # "idle", poll'.op = row'.op PROVE row'.vmid # NoVm
  BY DEF PollAccount
<1>2. CASE PollRead /\ row' = row /\ row.vmid # NoVm
  BY <1>2
<1>3. CASE poll.step # "idle" /\ poll'.op = poll.op
  <2>1. poll.op \in Nat /\ poll.op # 0 /\ poll.op <= last
    BY <1>3 DEF IInv, PollMatch, IdsInOrder, StateType, PollType, Ops
  <2>2. row.op = poll.op
    BY <1>1, <1>3, <2>1, SameOperation
  <2> QED
    BY <1>1, <1>3, <2>1, <2>2, NextMoves DEF RowMoves, Persists, AccountInv, PollAccount
<1> QED
  BY <1>1, <1>2, <1>3, OneMoves, PollGoesOnward DEF PollGoes

-----------------------------------------------------------------------------
(* The sweeps.                                                             *)

LEMMA ExactKept ==
  ASSUME IInv, AccountInv, [Next]_vars, NEW s \in Sweepers, s \in exact'
  PROVE  Copied(s) \/ (s \in exact /\ sweep'[s] = sweep[s])
<1>1. s \in exact => sweep[s].step = "read"
  BY DEF AccountInv, SweepAccount
<1>2. CASE SweepRead(s)
  <2>1. sweep'[s].step = "read"
    BY <1>2, SweepToFields DEF SweepRead
  <2>2. ~Going(s) /\ ~FromIntent(s)
    BY <1>2, <2>1 DEF Going, FromIntent, Plans
  <2> QED
    BY <1>2, <2>1, <2>2, SweepGoes DEF Sweep, IdleSweep
<1>3. CASE Sweep(s) /\ ~SweepRead(s)
  BY <1>1, <1>3 DEF Sweep, SweepClaim, SweepIntent, SweepTeardown, SweepLetGo, SweepObserve,
    SweepProbe, SweepCompensate, SweepRecheck, SweepApply, SweepFails, KeepClock, Claimed, Planned
<1>4. CASE ~Sweep(s)
  <2>1. sweep'[s] = sweep[s]
    BY <1>4, OneMoves
  <2>2. s \in exact
    <3>1. CASE UNCHANGED exact
      BY <3>1
    <3>2. ASSUME NEW t \in Sweepers, Sweep(t) PROVE s \in exact
      BY <1>4, <3>2 DEF Sweep, SweepRead, SweepClaim, SweepIntent, SweepTeardown, SweepLetGo,
        SweepObserve, SweepProbe, SweepCompensate, SweepRecheck, SweepApply, SweepFails, KeepClock
    <3>3. Owner => UNCHANGED exact
      BY DEF Owner, ClaimPower, BeginSnapshot, BeginRestore, Claim, InvalidateDesktop,
        PowerScript, SnapshotScript, RestoreScript, SettleAnswer, ReleaseRefused, RequestDelete,
        DeleteDestroy, DeleteFinish, DeleteAbort, WorkerCrash, WorkerQuiet, clockVars
    <3>4. Post \/ Poll => UNCHANGED exact
      BY DEF Post, PostTunnel, PostFailBeforeAllocation, PostBeginAllocation, PostCheckpoint,
        PostPhase1, PostPersist, PostVerify, PostRollback, PostCompleteDelete, PostRelease,
        PostReleaseIntent, PostCrash, PostQuiet, PostAlone, clockVars, Poll, PollRead, PollCheckpoint, PollCancel,
        PollCompleteDelete, PollLog, PollConverge, PollQuiet, PollAlone
    <3> QED
      BY <3>1, <3>2, <3>3, <3>4
         DEF Next, vars, clockVars, InstallerFinishes, HelperFinishes, ForeignAppears, GoesStale
  <2> QED
    BY <2>1, <2>2
<1> QED
  BY <1>2, <1>3, <1>4

(* Nobody names another VMID while a sweep can still claim the operation,  *)
(* or has.                                                                 *)
LEMMA VmidStays ==
  ASSUME IInv, BaseInv, [Next]_vars, NEW s \in Sweepers, s \in exact \/ Working(s), sweep[s].step # "idle",
         row'.op = sweep[s].op, ~SweepIntent(s)
  PROVE  row.op = sweep[s].op /\ row'.vmid = row.vmid
<1>1. sweep[s].op \in Nat /\ sweep[s].op # 0 /\ sweep[s].op <= last
  BY SweepTyped DEF IInv, SweepsGood, SweepMatch, IdsInOrder, SweepRows, Ops
<1>2. row.op = sweep[s].op
  BY <1>1, SameOperation
<1>3. VmidKept \/ PostPersist \/ \E t \in Sweepers : SweepIntent(t)
  BY NextMoves
<1>4. CASE PostPersist
  <2>1. post.step # "done"
    BY <1>4 DEF PostPersist
  <2>2. sweep[s].op # 1 /\ row.op # 1
    BY <1>2, <2>1 DEF BaseInv, SweepBase
  <2>3. row' = row
    BY <1>4, <2>2 DEF PostPersist, Persist
  <2> QED
    BY <1>2, <2>3
<1>5. ASSUME NEW t \in Sweepers, SweepIntent(t) PROVE FALSE
  <2>1. Working(t) /\ t # s
    BY <1>5 DEF SweepIntent, Claimed, Working
  <2>2. exact = {} /\ ~Working(s)
    BY <2>1 DEF IInv, Reconciling, OneReconciler, Working
  <2> QED
    BY <2>2
<1> QED
  BY <1>1, <1>2, <1>3, <1>4, <1>5 DEF VmidKept

LEMMA GoingStays ==
  ASSUME IInv, BaseInv, AccountInv, [Next]_vars, NEW s \in Sweepers, Going(s), row'.op = sweep[s].op
  PROVE  /\ row.op = sweep[s].op /\ row'.vmid = row.vmid
         /\ sweep[s].vmid = row.vmid
<1>1. sweep[s].step # "idle"
  BY DEF Going, SameCopy
<1>2. CASE SweepClaim(s)
  <2>1. sweep'[s].step = "claimed"
    BY <1>2 DEF Going, Claimed, Planned, SweepClaim, SweepIntent, SweepTeardown, SweepLetGo, SweepObserve,
                SweepProbe, SweepCompensate, SweepRecheck, SweepApply
  <2>2. ~SweepEnds(s)
    BY <2>1, SweepToFields DEF SweepEnds, IdleSweep
  <2>3. s \in exact /\ row.op = sweep[s].op /\ row' = row
    BY <1>2, <2>2 DEF SweepClaim, Renewable, KeepRow, dbVars
  <2> QED
    BY <2>3 DEF AccountInv, SweepAccount
<1>3. CASE ~SweepClaim(s)
  <2>1. Working(s)
    BY <1>3 DEF Going, Claimed, Planned, Working, SweepIntent, SweepTeardown, SweepLetGo, SweepObserve,
                SweepProbe, SweepCompensate, SweepRecheck, SweepApply
  <2>2. row.op = sweep[s].op /\ row'.vmid = row.vmid
    <3>1. CASE SweepIntent(s)
      <4>1. row' = row
        BY <1>3, <3>1 DEF Going, KeepRow, dbVars, Persist, SweepIntent, Claimed, Planned, SweepTeardown,
              SweepLetGo, SweepObserve, SweepProbe, SweepCompensate, SweepRecheck, SweepApply
      <4> QED
        BY <4>1
    <3>2. CASE ~SweepIntent(s)
      BY <1>1, <2>1, <3>2, VmidStays
    <3> QED
      BY <3>1, <3>2
  <2> QED
    BY <2>1, <2>2 DEF AccountInv, SweepAccount
<1> QED
  BY <1>2, <1>3

LEMMA SweepCopyKept ==
  ASSUME IInv, BaseInv, AccountInv, [Next]_vars, NEW s \in Sweepers
  PROVE  /\ s \in exact' => sweep'[s].step = "read"
         /\ (s \in exact' \/ Working(s)') /\ sweep'[s].op = row'.op => sweep'[s].vmid = row'.vmid
<1>1. s \in exact' => sweep'[s].step = "read"
  BY ExactKept DEF Copied, AccountInv, SweepAccount
<1>2. SUFFICES ASSUME s \in exact' \/ Working(s)', sweep'[s].op = row'.op
               PROVE  sweep'[s].vmid = row'.vmid
  BY <1>1
<1>3. CASE ~Sweep(s)
  <2>1. sweep'[s] = sweep[s] /\ ~SweepIntent(s)
    BY <1>3, OneMoves DEF Sweep
  <2>2. CASE Copied(s)
    BY <1>3, <2>2 DEF Copied, Sweep
  <2>3. CASE s \in exact \/ Working(s)
    <3>1. sweep[s].step # "idle"
      BY <2>3 DEF Working, AccountInv, SweepAccount
    <3> QED
      BY <1>2, <2>1, <2>3, <3>1, VmidStays DEF AccountInv, SweepAccount
  <2> QED
    BY <1>2, <2>1, <2>2, <2>3, ExactKept DEF Working
<1>4. CASE sweep'[s] = IdleSweep
  BY <1>1, <1>2, <1>4 DEF IdleSweep, Working
<1>5. CASE Copied(s)
  BY <1>5 DEF Copied
<1>6. CASE FromIntent(s)
  BY <1>6, RowTyped DEF FromIntent, Persist, Rows
<1>7. CASE Going(s)
  BY <1>2, <1>7, GoingStays DEF Going, SameCopy
<1> QED
  BY <1>3, <1>4, <1>5, <1>6, <1>7, SweepGoes

LEMMA SweepPlanJustified ==
  ASSUME IInv, BaseInv, AccountInv, ~unread', [Next]_vars, HostMoves, RowAccount',
         NEW s \in Sweepers, Going(s), sweep'[s].step = "apply", row'.op = sweep[s].op
  PROVE  /\ vm'.slot \in {NoVm, row'.vmid}
         /\ sweep'[s].plan \in {<<"delete">>, <<"checkpoint">>} => vm'.slot = NoVm
<1>1. /\ row.op = sweep[s].op /\ row'.vmid = row.vmid /\ sweep[s].vmid = row.vmid
      /\ sweep[s].step # "idle"
  BY GoingStays DEF Going, SameCopy
<1>2. sweep[s].kind = row.kind /\ (row.op = 1 <=> sweep[s].kind = "provision")
  BY <1>1 DEF IInv, SweepsGood, SweepMatch
<1>3. row.op # 1 => vm'.slot \in {NoVm, row'.vmid}
  BY <1>1 DEF RowAccount
<1>4. vm.slot \in {NoVm, row.vmid} => vm'.slot \in {NoVm, row'.vmid}
  BY <1>1 DEF HostMoves
<1>5. ASSUME sweep[s].vmid # NoVm, Destroy(sweep[s].vmid) PROVE vm'.slot = NoVm
  BY <1>5, DestroyMoves DEF Ours, BaseInv, RowBase, SweepBase, Known
<1>6. CASE /\ SweepIntent(s)
           /\ \/ KeepRow /\ (intent = NoVm \/ unread')
              \/ intent # NoVm /\ Persist(sweep[s].op, intent, FALSE)
  <2>1. intent = NoVm \/ Persist(sweep[s].op, intent, FALSE)
    BY <1>6
  <2>2. row.op = 1 /\ sweep[s].vmid = NoVm /\ row.kind = "provision"
    BY <1>2, <1>6 DEF SweepIntent
  <2>3. intent = NoVm
    BY <1>1, <2>1, <2>2 DEF Persist, BaseInv, RowBase
  <2>4. vm.slot = NoVm
    BY <1>1, <2>2, <2>3 DEF AccountInv, RowAccount
  <2> QED
    BY <2>4 DEF HostMoves
<1>7. CASE SweepTeardown(s)
  <2>1. vm'.slot = NoVm
    <3>1. CASE sweep[s].vmid # NoVm
      BY <1>5, <1>7, <3>1 DEF SweepTeardown, DestroyWithLogs, DestroyAllocation
    <3>2. CASE sweep[s].vmid = NoVm
      <4>1. sweep[s].kind = "delete"
        BY <1>7, <3>2 DEF SweepTeardown
      <4> QED
        BY <1>1, <1>2, <1>3, <3>2, <4>1
    <3> QED
      BY <3>1, <3>2
  <2> QED
    BY <2>1
<1>8. CASE SweepCompensate(s)
  <2>1. sweep[s].step = "apply" /\ sweep[s].plan = <<"compensate">> /\ Destroy(sweep[s].vmid)
    BY <1>8, DeletePlanned DEF SweepCompensate, Planned, DestroyAllocation
  <2>2. sweep[s].vmid # NoVm
    BY <2>1 DEF BaseInv, SweepBase, Compensating
  <2> QED
    BY <1>5, <2>1, <2>2
<1>9. CASE SweepRecheck(s)
  <2>1. sweep[s].step = "apply" /\ sweep[s].plan = <<"checkpoint">>
    BY <1>9, DeletePlanned DEF SweepRecheck, Planned
  <2>2. vm.slot = NoVm
    BY <1>1, <2>1 DEF AccountInv, SweepAccount
  <2> QED
    BY <2>2 DEF HostMoves
<1>10. CASE SweepApply(s) /\ \E call \in {"running", "observed"} : Plans(s, <<call>>)
  <2>1. \E call \in {"running", "observed"} : sweep'[s].plan = <<call>>
    BY <1>10 DEF Plans
  <2>2. vm.slot \in {NoVm, row.vmid}
    BY <1>1, <1>10 DEF SweepApply, AccountInv, SweepAccount
  <2> QED
    BY <1>4, <2>1, <2>2
<1>11. CASE (SweepLetGo(s) /\ Plans(s, <<"release">>)) \/ (SweepObserve(s) /\ Plans(s, SnapshotPlan(s)))
  <2>1. sweep[s].kind # "provision"
    BY <1>11 DEF SweepLetGo, SweepObserve, Lifecycle, StartLike
  <2>2. sweep'[s].plan \notin {<<"delete">>, <<"checkpoint">>}
    BY <1>11 DEF Plans, SnapshotPlan
  <2> QED
    BY <1>2, <1>3, <2>1, <2>2
<1>12. CASE SweepProbe(s) /\ \E plan \in ProbePlans(s) : Plans(s, plan)
  <2>1. sweep[s].vmid # NoVm
    BY <1>12 DEF SweepProbe
  <2>2. vm.slot \in {NoVm, row.vmid}
    BY <1>1, <2>1 DEF BaseInv, RowBase, Known
  <2>3. SettlePlan(s) \notin {<<"delete">>, <<"checkpoint">>} /\ RunningPlan(s) \notin {<<"delete">>, <<"checkpoint">>}
    BY DEF SettlePlan, RunningPlan
  <2>4. \A plan \in ProbePlans(s) : plan \notin {<<"delete">>, <<"checkpoint">>}
    <3>1. ProbePlans(s) \subseteq {<<"error">>, <<"compensate">>, <<>>, SettlePlan(s), RunningPlan(s)}
      BY DEF ProbePlans
    <3> QED
      BY <2>3, <3>1
  <2> QED
    BY <1>4, <1>12, <2>2, <2>4 DEF Plans
<1>13. ~(SweepClaim(s) /\ sweep'[s].step = "claimed")
  OBVIOUS
<1> QED
  BY <1>6, <1>7, <1>8, <1>9, <1>10, <1>11, <1>12, <1>13 DEF Going

LEMMA SweepAccountKept ==
  ASSUME IInv, BaseInv, AccountInv, ~unread', [Next]_vars, HostMoves, RowAccount',
         NEW s \in Sweepers
  PROVE  SweepAccount(s)'
<1>1. /\ s \in exact' => sweep'[s].step = "read"
      /\ (s \in exact' \/ Working(s)') /\ sweep'[s].op = row'.op => sweep'[s].vmid = row'.vmid
  BY SweepCopyKept
<1>2. ASSUME sweep'[s].step = "apply", sweep'[s].op = row'.op
      PROVE  /\ vm'.slot \in {NoVm, row'.vmid}
             /\ sweep'[s].plan \in {<<"delete">>, <<"checkpoint">>} => vm'.slot = NoVm
  <2>1. CASE ~Sweep(s)
    <3>1. sweep'[s] = sweep[s] /\ ~SweepIntent(s)
      BY <2>1, OneMoves DEF Sweep
    <3>2. row.op = sweep[s].op /\ row'.vmid = row.vmid
      BY <1>2, <3>1, VmidStays DEF Working
    <3>3. /\ vm.slot \in {NoVm, row.vmid}
          /\ sweep[s].plan \in {<<"delete">>, <<"checkpoint">>} => vm.slot = NoVm
      BY <1>2, <3>1, <3>2 DEF AccountInv, SweepAccount
    <3> QED
      BY <3>1, <3>2, <3>3 DEF HostMoves
  <2>2. CASE Going(s)
    BY <1>2, <2>2, SweepPlanJustified DEF Going, SameCopy
  <2> QED
    <3>1. sweep'[s] # IdleSweep /\ ~Copied(s) /\ ~FromIntent(s)
      BY <1>2 DEF IdleSweep, Copied, FromIntent
    <3> QED
      BY <2>1, <2>2, <3>1, SweepGoes
<1> QED
  BY <1>1, <1>2 DEF SweepAccount

LEMMA EarlyAccount ==
  ASSUME IInv, BaseInv, AccountInv, PostPhase1
  PROVE  AccountInv'
<1>1. post.step \in EarlySteps
  BY DEF PostPhase1, PostAt, EarlySteps
<1>2. /\ row.op = 1 /\ row.status = "provisioning" /\ vm.slot = NoVm
      /\ worker.step = "idle" /\ poll.step = "idle"
      /\ \A s \in Sweepers : sweep[s].step = "idle"
  BY <1>1 DEF IInv, EarlyAlone, IdsInOrder, Active, BaseInv, RowBase, PostBase, Known
<1>3. row' = row /\ exact' = exact /\ worker' = worker /\ poll' = poll /\ sweep' = sweep
  BY DEF PostPhase1, KeepRow, dbVars, PostQuiet, PostAlone, clockVars
<1>4. post'.step \in {"persist", "persist_failed", "done"} /\ vm'.slot \in {NoVm, intent'}
  <2>1. post \in [step : PostSteps, vmid : Vmids]
    BY DEF IInv, StateType, PostType
  <2>2. CASE PostTo("done") /\ UNCHANGED <<intent, vm>>
    BY <1>2, <2>1, <2>2 DEF PostTo
  <2>3. CASE \E v \in Slots \ foreign :
          /\ intent' = v
          /\ \/ /\ vm' = [slot |-> v, power |-> "running", config |-> 0]
                /\ \E next \in {"persist", "persist_failed", "done"} :
                     post' = [step |-> next, vmid |-> v]
             \/ /\ UNCHANGED vm
                /\ \E next \in {"persist_failed", "done"} :
                     post' = [step |-> next, vmid |-> v]
    BY <1>2, <2>3
  <2> QED
    BY <2>2, <2>3 DEF PostPhase1
<1>5. RowAccount' /\ PostAccount' /\ WorkerAccount' /\ PollAccount'
  BY <1>2, <1>3, <1>4 DEF RowAccount, PostAccount, WorkerAccount, PollAccount
<1>6. \A s \in Sweepers : SweepAccount(s)'
  BY <1>2, <1>3 DEF SweepAccount, AccountInv, Working
<1> QED
  BY <1>5, <1>6 DEF AccountInv

LEMMA AccountKept ==
  ASSUME IInv, BaseInv, AccountInv, ~unread', [Next]_vars
  PROVE  AccountInv'
<1>1. CASE PostPhase1
  BY <1>1, EarlyAccount
<1>2. CASE ~PostPhase1
  <2>1. HostMoves
    BY <1>2, NextHostMoves
  <2>2. RowAccount' /\ PostAccount' /\ WorkerAccount' /\ PollAccount'
    BY <1>2, <2>1, RowAccountKept, PostAccountKept, WorkerAccountKept, PollAccountKept
  <2>3. \A s \in Sweepers : SweepAccount(s)'
    BY <2>1, <2>2, SweepAccountKept
  <2> QED
    BY <2>2, <2>3 DEF AccountInv
<1> QED
  BY <1>1, <1>2

(* No VM is lost, whatever crashes, overlaps or goes unanswered, except to *)
(* a sweep that could not read the allocation intent: as long as our VM    *)
(* exists the row is not deleted, and names it or still holds the launch   *)
(* whose intent does.  (PostPersist, PostRollback, CompleteDelete and the  *)
(* sweep's completions together)                                           *)
THEOREM NoVmIsLost == Spec => []VmAccountedUnlessUnread
<1> DEFINE Inv == ~unread => AccountInv
<1>1. Init => Inv
  BY DEF Init, AccountInv, RowAccount, PostAccount, WorkerAccount, PollAccount, SweepAccount, Gone,
     IdleWorker, IdlePoll, IdleSweep, Working
<1>2. IInv /\ BaseInv /\ Inv /\ [Next]_vars => Inv'
  <2> SUFFICES ASSUME IInv, BaseInv, Inv, [Next]_vars, ~unread'
               PROVE  AccountInv'
    OBVIOUS
  <2>1. ~unread
    BY GhostsGrow
  <2> QED
    BY <2>1, AccountKept
<1>3. Inv => VmAccountedUnlessUnread
  BY DEF AccountInv, RowAccount, VmAccounted, VmAccountedUnlessUnread
<1> QED
  BY <1>1, <1>2, <1>3, HostInvariance, PTL DEF Spec

-----------------------------------------------------------------------------
(* LeaseInv is inductive while nothing overtakes a launch.                 *)

(* A launch loses its lease when its VM is gone, or to a poll or a sweep   *)
(* that completes it.                                                      *)
LEMMA LaunchEnds ==
  ASSUME IInv, BaseInv, [Next]_vars, row.op = 1, row'.op # 1
  PROVE  \/ vm.slot = NoVm
         \/ PollConverge /\ poll.op = 1
         \/ \E s \in Sweepers : SweepApply(s) /\ sweep[s].op = 1 /\ sweep'[s] = IdleSweep
<1>1. row' # row /\ ~Active
  BY DEF IInv, WorkerLease
<1>2. CASE Post
  <2>1. CASE PostFailBeforeAllocation
    BY <2>1 DEF PostFailBeforeAllocation, PostAt, EarlySteps, BaseInv, RowBase, PostBase, Known
  <2>2. CASE PostBeginAllocation
    BY <2>2, RowTyped DEF PostBeginAllocation, Rows
  <2>3. CASE PostPersist
    BY <2>3, RowTyped DEF PostPersist, Persist, Rows
  <2>4. CASE PostCompleteDelete \/ PostRelease
    BY <2>4 DEF PostCompleteDelete, PostRelease, PostAt, BaseInv, PostBase, GoneSteps
  <2> QED
    BY <1>1, <1>2, <2>1, <2>2, <2>3, <2>4
       DEF Post, PostTunnel, PostCheckpoint, PostPhase1, PostVerify, PostRollback,
           PostReleaseIntent, PostCrash, KeepRow, dbVars
<1>3. CASE Owner
  <2>1. CASE RequestDelete
    BY <2>1, RowTyped DEF RequestDelete, Rows
  <2>2. ~ClaimPower /\ ~BeginSnapshot /\ ~BeginRestore
    BY ClaimedBy DEF Claim
  <2> QED
    BY <1>1, <1>3, <2>1, <2>2
       DEF Owner, InvalidateDesktop, PowerScript, SnapshotScript, RestoreScript, SettleAnswer,
           ReleaseRefused, DeleteDestroy, DeleteFinish, DeleteAbort, WorkerCrash, WorkerAt, Active
<1>4. CASE Poll
  <2>1. CASE PollCompleteDelete
    BY <2>1 DEF PollCompleteDelete, PollAt, BaseInv, PollBase
  <2>2. CASE PollConverge
    BY <1>1, <2>2 DEF PollConverge, CompleteRunning, Release
  <2> QED
    BY <1>1, <1>4, <2>1, <2>2 DEF Poll, PollRead, PollCheckpoint, PollCancel, PollLog, KeepRow, dbVars
<1>5. ASSUME NEW s \in Sweepers, Sweep(s)
      PROVE  SweepApply(s) /\ sweep[s].op = 1 /\ sweep'[s] = IdleSweep
  <2>1. ~SweepIntent(s)
    BY RowTyped DEF SweepIntent, Persist, Rows, KeepRow, dbVars
  <2>2. SweepApply(s)
    BY <1>1, <1>5, <2>1 DEF Sweep, SweepRead, SweepClaim, SweepTeardown, SweepLetGo, SweepObserve, SweepProbe,
         SweepCompensate, SweepRecheck, SweepFails, KeepRow, dbVars
  <2>3. PICK ok \in BOOLEAN :
          /\ Applies(s, Head(sweep[s].plan), ok)
          /\ (ok /\ Tail(sweep[s].plan) # <<>>) \/ SweepEnds(s)
    BY <2>2 DEF SweepApply
  <2>4. sweep[s].step = "apply"
    BY <2>2 DEF SweepApply
  <2>5. row.op = sweep[s].op
    BY <1>1, <2>3, <2>4, AppliesDb
  <2>6. Tail(sweep[s].plan) # <<>> => row'.op = row.op
    <3>1. Tail(sweep[s].plan) # <<>> => Head(sweep[s].plan) = "continue"
      BY <2>4, PlannedCall
    <3>2. Head(sweep[s].plan) = "continue" => Continue(sweep[s].op, ok)
      BY <2>3 DEF Applies
    <3>3. Continue(sweep[s].op, ok) => row'.op = row.op
      BY RowTyped DEF Continue, Rows
    <3> QED
      BY <3>1, <3>2, <3>3
  <2>7. SweepEnds(s)
    BY <2>3, <2>6
  <2> QED
    BY <2>2, <2>5, <2>7, SweepToFields DEF SweepEnds
<1> QED
  BY <1>1, <1>2, <1>3, <1>4, <1>5
     DEF Next, vars, dbVars, InstallerFinishes, HelperFinishes, ForeignAppears, GoesStale

(* The result markers and the start receipt on the host.                   *)
MarksKept == installed' = installed /\ log'.op = log.op
Receipt == Active /\ row' = row /\ installed' = "none" /\ log'.op = worker.op
LogsRemoved == installed' = "none" /\ log'.op = 0 /\ vm'.slot = NoVm

LEMMA LogsRemovedWithVm ==
  ASSUME IInv, BaseInv, NEW v \in Known, v # NoVm, DestroyWithLogs(v) \/ DestroyAllocation(v)
  PROVE  LogsRemoved
<1>1. vm'.slot = NoVm
  BY DestroyMoves DEF DestroyWithLogs, DestroyAllocation, Ours, BaseInv, RowBase, Known
<1> QED
  BY <1>1 DEF DestroyWithLogs, DestroyAllocation, DropLogs, NoLog, LogsRemoved

LEMMA MarksMove ==
  ASSUME IInv, BaseInv, [Next]_vars
  PROVE  MarksKept \/ InstallerFinishes \/ Receipt \/ LogsRemoved
<1>1. CASE UNCHANGED <<installed, log>>
  BY <1>1 DEF MarksKept
<1>2. CASE HelperFinishes
  <2>1. log \in [op : Ops, result : Markers]
    BY DEF IInv, StateType, HostType
  <2> QED
    BY <1>2, <2>1 DEF HelperFinishes, MarksKept
<1>3. CASE Post
  BY <1>1, <1>3 DEF Post, PostTunnel, PostFailBeforeAllocation, PostBeginAllocation, PostCheckpoint,
    PostPhase1, PostPersist, PostVerify, PostRollback, PostCompleteDelete, PostRelease,
    PostReleaseIntent, PostCrash, KeepHost, hostVars, Rollback
<1>4. CASE Owner
  <2>1. CASE PowerScript
    <3>1. KeepRow /\ Active /\ (UNCHANGED <<installed, log>> \/
             \E b : /\ log' = IF b THEN [op |-> worker.op, result |-> "none"] ELSE log
                    /\ installed' = IF b THEN "none" ELSE installed)
      BY <2>1 DEF PowerScript, KeepHost, hostVars, WorkerAt, Active
    <3> QED
      BY <1>1, <3>1 DEF Receipt, KeepRow, dbVars
  <2>2. CASE DeleteDestroy
    <3>1. worker.vmid \in Known /\ worker.vmid # NoVm
      BY <2>2 DEF DeleteDestroy, WorkerAt, BaseInv, WorkerBase
    <3> QED
      BY <1>1, <2>2, <3>1, LogsRemovedWithVm DEF DeleteDestroy, KeepHost, hostVars
  <2> QED
    BY <1>1, <1>4, <2>1, <2>2
       DEF Owner, ClaimPower, BeginSnapshot, BeginRestore, Claim, InvalidateDesktop, SnapshotScript,
           RestoreScript, SettleAnswer, ReleaseRefused, RequestDelete, DeleteFinish, DeleteAbort,
           WorkerCrash, KeepHost, hostVars
<1>5. CASE Poll
  <2>1. CASE PollCancel
    <3>1. poll.vmid \in Known /\ poll.vmid # NoVm
      BY <2>1 DEF PollCancel, PollAt, BaseInv, PollBase
    <3> QED
      BY <1>1, <2>1, <3>1, LogsRemovedWithVm DEF PollCancel, KeepHost, hostVars
  <2> QED
    BY <1>1, <1>5, <2>1 DEF Poll, PollRead, PollCheckpoint, PollCompleteDelete, PollLog, PollConverge,
                            KeepHost, hostVars
<1>6. ASSUME NEW s \in Sweepers, Sweep(s) PROVE MarksKept \/ LogsRemoved
  <2>1. sweep[s].vmid \in Known
    BY DEF BaseInv, SweepBase
  <2>2. CASE SweepTeardown(s)
    BY <1>1, <2>1, <2>2, LogsRemovedWithVm DEF SweepTeardown, KeepHost, hostVars, MarksKept
  <2>3. CASE SweepCompensate(s)
    <3>1. sweep[s].vmid # NoVm
      BY <2>3, DeletePlanned DEF SweepCompensate, Planned, BaseInv, SweepBase, Compensating
    <3> QED
      BY <2>1, <2>3, <3>1, LogsRemovedWithVm DEF SweepCompensate
  <2> QED
    BY <1>6, <2>2, <2>3 DEF Sweep, SweepRead, SweepClaim, SweepIntent, SweepLetGo, SweepObserve,
      SweepProbe, SweepRecheck, SweepApply, SweepFails, KeepHost, hostVars, MarksKept
<1> QED
  BY <1>1, <1>2, <1>3, <1>4, <1>5, <1>6
     DEF Next, vars, hostVars, InstallerFinishes, ForeignAppears, GoesStale

LEMMA NotEarlyActive ==
  ASSUME IInv, Active
  PROVE  post.step \notin EarlySteps /\ worker.op # 0 /\ row.op # 1
BY DEF IInv, EarlyAlone, IdsInOrder, WorkerLease

(* A poll that ends a launch, and overtakes nobody in doing so.            *)
LEMMA NotOvertaken ==
  ASSUME IInv, PollConverge, poll.op = 1, row.op = 1, row'.op # 1, overtaken' = {}
  PROVE  /\ poll.kind = "provision" /\ post.step = "done"
         /\ poll.step = "running" \/ \A s \in Sweepers : poll.step = "error" /\ ~Working(s)
<1>1. poll.kind = "provision" /\ poll.step \in {"running", "error"}
  BY DEF PollConverge, PollAt, IInv, PollMatch
<1>2. PICK ok \in BOOLEAN :
        /\ CompleteRunning(poll.op, poll.kind, ok) \/ Release(poll.op, TRUE, ok)
        /\ overtaken' = IF ok THEN overtaken \cup Overtaken ELSE overtaken
  BY DEF PollConverge
<1>3. ~ok => row' = row
  BY <1>2 DEF CompleteRunning, Release
<1>4. Overtaken = {}
  BY <1>2, <1>3
<1> QED
  BY <1>1, <1>4 DEF Overtaken, PollAt, Working

LEMMA HostLeaseKept ==
  ASSUME IInv, BaseInv, LeaseInv, overtaken' = {}, [Next]_vars
  PROVE  HostLease'
<1>1. post.step = "done" => post'.step = "done"
  BY PostDone
<1>2. HostLease /\ PollLease
  BY DEF LeaseInv
<1>4. CASE PostPhase1
  <2>1. /\ row.op = 1 /\ post.step \in EarlySteps /\ row' = row /\ installed' = installed /\ log' = log
        /\ post'.step \in {"persist", "persist_failed", "done"}
    <3>1. post.step \in EarlySteps /\ row' = row /\ installed' = installed /\ log' = log
      BY <1>4 DEF PostPhase1, PostAt, EarlySteps, KeepRow, dbVars
    <3>2. post'.step \in {"persist", "persist_failed", "done"}
      BY <1>4 DEF PostPhase1, PostTo, IInv, StateType, PostType
    <3> QED
      BY <3>1, <3>2 DEF IInv, EarlyAlone
  <2> QED
    BY <1>2, <2>1 DEF HostLease, EarlySteps
<1>5. CASE ~PostPhase1
  <2>1. HostMoves
    BY <1>5, NextHostMoves
  <2>2. post'.step \in EarlySteps => installed' = "none" /\ log'.op = 0
    <3>1. post'.step \in EarlySteps => post.step \in EarlySteps
      <4>1. SUFFICES ASSUME post'.step \in EarlySteps, post.step \notin EarlySteps PROVE FALSE
        OBVIOUS
      <4>2. post' # post /\ Post
        BY <4>1, OneMoves
      <4>3. post \in [step : PostSteps, vmid : Vmids]
        BY DEF IInv, StateType, PostType
      <4>4. \A step : PostTo(step) => post'.step = step
        BY <4>3 DEF PostTo
      <4>5. ~PostTunnel /\ ~PostFailBeforeAllocation /\ ~PostBeginAllocation
        BY <4>1 DEF PostTunnel, PostFailBeforeAllocation, PostBeginAllocation, PostAt, EarlySteps
      <4>6. ~PostCheckpoint
        <5>1. SUFFICES ASSUME PostCheckpoint PROVE FALSE
          OBVIOUS
        <5>2. PICK at \in {<<"check_launch", "phase1">>, <<"check_limit", "verify">>, <<"check_final", "done">>} :
                PostAt(at[1]) /\ PostTo(IF Checkpoint(1) THEN at[2] ELSE "finish")
          BY <5>1 DEF PostCheckpoint
        <5>3. PICK step \in {"verify", "done", "finish"} : PostTo(step)
          BY <4>1, <5>2 DEF PostAt, EarlySteps
        <5> QED
          BY <4>1, <4>4, <5>3 DEF EarlySteps
      <4>7. ~PostPersist /\ ~PostVerify /\ ~PostCrash /\ ~PostReleaseIntent
        BY <4>1, <4>4 DEF PostPersist, PostVerify, PostCrash, PostReleaseIntent, EarlySteps
      <4>8. ~PostRollback /\ ~PostCompleteDelete /\ ~PostRelease
        <5>1. PostRollback => \E step \in {"terminal", "terminal_error", "finish_delete", "done"} : PostTo(step)
          BY DEF PostRollback
        <5>2. PostCompleteDelete \/ PostRelease => \E step \in {"drop_intent", "terminal_error", "done"} : PostTo(step)
          BY DEF PostCompleteDelete, PostRelease
        <5> QED
          BY <4>1, <4>4, <5>1, <5>2 DEF EarlySteps
      <4> QED
        BY <1>5, <4>2, <4>5, <4>6, <4>7, <4>8 DEF Post
    <3> QED
      <4>1. post.step \in EarlySteps => vm.slot = NoVm
        BY DEF BaseInv, RowBase, PostBase, Known
      <4> QED
        BY <1>2, <3>1, <4>1, MarksMove, NotEarlyActive
           DEF HostLease, MarksKept, Receipt, LogsRemoved, InstallerFinishes
  <2>3. log'.op # 0 /\ vm'.slot # NoVm => installed' = "none"
    BY <1>2, <2>1, MarksMove DEF HostLease, MarksKept, Receipt, LogsRemoved, InstallerFinishes, HostMoves
  <2>4. ASSUME post'.step # "done", vm'.slot # NoVm PROVE row'.op = 1
    <3>1. post.step # "done" /\ vm.slot # NoVm /\ row.op = 1
      BY <1>1, <1>2, <2>1, <2>4 DEF HostMoves, HostLease
    <3>2. row'.op # 1 => ~(PollConverge /\ poll.op = 1)
      BY <3>1, NotOvertaken
    <3>3. \A s \in Sweepers : ~(SweepApply(s) /\ sweep[s].op = 1)
      BY <3>1 DEF SweepApply, BaseInv, SweepBase
    <3> QED
      BY <3>1, <3>2, <3>3, LaunchEnds
  <2> QED
    BY <2>2, <2>3, <2>4 DEF HostLease
<1> QED
  BY <1>4, <1>5

LEMMA PollLeaseKept ==
  ASSUME IInv, BaseInv, LeaseInv, overtaken' = {}, [Next]_vars, ~PostPhase1, HostMoves
  PROVE  PollLease'
<1>1. post.step = "done" => post'.step = "done"
  BY PostDone
<1>2. HostLease /\ PollLease
  BY DEF LeaseInv
<1>3. ASSUME poll'.step = "running", poll'.kind = "provision", poll'.op = row'.op, vm'.slot # NoVm,
             installed = "ready", poll'.op = 1
      PROVE  installed' = "ready"
  <2>1. row.op = 1
    BY <1>3, SameOperation, RowTyped
  <2> QED
    BY <1>3, <2>1, MarksMove, NotEarlyActive DEF MarksKept, Receipt, LogsRemoved, InstallerFinishes
<1>4. CASE poll' = poll
  <2>1. poll.step # "idle" /\ poll.kind = "provision" => poll.op = 1
    BY DEF IInv, PollMatch
  <2>2. poll.step # "idle" /\ poll.op = row'.op /\ poll.op = 1 => poll.op = row.op
    BY SameOperation, RowTyped
  <2> QED
    BY <1>1, <1>2, <1>3, <1>4, <2>1, <2>2 DEF PollLease, HostMoves
<1>5. CASE Poll /\ poll'.step \in {"running", "error"}
  <2>1. poll \in [step : PollSteps, op : Ops, kind : Kinds, vmid : Vmids, desired : Desires]
    BY DEF IInv, StateType, PollType
  <2>2. ~PollEnds /\ ~PollRead
    BY <1>5 DEF PollEnds, IdlePoll, PollRead
  <2>3. \A step : PollTo(step) => poll'.step = step /\ poll'.kind = poll.kind
    BY <2>1 DEF PollTo
  <2>4. PollLog
    <3>1. PollCheckpoint => PollEnds \/ PollTo("log") \/ PollTo("cancel")
      BY DEF PollCheckpoint
    <3>2. PollCancel => PollEnds \/ PollTo("cancel_row")
      BY DEF PollCancel
    <3>3. PollCompleteDelete \/ PollConverge => PollEnds
      BY DEF PollCompleteDelete, PollConverge
    <3> QED
      BY <1>5, <2>2, <2>3, <3>1, <3>2, <3>3 DEF Poll
  <2>5. /\ poll'.kind = poll.kind /\ installed' = installed /\ post' = post
        /\ MarkerFor(poll.kind) \in {"ready", "failed"}
        /\ poll'.step = "running" => MarkerFor(poll.kind) = "ready"
    <3>1. \/ MarkerFor(poll.kind) = "ready" /\ (PollTo("running") \/ PollTo("error"))
          \/ MarkerFor(poll.kind) = "failed" /\ PollTo("error")
      BY <2>2, <2>4 DEF PollLog
    <3>2. installed' = installed /\ post' = post
      BY <2>4 DEF PollLog, KeepHost, hostVars, PollQuiet, PollAlone
    <3> QED
      BY <2>3, <3>1, <3>2
  <2> QED
    BY <1>2, <2>5 DEF PollLease, HostLease, MarkerFor
<1> QED
  BY <1>4, <1>5, OneMoves DEF PollLease

LEMMA SweepLeaseKept ==
  ASSUME IInv, BaseInv, LeaseInv, overtaken' = {}, [Next]_vars, ~PostPhase1, HostMoves, NEW s \in Sweepers
  PROVE  SweepLease(s)'
<1>1. HostLease /\ PollLease /\ SweepLease(s)
  BY DEF LeaseInv
<1>2. ASSUME Working(s), sweep[s].op = 1, vm'.slot # NoVm, row.op = 1, row'.op # 1, sweep'[s].step # "idle"
      PROVE  installed = "ready"
  <2>1. vm.slot # NoVm
    BY <1>2 DEF HostMoves
  <2>2. ASSUME NEW t \in Sweepers, SweepApply(t), sweep'[t] = IdleSweep PROVE FALSE
    <3>1. Working(t) /\ t # s
      BY <1>2, <2>2 DEF SweepApply, Working, IdleSweep
    <3> QED
      BY <1>2, <3>1 DEF IInv, OneReconciler, Working
  <2>3. PollConverge /\ poll.op = 1
    BY <1>2, <2>1, <2>2, LaunchEnds
  <2>4. poll.kind = "provision" /\ poll.step = "running"
    BY <1>2, <2>3, NotOvertaken
  <2> QED
    BY <1>1, <1>2, <2>1, <2>3, <2>4 DEF PollLease
<1>3. ASSUME Working(s), sweep[s].op = 1, vm'.slot # NoVm, sweep'[s].step # "idle"
      PROVE  row'.op = 1 \/ installed' = "ready" \/ log'.op # 0
  <2>1. vm.slot # NoVm
    BY <1>3 DEF HostMoves
  <2>2. row.op = 1 \/ installed = "ready" \/ log.op # 0
    BY <1>1, <1>3, <2>1 DEF SweepLease
  <2>3. row'.op = 1 \/ installed = "ready" \/ log.op # 0
    BY <1>2, <1>3, <2>2
  <2> QED
    BY <1>3, <2>3, MarksMove, NotEarlyActive
       DEF MarksKept, Receipt, LogsRemoved, InstallerFinishes
<1>4. ASSUME Working(s)', sweep'[s].op = 1, vm'.slot # NoVm
      PROVE  row'.op = 1 \/ installed' = "ready" \/ log'.op # 0
  <2>1. sweep'[s].step # "idle"
    BY <1>4 DEF Working
  <2>2. CASE sweep'[s] = sweep[s]
    BY <1>3, <1>4, <2>1, <2>2 DEF Working
  <2>3. CASE FromIntent(s) \/ (Going(s) /\ Working(s))
    <3>1. Working(s) /\ sweep[s].op = 1
      BY <1>4, <2>3 DEF FromIntent, Going, SameCopy, SweepIntent, Claimed, Working
    <3> QED
      BY <1>3, <1>4, <2>1, <3>1
  <2>4. CASE Going(s) /\ ~Working(s)
    <3>1. SweepClaim(s)
      BY <2>4 DEF Going, Claimed, Planned, Working, SweepIntent, SweepTeardown, SweepLetGo, SweepObserve,
                  SweepProbe, SweepCompensate, SweepRecheck, SweepApply
    <3>2. ~SweepEnds(s)
      BY <2>1, SweepToFields DEF SweepEnds, IdleSweep
    <3>3. row' = row /\ row.op = sweep[s].op
      BY <3>1, <3>2 DEF SweepClaim, Renewable, KeepRow, dbVars
    <3> QED
      BY <1>4, <2>4, <3>3 DEF Going, SameCopy
  <2> QED
    BY <1>4, <2>2, <2>3, <2>4, OneMoves, SweepGoes DEF IdleSweep, Copied, Working
<1>5. ASSUME Compensating(s)', vm'.slot # NoVm PROVE row'.op = 1 /\ installed' = "failed"
  <2>1. sweep'[s].step = "apply"
    BY <1>5 DEF Compensating
  <2>2. vm.slot # NoVm
    BY <1>5 DEF HostMoves
  <2>3. CASE sweep'[s] = sweep[s]
    <3>1. Compensating(s) /\ Working(s)
      BY <1>5, <2>3 DEF Compensating, Working
    <3>2. row.op = 1 /\ installed = "failed" /\ sweep[s].kind = "provision"
      BY <1>1, <2>2, <3>1 DEF SweepLease, BaseInv, SweepBase
    <3>3. sweep[s].op = 1
      BY <3>1, <3>2 DEF IInv, SweepsGood, SweepMatch, Working
    <3>4. row'.op = 1
      BY <1>2, <1>5, <2>1, <3>1, <3>2, <3>3
    <3> QED
      BY <1>5, <3>2, <3>4, MarksMove, NotEarlyActive DEF MarksKept, Receipt, LogsRemoved, InstallerFinishes
  <2>4. CASE Going(s)
    <3>1. SweepProbe(s) /\ sweep[s].kind = "provision" /\ installed = "failed"
      BY <1>5, <2>4, CompensationPlanned
    <3>2. Working(s) /\ row' = row /\ installed' = installed
      BY <3>1 DEF SweepProbe, Claimed, Working, KeepRow, dbVars, KeepHost, hostVars
    <3>3. sweep[s].op = 1
      BY <3>1, <3>2 DEF IInv, SweepsGood, SweepMatch, Working
    <3> QED
      BY <1>1, <2>2, <3>1, <3>2, <3>3 DEF SweepLease, HostLease
  <2> QED
    <3>1. sweep'[s] # IdleSweep /\ ~Copied(s) /\ ~FromIntent(s)
      BY <2>1 DEF IdleSweep, Copied, FromIntent
    <3> QED
      BY <2>3, <2>4, <3>1, OneMoves, SweepGoes
<1> QED
  BY <1>4, <1>5 DEF SweepLease

LEMMA LeaseKept ==
  ASSUME IInv, BaseInv, LeaseInv, overtaken' = {}, [Next]_vars
  PROVE  LeaseInv'
<1>1. HostLease'
  BY HostLeaseKept
<1>2. CASE PostPhase1
  <2>1. post.step \in EarlySteps /\ poll' = poll /\ sweep' = sweep
    BY <1>2 DEF PostPhase1, PostAt, EarlySteps, PostQuiet, PostAlone
  <2>2. poll.step = "idle" /\ \A s \in Sweepers : sweep[s].step = "idle"
    BY <2>1 DEF IInv, EarlyAlone
  <2>3. PollLease' /\ \A s \in Sweepers : SweepLease(s)'
    BY <2>1, <2>2 DEF PollLease, SweepLease, Working, Compensating
  <2> QED
    BY <1>1, <2>3 DEF LeaseInv
<1>3. CASE ~PostPhase1
  <2>1. HostMoves
    BY <1>3, NextHostMoves
  <2>2. PollLease' /\ \A s \in Sweepers : SweepLease(s)'
    BY <1>3, <2>1, PollLeaseKept, SweepLeaseKept
  <2> QED
    BY <1>1, <2>2 DEF LeaseInv
<1> QED
  BY <1>2, <1>3

LEMMA LeaseInit ==
  ASSUME Init
  PROVE  LeaseInv
<1>1. HostLease
  BY DEF Init, HostLease, NoLog, Gone
<1>2. PollLease /\ \A s \in Sweepers : SweepLease(s)
  BY DEF Init, PollLease, SweepLease, IdlePoll, IdleSweep, Working, Compensating
<1> QED
  BY <1>1, <1>2 DEF LeaseInv

(* Who removes the VM, and what entitles it.                               *)
LEMMA Removals ==
  ASSUME IInv, [Next]_vars, vm.slot # NoVm, vm'.slot = NoVm
  PROVE  \/ Post \/ DeleteDestroy \/ PollCancel
         \/ \E s \in Sweepers : SweepTeardown(s) \/ SweepCompensate(s)
<1>1. /\ vm \in [slot : Vmids, power : Power, config : Ops]
      /\ vm' # vm
  BY DEF IInv, StateType, VmType
<1>2. CASE Owner
  <2>1. ~PowerScript
    <3>1. PowerScript => vm' = vm \/ \E p, c : vm' = [vm EXCEPT !.power = p, !.config = c]
      BY DEF PowerScript, KeepHost, hostVars
    <3> QED
      BY <1>1, <3>1
  <2>2. ~RestoreScript
    <3>1. RestoreScript => \/ vm' = vm \/ vm' = [vm EXCEPT !.power = "stopped"]
                           \/ \E p, c : vm' = [vm EXCEPT !.power = p, !.config = c]
      BY DEF RestoreScript, KeepHost, hostVars
    <3> QED
      BY <1>1, <3>1
  <2> QED
    BY <1>1, <1>2, <2>1, <2>2
       DEF Owner, ClaimPower, BeginSnapshot, BeginRestore, Claim, InvalidateDesktop, SnapshotScript,
           SettleAnswer, ReleaseRefused, RequestDelete, DeleteFinish, DeleteAbort, WorkerCrash,
           KeepHost, hostVars
<1>3. CASE Poll
  BY <1>1, <1>3 DEF Poll, PollRead, PollCheckpoint, PollCompleteDelete, PollLog, PollConverge,
                    KeepHost, hostVars
<1>4. ASSUME NEW s \in Sweepers, Sweep(s) PROVE SweepTeardown(s) \/ SweepCompensate(s)
  BY <1>1, <1>4 DEF Sweep, SweepRead, SweepClaim, SweepIntent, SweepLetGo, SweepObserve,
    SweepProbe, SweepRecheck, SweepApply, SweepFails, KeepHost, hostVars
<1> QED
  BY <1>1, <1>2, <1>3, <1>4
     DEF Next, vars, hostVars, InstallerFinishes, HelperFinishes, ForeignAppears, GoesStale

LEMMA RemovalEntitled ==
  ASSUME IInv, BaseInv, LeaseInv, [Next]_vars, vm.slot # NoVm, vm'.slot = NoVm
  PROVE  row.desired = "deleted" \/ row.op = 1
<1>1. CASE Post
  BY <1>1, PostEnded DEF LeaseInv, HostLease
<1>2. CASE DeleteDestroy
  BY <1>2 DEF DeleteDestroy, WorkerAt, IInv, WorkerShape, WorkerLease, Active, RowShape
<1>3. CASE PollCancel
  BY <1>3 DEF PollCancel, PollAt, BaseInv, PollBase, Doomed
<1>4. ASSUME NEW s \in Sweepers, SweepTeardown(s) PROVE row.desired = "deleted"
  BY <1>4 DEF SweepTeardown, Claimed, BaseInv, SweepBase, Doomed
<1>5. ASSUME NEW s \in Sweepers, SweepCompensate(s) PROVE row.op = 1
  <2>1. Compensating(s)
    BY <1>5, DeletePlanned DEF SweepCompensate, Planned, Compensating
  <2> QED
    BY <2>1 DEF LeaseInv, SweepLease
<1> QED
  BY <1>1, <1>2, <1>3, <1>4, <1>5, Removals

(* No rollback, compensation or teardown ever removes the VM of a launch   *)
(* that has already ended: without a delete request only the launch that   *)
(* still holds its lease does, unless a poll has overtaken it.             *)
(* (PostRollback, DeleteDestroy, PollCancel, SweepTeardown and             *)
(* SweepCompensate)                                                        *)
THEOREM OnlyTheLaunchRemoves == Spec => RemovedUnlessOvertaken
<1> DEFINE Inv == overtaken = {} => LeaseInv
<1>1. Init => Inv
  BY LeaseInit
<1>2. IInv /\ BaseInv /\ Inv /\ [Next]_vars => Inv'
  BY LeaseKept, GhostsGrow
<1>3. IInv /\ BaseInv /\ Inv /\ [Next]_vars => [RemovesVm => Entitled \/ overtaken # {}]_vars
  BY RemovalEntitled DEF RemovesVm, Entitled
<1> QED
  BY <1>1, <1>2, <1>3, HostInvariance, PTL DEF Spec, RemovedUnlessOvertaken
=============================================================================
