-------------------------- MODULE AgentOperations --------------------------
(***************************************************************************)
(* The life of one Proxmox agent computer: the hivra_agents row with its   *)
(* durable operation lease, and the VM it stands for on the host.          *)
(*                                                                         *)
(* Every stored function is one atomic compare-and-set on the row; every   *)
(* provider script holds the host's allocation lock (FD8) and is one step  *)
(* on the VM.  Between two of them a request can be interleaved with any   *)
(* other, can lose a reply, or can end.  The processes are the launching   *)
(* POST, one owner request (power, resize, snapshot, restore or DELETE),   *)
(* the GET poll, and the recovery sweeps, which take over an operation     *)
(* under its own id once it is ten minutes old.                            *)
(*                                                                         *)
(* Operation ids are counted: 1 is the launch.  Only operation 1 creates   *)
(* VMs, so the tags of "our" VM are those of operation 1.                  *)
(***************************************************************************)
EXTENDS Naturals, Sequences

CONSTANTS
  Slots,            \* VMIDs of the host
  Sweepers,         \* concurrent recovery sweeps
  Snapshots,        \* restore points the owner may create
  NoVm,             \* vmid is null, or no VM exists
  NoSnap,           \* operation_payload names no restore point
  Absent,           \* the provider holds no such snapshot
  Actions,          \* lifecycle actions the owner may request
  MaxOps            \* bound on the operations explored

ASSUME OpsAssumption ==
  /\ NoVm \notin Slots
  /\ NoSnap \notin Snapshots
  /\ Absent \notin Nat
  /\ Actions \subseteq {"start", "stop", "restart", "resize", "snapshot", "restore"}
  /\ MaxOps \in Nat \ {0}

VARIABLES
  row,        \* hivra_agents
  last,       \* operation ids handed out so far
  stale,      \* operation_started_at is at least ten minutes old
  exact,      \* sweeps whose copy of operation_started_at is the row's
  snaps,      \* hivra_agent_snapshots
  vm,         \* our VM on the host
  foreign,    \* VMIDs taken by VMs of others
  intent,     \* /var/lib/hivra/provision-operations/operation-1.selected
  installed,  \* result marker in the provision log
  log,        \* start log: operation receipt and result marker
  stored,     \* configuration of each provider snapshot
  post,       \* the launch request
  worker,     \* the owner's request in progress
  poll,       \* a GET of the computer
  sweep,      \* the recovery sweeps
  restored,   \* restore operations recorded as complete
  applied,    \* ghost: restore operations whose rollback the host performed
  woken,      \* ghost: a resize that was refused left the stopped VM running
  overtaken,  \* ghost: who removes a launch's VM although its lease was ended,
              \* or its result marker written, in the meantime
  unread      \* ghost: a sweep could not read an allocation intent that exists

dbVars == <<row, snaps, restored>>
clockVars == <<last, stale, exact>>
hostVars == <<vm, foreign, intent, installed, log, stored, applied, woken>>
ghostVars == <<overtaken, unread>>
vars == <<dbVars, clockVars, hostVars, ghostVars, post, worker, poll, sweep>>

StartLike == {"start", "restart", "resize"}
Lifecycle == StartLike \cup {"stop", "snapshot", "restore"}
Kinds == Lifecycle \cup {"provision", "delete", "none"}
Power == {"running", "stopped"}
Ops == 0 .. MaxOps
Markers == {"none", "ready", "failed"}

Gone == [slot |-> NoVm, power |-> "stopped", config |-> 0]
NoLog == [op |-> 0, result |-> "none"]
IdleWorker == [step |-> "idle", op |-> 0, kind |-> "none", vmid |-> NoVm, snap |-> NoSnap,
               power |-> "stopped"]
IdlePoll == [step |-> "idle", op |-> 0, kind |-> "none", vmid |-> NoVm,
             desired |-> "running"]
IdleSweep == [step |-> "idle", op |-> 0, kind |-> "none", vmid |-> NoVm, snap |-> NoSnap,
              status |-> "provisioning", desired |-> "running", power |-> "stopped",
              plan |-> <<>>]

(* The row POST inserts: the launch already owns its lease, in the stage    *)
(* that sets up tunnel access before any VM is asked for.                   *)
Init ==
  /\ row = [status |-> "provisioning", desired |-> "running", op |-> 1,
            kind |-> "provision", snap |-> NoSnap, vmid |-> NoVm,
            stage |-> "access", size |-> 0]
  /\ last = 1
  /\ stale = FALSE
  /\ exact = {}
  /\ snaps = [n \in Snapshots |-> [status |-> "none", op |-> 0, size |-> 0]]
  /\ vm = Gone
  /\ foreign = {}
  /\ intent = NoVm
  /\ installed = "none"
  /\ log = NoLog
  /\ stored = [n \in Snapshots |-> Absent]
  /\ post = [step |-> "tunnel", vmid |-> NoVm]
  /\ worker = IdleWorker
  /\ poll = IdlePoll
  /\ sweep = [s \in Sweepers |-> IdleSweep]
  /\ restored = {}
  /\ applied = {}
  /\ woken = FALSE
  /\ overtaken = {}
  /\ unread = FALSE

-----------------------------------------------------------------------------
(* The stored functions.  "ok" is their result: whether the row satisfied   *)
(* the compare-and-set.                                                     *)

(* Mutant: the kind survives its operation.                                 *)
ClearedKeepsKind(r) == [r EXCEPT !.op = 0, !.snap = NoSnap, !.stage = "none"]

Cleared(r) == [r EXCEPT !.op = 0, !.kind = "none", !.snap = NoSnap, !.stage = "none"]

KeepRow == UNCHANGED dbVars

Checkpoint(o) == row.op = o /\ row.desired = "running" /\ row.status # "deleted"

(* Mutant: the operation id is not compared.                                *)
ReleaseAny(o, markError, ok) ==
  /\ ok = (row.op # 0)
  /\ row' = IF ok
              THEN Cleared([row EXCEPT !.status = IF markError /\ row.desired # "deleted"
                                                    THEN "error" ELSE @])
              ELSE row
  /\ UNCHANGED <<snaps, restored>>

Release(o, markError, ok) ==
  /\ ok = (row.op = o)
  /\ row' = IF ok
              THEN Cleared([row EXCEPT !.status = IF markError /\ row.desired # "deleted"
                                                    THEN "error" ELSE @])
              ELSE row
  /\ UNCHANGED <<snaps, restored>>

(* Mutant: the intent is not compared.                                      *)
CompleteIgnoringIntent(o, expected, observed, ok) ==
  /\ ok = (row.op = o /\ row.status # "deleted")
  /\ row' = IF ok THEN Cleared([row EXCEPT !.status = observed, !.desired = observed])
                  ELSE row

CompleteOperation(o, expected, observed, ok) ==
  /\ ok = (row.op = o /\ row.desired = expected /\ row.status # "deleted")
  /\ row' = IF ok THEN Cleared([row EXCEPT !.status = observed, !.desired = observed])
                  ELSE row

CompleteRunning(o, kind, ok) ==
  /\ ok = (row.op = o /\ row.kind = kind /\ row.desired = "running"
           /\ row.status = "provisioning")
  /\ row' = IF ok THEN Cleared([row EXCEPT !.status = "running"]) ELSE row
  /\ UNCHANGED <<snaps, restored>>

(* A resize writes its requested size, which its operation id stands for.   *)
Continue(o, ok) ==
  /\ ok = (row.op = o /\ row.kind \in StartLike /\ row.desired = "running"
           /\ row.status # "deleted")
  /\ row' = IF ok
              THEN [row EXCEPT !.status = "provisioning",
                               !.size = IF row.kind = "resize" THEN o ELSE @]
              ELSE row
  /\ UNCHANGED <<snaps, restored>>

Persist(o, v, ok) ==
  /\ ok = (row.op = o /\ row.kind = "provision" /\ row.status = "provisioning")
  /\ row' = IF ok THEN [row EXCEPT !.vmid = v] ELSE row
  /\ UNCHANGED <<snaps, restored>>

DeletableBy(o) ==
  row.op = o /\ row.kind \in {"delete", "provision"} /\ row.desired = "deleted"

(* completeHivraAgentDelete: tunnel, DNS and key cleanup may fail first.    *)
CompleteDelete(o, ok) ==
  \/ /\ ok
     /\ DeletableBy(o)
     /\ row' = Cleared([row EXCEPT !.status = "deleted", !.vmid = NoVm])
     /\ snaps' = [n \in Snapshots |->
                    IF snaps[n].status = "none" THEN snaps[n]
                    ELSE [snaps[n] EXCEPT !.status = "deleted", !.op = 0]]
     /\ UNCHANGED restored
  \/ ~ok /\ KeepRow

SnapshotOwned(n, o, st) == snaps[n].status = st /\ snaps[n].op = o

SettleSnapshot(n, st) == snaps' = [snaps EXCEPT ![n].status = st, ![n].op = 0]

CompleteSnapshot(o, n, observed, ok) ==
  /\ CompleteOperation(o, observed, observed, ok)
  /\ IF ok THEN SnapshotOwned(n, o, "creating") /\ SettleSnapshot(n, "ready")
           ELSE UNCHANGED snaps
  /\ UNCHANGED restored

(* Mutant: the failure is recorded for the computer only.                   *)
FailSnapshotKeepsPoint(o, n, observed, ok) ==
  /\ IF row.op = o /\ row.kind = "snapshot"
       THEN CompleteOperation(o, row.desired, observed, ok)
       ELSE ~ok /\ UNCHANGED row
  /\ UNCHANGED <<snaps, restored>>

(* The function passes the row's own desired_state as the expected one.     *)
FailSnapshot(o, n, observed, ok) ==
  /\ IF row.op = o /\ row.kind = "snapshot"
       THEN CompleteOperation(o, row.desired, observed, ok)
       ELSE ~ok /\ UNCHANGED row
  /\ IF ok THEN SnapshotOwned(n, o, "creating") /\ SettleSnapshot(n, "failed")
           ELSE UNCHANGED snaps
  /\ UNCHANGED restored

CompleteRestore(o, n, ok) ==
  /\ ok = (SnapshotOwned(n, o, "restoring") /\ row.op = o /\ row.desired = "stopped")
  /\ row' = IF ok THEN Cleared([row EXCEPT !.status = "stopped", !.desired = "stopped",
                                           !.size = snaps[n].size])
                  ELSE row
  /\ IF ok THEN SettleSnapshot(n, "ready") ELSE UNCHANGED snaps
  /\ restored' = IF ok THEN restored \cup {o} ELSE restored

FailRestore(o, n, observed, ok) ==
  /\ IF SnapshotOwned(n, o, "restoring")
       THEN CompleteOperation(o, "stopped", observed, ok)
       ELSE ~ok /\ UNCHANGED row
  /\ IF ok THEN SettleSnapshot(n, "ready") ELSE UNCHANGED snaps
  /\ UNCHANGED restored

-----------------------------------------------------------------------------
(* Scripts on the host.                                                     *)

Ours(v) == v # NoVm /\ vm.slot = v

KeepHost == UNCHANGED hostVars

(* Destroying verifies both ownership tags, and that the VM is gone.        *)
Destroy(v) ==
  /\ v \notin foreign
  /\ vm' = IF Ours(v) THEN Gone ELSE vm
  /\ stored' = IF Ours(v) THEN [n \in Snapshots |-> Absent] ELSE stored
  /\ woken' = (woken /\ ~Ours(v))
  /\ UNCHANGED <<foreign, applied>>

(* The destroy scripts of DELETE, of the poll and of the sweep also remove  *)
(* the logs; POST's rollback script leaves them.  The sweep's script for a  *)
(* launch removes the allocation intent as well.                            *)
DropLogs == installed' = "none" /\ log' = NoLog

DestroyWithLogs(v) == Destroy(v) /\ DropLogs /\ UNCHANGED intent

DestroyAllocation(v) == Destroy(v) /\ DropLogs /\ intent' = NoVm

Rollback(v) == Destroy(v) /\ UNCHANGED <<intent, installed, log>>

(* The detached installer ends by appending its result marker, in general   *)
(* minutes after POST returned.                                             *)
InstallerFinishes ==
  /\ vm.slot # NoVm
  /\ installed = "none"
  /\ log.op = 0
  /\ installed' \in {"ready", "failed"}
  /\ UNCHANGED <<dbVars, clockVars, ghostVars, vm, foreign, intent, log, stored, applied, woken,
                 post, worker, poll, sweep>>

(* The start helper publishes its result once it has waited for the box.    *)
HelperFinishes ==
  /\ log.op # 0
  /\ log.result = "none"
  /\ \E result \in {"ready", "failed"} :
       /\ result = "ready" => vm.slot # NoVm /\ vm.power = "running"
       /\ log' = [log EXCEPT !.result = result]
  /\ UNCHANGED <<dbVars, clockVars, ghostVars, vm, foreign, intent, installed, stored, applied,
                 woken, post, worker, poll, sweep>>

(* Somebody else's VM takes a free VMID.                                    *)
ForeignAppears ==
  /\ \E v \in Slots \ (foreign \cup {vm.slot}) : foreign' = foreign \cup {v}
  /\ UNCHANGED <<dbVars, clockVars, ghostVars, vm, intent, installed, log, stored, applied, woken,
                 post, worker, poll, sweep>>

-----------------------------------------------------------------------------
(* POST: one launch.  Each step names the call it makes next.               *)

PostAt(step) == post.step = step

PostTo(step) == post' = [post EXCEPT !.step = step]

PostAlone == UNCHANGED <<clockVars, worker, poll, sweep>>

PostQuiet == PostAlone /\ UNCHANGED ghostVars

PostTunnel ==
  /\ PostAt("tunnel")
  /\ \E next \in {"allocate", "fail_access", "done"} : PostTo(next)
  /\ KeepRow /\ KeepHost /\ PostQuiet

PreAllocation ==
  /\ row.op = 1
  /\ row.kind = "provision"
  /\ row.desired = "running"
  /\ row.status = "provisioning"
  /\ row.vmid = NoVm
  /\ row.stage = "access"

PostFailBeforeAllocation ==
  /\ PostAt("fail_access")
  /\ row' = IF PreAllocation THEN Cleared([row EXCEPT !.status = "error"]) ELSE row
  /\ PostTo(IF PreAllocation THEN "done" ELSE "finish_delete")
  /\ UNCHANGED <<snaps, restored>> /\ KeepHost /\ PostQuiet

PostBeginAllocation ==
  /\ PostAt("allocate")
  /\ row' = IF PreAllocation THEN [row EXCEPT !.stage = "none"] ELSE row
  /\ PostTo(IF PreAllocation THEN "check_launch" ELSE "finish")
  /\ UNCHANGED <<snaps, restored>> /\ KeepHost /\ PostQuiet

PostCheckpoint ==
  /\ \E at \in {<<"check_launch", "phase1">>, <<"check_limit", "verify">>,
                <<"check_final", "done">>} :
       /\ PostAt(at[1])
       /\ PostTo(IF Checkpoint(1) THEN at[2] ELSE "finish")
  /\ KeepRow /\ KeepHost /\ PostQuiet

(* The allocator selects a free VMID, records its intent, and lets the      *)
(* guarded provisioner create the tagged VM.  It may stop after any of the  *)
(* three, and the reply may name the VMID or be lost.                       *)
PostPhase1 ==
  /\ PostAt("phase1")
  /\ \/ \E v \in Slots \ foreign :
          /\ intent' = v
          /\ \/ /\ vm' = [slot |-> v, power |-> "running", config |-> 0]
                /\ \E next \in {"persist", "persist_failed", "done"} :
                     post' = [step |-> next, vmid |-> v]
             \/ /\ UNCHANGED vm
                /\ \E next \in {"persist_failed", "done"} :
                     post' = [step |-> next, vmid |-> v]
     \/ PostTo("done") /\ UNCHANGED <<intent, vm>>
  /\ KeepRow /\ UNCHANGED <<foreign, installed, log, stored, applied, woken>> /\ PostQuiet

(* The identity is persisted after a failed kickoff too, result ignored;    *)
(* a lost reply is taken for a failure.                                     *)
PostPersist ==
  /\ post.step \in {"persist", "persist_failed"}
  /\ \E ok, heard \in BOOLEAN :
       /\ Persist(1, post.vmid, ok)
       /\ PostTo(IF PostAt("persist") /\ ok /\ heard THEN "check_limit" ELSE "rollback")
  /\ KeepHost /\ PostQuiet

(* Applying the CPU cap verifies the tags and drops the intent file.        *)
PostVerify ==
  /\ PostAt("verify")
  /\ \/ Ours(post.vmid) /\ intent' = NoVm /\ \E next \in {"check_final", "rollback_limit"} :
          PostTo(next)
     \/ UNCHANGED intent /\ PostTo("rollback_limit")
  /\ KeepRow /\ UNCHANGED <<vm, foreign, installed, log, stored, applied, woken>> /\ PostQuiet

(* Mutant: a rollback that could not be verified is followed by the         *)
(* terminal call all the same.                                              *)
PostRollbackUnverified ==
  /\ \E at \in {<<"rollback", "terminal">>, <<"rollback_limit", "terminal_error">>,
                <<"finish", "finish_delete">>} :
       /\ PostAt(at[1])
       /\ PostTo(at[2])
  /\ KeepHost /\ KeepRow /\ PostQuiet

(* Three rollbacks, which differ in the terminal call that follows; one     *)
(* that cannot be verified leaves the operation to the sweep.  A cancelled  *)
(* launch that never got a VMID has nothing to roll back.  The result marker *)
(* that the installer may have written meanwhile stays in the log.          *)
PostRollback ==
  /\ \E at \in {<<"rollback", "terminal">>, <<"rollback_limit", "terminal_error">>,
                <<"finish", "finish_delete">>} :
       /\ PostAt(at[1])
       /\ \/ /\ post.vmid # NoVm
             /\ Rollback(post.vmid)
             /\ overtaken' = IF Ours(post.vmid) /\ installed # "none"
                               THEN overtaken \cup {"post"} ELSE overtaken
             /\ \E next \in {at[2], "done"} : PostTo(next)
          \/ post.vmid # NoVm /\ KeepHost /\ PostTo("done") /\ UNCHANGED overtaken
          \/ post.vmid = NoVm /\ KeepHost /\ PostTo(at[2]) /\ UNCHANGED overtaken
  /\ KeepRow /\ UNCHANGED unread /\ PostAlone

PostCompleteDelete ==
  /\ post.step \in {"terminal", "finish_delete"}
  /\ \E ok \in BOOLEAN :
       /\ CompleteDelete(1, ok)
       /\ PostTo(CASE ok -> "drop_intent"
                   [] ~ok /\ PostAt("terminal") -> "terminal_error"
                   [] OTHER -> "done")
  /\ KeepHost /\ PostQuiet

PostRelease ==
  /\ PostAt("terminal_error")
  /\ \E ok \in BOOLEAN :
       /\ Release(1, TRUE, ok)
       /\ PostTo(IF ok THEN "drop_intent" ELSE "done")
  /\ KeepHost /\ PostQuiet

PostReleaseIntent ==
  /\ PostAt("drop_intent")
  /\ intent' \in {NoVm, intent}
  /\ PostTo("done")
  /\ KeepRow /\ UNCHANGED <<vm, foreign, installed, log, stored, applied, woken>> /\ PostQuiet

(* The request dies: its lease stays, nothing else happens.                 *)
PostCrash ==
  /\ post.step # "done"
  /\ PostTo("done")
  /\ KeepRow /\ KeepHost /\ PostQuiet

Post ==
  \/ PostTunnel \/ PostFailBeforeAllocation \/ PostBeginAllocation \/ PostCheckpoint
  \/ PostPhase1 \/ PostPersist \/ PostVerify \/ PostRollback \/ PostCompleteDelete
  \/ PostRelease \/ PostReleaseIntent \/ PostCrash

-----------------------------------------------------------------------------
(* The owner's requests.                                                    *)

WorkerAt(step) == worker.step = step

WorkerTo(step) == worker' = [worker EXCEPT !.step = step]

WorkerEnds == worker' = IdleWorker

WorkerQuiet == UNCHANGED <<clockVars, ghostVars, post, poll, sweep>>

(* A fresh operation takes the idle row; its timestamp is now.              *)
Claim(kind, desired, n, step) ==
  /\ WorkerAt("idle")
  /\ last < MaxOps
  /\ row.status # "deleted"
  /\ row.desired # "deleted"
  /\ row.op = 0
  /\ row.vmid # NoVm
  /\ last' = last + 1
  /\ stale' = FALSE
  /\ row' = [row EXCEPT !.op = last + 1, !.kind = kind, !.desired = desired, !.snap = n]
  /\ worker' = [step |-> step, op |-> last + 1, kind |-> kind, vmid |-> row.vmid,
                snap |-> n, power |-> "stopped"]
  /\ UNCHANGED <<exact, restored, hostVars, ghostVars, post, poll, sweep>>

(* Power actions first revoke the desktop capability; a resize does not.    *)
ClaimPower ==
  /\ \E kind \in Actions \ {"snapshot", "restore"} :
       Claim(kind, IF kind = "stop" THEN "stopped" ELSE "running", NoSnap,
             IF kind = "resize" THEN "script" ELSE "prepare")
  /\ UNCHANGED snaps

BeginSnapshot ==
  /\ "snapshot" \in Actions
  /\ row.status \in Power
  /\ row.desired = row.status
  /\ \E n \in Snapshots :
       /\ snaps[n].status = "none"
       /\ Claim("snapshot", row.desired, n, "script")
       /\ snaps' = [snaps EXCEPT ![n] = [status |-> "creating", op |-> last + 1,
                                         size |-> row.size]]

BeginRestore ==
  /\ "restore" \in Actions
  /\ row.status \in Power
  /\ \E n \in Snapshots :
       /\ snaps[n].status = "ready"
       /\ Claim("restore", "stopped", n, "script")
       /\ snaps' = [snaps EXCEPT ![n].status = "restoring", ![n].op = last + 1]

(* A desktop that cannot be invalidated releases the operation unsent.      *)
InvalidateDesktop ==
  /\ WorkerAt("prepare")
  /\ \/ WorkerTo("script") /\ KeepRow
     \/ WorkerEnds /\ \E ok \in BOOLEAN : Release(worker.op, FALSE, ok)
  /\ KeepHost /\ WorkerQuiet

(* How far a power or resize script can get before it stops: power state    *)
(* and size of the VM, whether the start log carries its receipt, and the   *)
(* step a received answer leads to ("idle": no verdict, lease retained).    *)
(* The start helper inherits FD8 until its qm start has returned.           *)
Reached(power, config, receipt, next) ==
  [power |-> power, config |-> config, receipt |-> receipt, next |-> next]

Outcomes(kind, o) ==
  CASE kind = "stop"    -> {Reached("stopped", vm.config, FALSE, "settle")}
    [] kind = "start"   -> {Reached(p, vm.config, TRUE, "settle") : p \in {"running", vm.power}}
    [] kind = "restart" -> {Reached("stopped", vm.config, FALSE, "idle")}
                           \cup {Reached(p, vm.config, TRUE, "settle") : p \in Power}
    [] kind = "resize"  -> {Reached(vm.power, vm.config, FALSE, "refused"),
                            Reached("running", vm.config, FALSE, "refused"),
                            Reached("stopped", vm.config, FALSE, "idle"),
                            Reached("stopped", o, FALSE, "idle"),
                            Reached("running", o, FALSE, "idle"),
                            Reached("running", o, TRUE, "settle")}

(* A resize that fails between shutdown and the new size starts the VM      *)
(* again, whether it found it running or not.                               *)
Wakes(out) == out.next = "refused" /\ out.power # vm.power

PowerScript ==
  /\ WorkerAt("script")
  /\ worker.kind \in StartLike \cup {"stop"}
  /\ \/ WorkerEnds /\ KeepHost
     \/ /\ Ours(worker.vmid)
        /\ \E out \in Outcomes(worker.kind, worker.op) :
             /\ vm' = [vm EXCEPT !.power = out.power, !.config = out.config]
             /\ log' = IF out.receipt THEN [op |-> worker.op, result |-> "none"] ELSE log
             /\ installed' = IF out.receipt THEN "none" ELSE installed
             /\ woken' = (out.power = "running" /\ (woken \/ Wakes(out)))
             /\ WorkerEnds \/ (out.next # "idle" /\ WorkerTo(out.next))
        /\ UNCHANGED <<foreign, intent, stored, applied>>
  /\ KeepRow /\ WorkerQuiet

SnapshotScript ==
  /\ WorkerAt("script")
  /\ worker.kind = "snapshot"
  /\ \/ WorkerEnds /\ KeepHost
     \/ /\ Ours(worker.vmid)
        /\ stored' = [stored EXCEPT ![worker.snap] = vm.config]
        /\ WorkerEnds \/ worker' = [worker EXCEPT !.step = "settle", !.power = vm.power]
        /\ UNCHANGED <<vm, foreign, intent, installed, log, applied, woken>>
  /\ KeepRow /\ WorkerQuiet

(* Mutant: a rollback that failed is answered like one that succeeded.      *)
RestoreScriptUnchecked ==
  /\ WorkerAt("script")
  /\ worker.kind = "restore"
  /\ Ours(worker.vmid)
  /\ vm' = [vm EXCEPT !.power = "stopped"]
  /\ WorkerTo("settle")
  /\ UNCHANGED <<foreign, intent, installed, log, stored, applied, woken>>
  /\ KeepRow /\ WorkerQuiet

(* The VM is stopped first; the rollback itself may then fail.              *)
RestoreScript ==
  /\ WorkerAt("script")
  /\ worker.kind = "restore"
  /\ \/ WorkerEnds /\ KeepHost
     \/ /\ Ours(worker.vmid)
        /\ stored[worker.snap] # Absent
        /\ \/ /\ vm' = [vm EXCEPT !.power = "stopped"]
              /\ WorkerEnds
              /\ UNCHANGED applied
           \/ /\ vm' = [vm EXCEPT !.power = "stopped", !.config = stored[worker.snap]]
              /\ applied' = applied \cup {worker.op}
              /\ WorkerEnds \/ WorkerTo("settle")
        /\ woken' = FALSE
        /\ UNCHANGED <<foreign, intent, installed, log, stored>>
  /\ KeepRow /\ WorkerQuiet

(* The answer is recorded.  A superseded stop gives its lease back; every   *)
(* other superseded completion keeps it for the sweep.                      *)
SettleAnswer ==
  /\ WorkerAt("settle")
  /\ \E ok \in BOOLEAN :
       CASE worker.kind = "stop" ->
              /\ CompleteOperation(worker.op, "stopped", "stopped", ok)
              /\ UNCHANGED <<snaps, restored>>
              /\ IF ok THEN WorkerEnds ELSE WorkerTo("refused")
         [] worker.kind \in StartLike -> Continue(worker.op, ok) /\ WorkerEnds
         [] worker.kind = "snapshot" ->
              CompleteSnapshot(worker.op, worker.snap, worker.power, ok) /\ WorkerEnds
         [] worker.kind = "restore" ->
              CompleteRestore(worker.op, worker.snap, ok) /\ WorkerEnds
  /\ KeepHost /\ WorkerQuiet

ReleaseRefused ==
  /\ WorkerAt("refused")
  /\ \E ok \in BOOLEAN : Release(worker.op, FALSE, ok)
  /\ WorkerEnds
  /\ KeepHost /\ WorkerQuiet

(* DELETE: durable intent at once, the lease only when it is free.          *)
RequestDelete ==
  /\ row.status # "deleted"
  /\ \/ /\ row.op # 0
        /\ row.desired # "deleted"
        /\ row' = [row EXCEPT !.desired = "deleted"]
        /\ UNCHANGED <<clockVars, worker>>
     \/ /\ row.op = 0
        /\ WorkerAt("idle")
        /\ last < MaxOps
        /\ last' = last + 1
        /\ stale' = FALSE
        /\ row' = [row EXCEPT !.desired = "deleted", !.op = last + 1, !.kind = "delete"]
        /\ worker' = [IdleWorker EXCEPT !.step = IF row.vmid = NoVm THEN "finish" ELSE "destroy",
                                        !.op = last + 1, !.kind = "delete", !.vmid = row.vmid]
        /\ UNCHANGED exact
  /\ UNCHANGED <<snaps, restored, hostVars, ghostVars, post, poll, sweep>>

DeleteDestroy ==
  /\ WorkerAt("destroy")
  /\ \/ DestroyWithLogs(worker.vmid) /\ \E next \in {"finish", "abort"} : WorkerTo(next)
     \/ KeepHost /\ WorkerTo("abort")
  /\ KeepRow /\ WorkerQuiet

DeleteFinish ==
  /\ WorkerAt("finish")
  /\ \E ok \in BOOLEAN :
       CompleteDelete(worker.op, ok) /\ IF ok THEN WorkerEnds ELSE WorkerTo("abort")
  /\ KeepHost /\ WorkerQuiet

(* Every failure of DELETE gives its lease back so that it can be retried.  *)
DeleteAbort ==
  /\ WorkerAt("abort")
  /\ \E ok \in BOOLEAN : Release(worker.op, TRUE, ok)
  /\ WorkerEnds
  /\ KeepHost /\ WorkerQuiet

WorkerCrash ==
  /\ ~WorkerAt("idle")
  /\ WorkerEnds
  /\ KeepRow /\ KeepHost /\ WorkerQuiet

Owner ==
  \/ ClaimPower \/ BeginSnapshot \/ BeginRestore \/ InvalidateDesktop \/ PowerScript
  \/ SnapshotScript \/ RestoreScript \/ SettleAnswer \/ ReleaseRefused \/ RequestDelete
  \/ DeleteDestroy \/ DeleteFinish \/ DeleteAbort \/ WorkerCrash

-----------------------------------------------------------------------------
(* GET: converges a provisioning row from the host's result markers, which  *)
(* it reads without taking the host lock.                                   *)

PollAt(step) == poll.step = step

PollTo(step) == poll' = [poll EXCEPT !.step = step]

PollEnds == poll' = IdlePoll

PollAlone == UNCHANGED <<clockVars, post, worker, sweep>>

PollQuiet == PollAlone /\ UNCHANGED ghostVars

PollRead ==
  /\ PollAt("idle")
  /\ row.status = "provisioning"
  /\ row.vmid # NoVm
  /\ row.kind \in StartLike \cup {"provision"}
  /\ poll' = [step |-> "check", op |-> row.op, kind |-> row.kind, vmid |-> row.vmid,
              desired |-> row.desired]
  /\ KeepRow /\ KeepHost /\ PollQuiet

(* Mutant: every superseded launch is taken for a cancelled one.            *)
PollCheckpointCancels ==
  /\ PollAt("check")
  /\ IF Checkpoint(poll.op) THEN PollTo("log")
     ELSE IF poll.kind = "provision" THEN PollTo("cancel")
     ELSE PollEnds
  /\ KeepRow /\ KeepHost /\ PollQuiet

PollCheckpoint ==
  /\ PollAt("check")
  /\ IF Checkpoint(poll.op) THEN PollTo("log")
     ELSE IF poll.desired = "deleted" /\ poll.kind = "provision" THEN PollTo("cancel")
     ELSE PollEnds
  /\ KeepRow /\ KeepHost /\ PollQuiet

PollCancel ==
  /\ PollAt("cancel")
  /\ \/ DestroyWithLogs(poll.vmid) /\ (PollTo("cancel_row") \/ PollEnds)
     \/ KeepHost /\ PollEnds
  /\ KeepRow /\ PollQuiet

PollCompleteDelete ==
  /\ PollAt("cancel_row")
  /\ \E ok \in BOOLEAN : CompleteDelete(poll.op, ok)
  /\ PollEnds
  /\ KeepHost /\ PollQuiet

(* A ready result needs the operation's receipt (or the VM's tags) and may  *)
(* still fail validation; a failed result is taken as it is.                *)
MarkerFor(kind) == IF kind = "provision" THEN installed ELSE log.result

PollLog ==
  /\ PollAt("log")
  /\ \/ PollEnds
     \/ /\ MarkerFor(poll.kind) = "ready"
        /\ IF poll.kind = "provision" THEN Ours(poll.vmid) ELSE log.op = poll.op
        /\ PollTo("running") \/ PollTo("error")
     \/ MarkerFor(poll.kind) = "failed" /\ PollTo("error")
  /\ KeepRow /\ KeepHost /\ PollQuiet

(* The poll ends a launch whose POST has yet to return, or that a sweep     *)
(* which took it over is about to undo: both share its operation id.        *)
Overtaken ==
  IF poll.kind # "provision" THEN {}
  ELSE {who \in {"post", "sweep"} :
          IF who = "post" THEN post.step # "done"
          ELSE PollAt("error") /\ \E s \in Sweepers : sweep[s].step \in {"claimed", "apply"}}

PollConverge ==
  /\ \E ok \in BOOLEAN :
       /\ \/ PollAt("running") /\ CompleteRunning(poll.op, poll.kind, ok)
          \/ PollAt("error") /\ Release(poll.op, TRUE, ok)
       /\ overtaken' = IF ok THEN overtaken \cup Overtaken ELSE overtaken
  /\ PollEnds
  /\ KeepHost /\ UNCHANGED unread /\ PollAlone

Poll ==
  \/ PollRead \/ PollCheckpoint \/ PollCancel \/ PollCompleteDelete \/ PollLog
  \/ PollConverge

-----------------------------------------------------------------------------
(* The recovery sweep.  It works on its own copy of the row, takes the      *)
(* operation over by renewing its exact timestamp, looks at the host, and   *)
(* carries out a plan of stored functions: the first that loses its         *)
(* compare-and-set ends it.                                                 *)

SweepTo(s, r) == sweep' = [sweep EXCEPT ![s] = r]

SweepEnds(s) == SweepTo(s, IdleSweep)

SweepPlans(s, plan, power) ==
  SweepTo(s, [sweep[s] EXCEPT !.step = "apply", !.plan = plan, !.power = power])

SweepAlone == UNCHANGED <<last, post, worker, poll>>

SweepQuiet == SweepAlone /\ UNCHANGED ghostVars

KeepClock == UNCHANGED <<stale, exact>>

Claimed(s) == sweep[s].step = "claimed"

Superseded(s) == sweep[s].desired = "deleted"

(* Ten minutes pass.  Requests are bounded well below that: 420 s for POST, *)
(* 300 s for an action or a sweep, 120 s for DELETE.                        *)
GoesStale ==
  /\ row.op # 0
  /\ ~stale
  /\ row.op = 1 => post.step = "done"
  /\ worker.op # row.op
  /\ \A s \in Sweepers : sweep[s].step \in {"idle", "read"}
  /\ stale' = TRUE
  /\ UNCHANGED <<dbVars, last, exact, hostVars, ghostVars, post, worker, poll, sweep>>

(* Mutant: every launch without a VMID is skipped.                          *)
SweepReadSkips(s) ==
  /\ sweep[s] = IdleSweep
  /\ row.op # 0
  /\ stale
  /\ ~(row.kind = "provision" /\ row.vmid = NoVm)
  /\ SweepTo(s, [step |-> "read", op |-> row.op, kind |-> row.kind, vmid |-> row.vmid,
                 snap |-> row.snap, status |-> row.status, desired |-> row.desired,
                 power |-> "stopped", plan |-> <<>>])
  /\ exact' = exact \cup {s}
  /\ KeepRow /\ KeepHost /\ UNCHANGED stale /\ SweepQuiet

(* Interrupted access setup is never recovered: its outcome is unknown.     *)
SweepRead(s) ==
  /\ sweep[s] = IdleSweep
  /\ row.op # 0
  /\ stale
  /\ ~(row.kind = "provision" /\ row.vmid = NoVm /\ row.stage = "access")
  /\ SweepTo(s, [step |-> "read", op |-> row.op, kind |-> row.kind, vmid |-> row.vmid,
                 snap |-> row.snap, status |-> row.status, desired |-> row.desired,
                 power |-> "stopped", plan |-> <<>>])
  /\ exact' = exact \cup {s}
  /\ KeepRow /\ KeepHost /\ UNCHANGED stale /\ SweepQuiet

(* Mutant: the timestamp is not compared.                                   *)
RenewableById(s) == row.op = sweep[s].op /\ row.status # "deleted"

(* The sweep's copy was ten minutes old when read; it must still be the     *)
(* row's, operation id and timestamp.                                       *)
Renewable(s) ==
  /\ row.op = sweep[s].op
  /\ s \in exact
  /\ row.status # "deleted"

SweepClaim(s) ==
  /\ sweep[s].step = "read"
  /\ IF Renewable(s)
       THEN /\ stale' = FALSE
            /\ exact' = {}
            /\ SweepTo(s, [sweep[s] EXCEPT !.step = "claimed"])
       ELSE SweepEnds(s) /\ exact' = exact \ {s} /\ UNCHANGED stale
  /\ KeepRow /\ KeepHost /\ SweepQuiet

(* A launch that lost its VMID: the intent file names it.  Any failure to   *)
(* read or persist it counts as "no allocation".                            *)
SweepIntent(s) ==
  /\ Claimed(s)
  /\ sweep[s].kind = "provision"
  /\ sweep[s].vmid = NoVm
  /\ \/ /\ intent # NoVm
        /\ \E ok \in BOOLEAN :
             /\ Persist(sweep[s].op, intent, ok)
             /\ IF ok THEN SweepTo(s, [sweep[s] EXCEPT !.vmid = intent])
                      ELSE SweepPlans(s, <<IF Superseded(s) THEN "delete" ELSE "error">>, "stopped")
        /\ UNCHANGED unread
     \/ /\ SweepPlans(s, <<IF Superseded(s) THEN "delete" ELSE "error">>, "stopped")
        /\ unread' = (unread \/ intent # NoVm)
        /\ KeepRow
  /\ KeepHost /\ KeepClock /\ UNCHANGED overtaken /\ SweepAlone

(* A delete was requested before the sweep read the row.  A launch or a     *)
(* delete is torn down; any other operation is let go once the probe has    *)
(* waited for the host lock and seen our VM, or none.                       *)
SweepTeardown(s) ==
  /\ Claimed(s)
  /\ Superseded(s)
  /\ sweep[s].kind \in {"delete", "provision"}
  /\ \/ /\ sweep[s].vmid # NoVm
        /\ IF sweep[s].kind = "provision" THEN DestroyAllocation(sweep[s].vmid)
                                          ELSE DestroyWithLogs(sweep[s].vmid)
        /\ SweepPlans(s, <<"delete">>, "stopped") \/ SweepEnds(s)
     \/ /\ sweep[s].kind = "delete"
        /\ sweep[s].vmid = NoVm
        /\ SweepPlans(s, <<"delete">>, "stopped")
        /\ KeepHost
  /\ KeepRow /\ KeepClock /\ SweepQuiet

SweepLetGo(s) ==
  /\ Claimed(s)
  /\ Superseded(s)
  /\ sweep[s].kind \in Lifecycle
  /\ sweep[s].vmid \notin foreign
  /\ SweepPlans(s, <<"release">>, "stopped")
  /\ KeepRow /\ KeepHost /\ KeepClock /\ SweepQuiet

(* Mutant: the provider is not asked for the snapshot.                      *)
SnapshotPlanAssumed(s) ==
  IF sweep[s].kind = "snapshot" THEN <<"snapshot">> ELSE <<"restore_failed">>

(* The restore counts as applied when the stopped VM's configuration is the *)
(* snapshot's; the restore receipt on the host is not consulted.            *)
SnapshotPlan(s) ==
  LET n == sweep[s].snap IN
  IF sweep[s].kind = "snapshot"
    THEN IF SnapshotOwned(n, sweep[s].op, "creating") /\ stored[n] # Absent
           THEN <<"snapshot">> ELSE <<"snapshot_failed">>
    ELSE IF /\ SnapshotOwned(n, sweep[s].op, "restoring")
            /\ vm.power = "stopped"
            /\ stored[n] = vm.config
           THEN <<"restore">> ELSE <<"restore_failed">>

SweepObserve(s) ==
  /\ Claimed(s)
  /\ ~Superseded(s)
  /\ sweep[s].kind \in {"snapshot", "restore"}
  /\ Ours(sweep[s].vmid)
  /\ SweepPlans(s, SnapshotPlan(s), vm.power)
  /\ KeepRow /\ KeepHost /\ KeepClock /\ SweepQuiet

(* Mutant: what was asked for is taken for what happened.                   *)
SettlePlanAssumed(s) ==
  IF sweep[s].kind = "stop" THEN <<"observed">> ELSE <<"continue", "running">>

(* Mutant: a finished resize is settled without its size.                   *)
SettlePlanSizeless(s) == IF Ours(sweep[s].vmid) THEN <<"observed">> ELSE <<"error">>

(* settleStaleLifecycleFromProviderState, and its copies for operations     *)
(* that never reached their receipt: record what the provider shows.        *)
SettlePlan(s) ==
  IF ~Ours(sweep[s].vmid) THEN <<"error">>
  ELSE IF sweep[s].kind = "resize" /\ vm.config = sweep[s].op
    THEN <<"continue", "observed">> ELSE <<"observed">>

(* flipToRunning *)
RunningPlan(s) ==
  IF sweep[s].kind # "provision" /\ sweep[s].status # "provisioning"
    THEN <<"continue", "running">> ELSE <<"running">>

Healthy(s) == Ours(sweep[s].vmid) /\ vm.power = "running"

ProbePlans(s) ==
  LET kind == sweep[s].kind
      marker == MarkerFor(kind)
      unready == IF kind \in StartLike THEN SettlePlan(s)
                 ELSE IF ~Ours(sweep[s].vmid) THEN <<"error">>
                 ELSE IF marker = "failed" THEN <<"compensate">>
                 ELSE <<>>
  IN IF sweep[s].vmid \in foreign THEN {<<"error">>}
     ELSE IF kind = "stop" \/ (kind \in StartLike /\ log.op # sweep[s].op) THEN {SettlePlan(s)}
     ELSE IF marker = "ready" THEN {RunningPlan(s), <<>>}
     ELSE {unready} \cup (IF Healthy(s) THEN {RunningPlan(s)} ELSE {})

SweepProbe(s) ==
  /\ Claimed(s)
  /\ ~Superseded(s)
  /\ sweep[s].kind \in StartLike \cup {"stop", "provision"}
  /\ sweep[s].vmid # NoVm
  /\ \E plan \in ProbePlans(s) :
       IF plan = <<>> THEN SweepEnds(s) ELSE SweepPlans(s, plan, vm.power)
  /\ KeepRow /\ KeepHost /\ KeepClock /\ SweepQuiet

Planned(s, call) == sweep[s].step = "apply" /\ Head(sweep[s].plan) = call

(* compensateFailedOwnedProvision *)
SweepCompensate(s) ==
  /\ Planned(s, "compensate")
  /\ DestroyAllocation(sweep[s].vmid)
  /\ SweepPlans(s, <<"checkpoint">>, "stopped") \/ SweepEnds(s)
  /\ KeepRow /\ KeepClock /\ SweepQuiet

SweepRecheck(s) ==
  /\ Planned(s, "checkpoint")
  /\ SweepPlans(s, IF Checkpoint(sweep[s].op) THEN <<"error">> ELSE <<"delete">>, "stopped")
  /\ KeepRow /\ KeepHost /\ KeepClock /\ SweepQuiet

Applies(s, call, ok) ==
  LET o == sweep[s].op
      n == sweep[s].snap
      power == sweep[s].power
  IN \/ call = "delete" /\ CompleteDelete(o, ok)
     \/ call = "release" /\ Release(o, FALSE, ok)
     \/ call = "error" /\ Release(o, TRUE, ok)
     \/ call = "running" /\ CompleteRunning(o, sweep[s].kind, ok)
     \/ call = "continue" /\ Continue(o, ok)
     \/ /\ call = "observed"
        /\ CompleteOperation(o, IF sweep[s].kind = "stop" THEN "stopped" ELSE "running", power, ok)
        /\ UNCHANGED <<snaps, restored>>
     \/ call = "snapshot" /\ CompleteSnapshot(o, n, power, ok)
     \/ call = "snapshot_failed" /\ FailSnapshot(o, n, power, ok)
     \/ call = "restore" /\ CompleteRestore(o, n, ok)
     \/ call = "restore_failed" /\ FailRestore(o, n, power, ok)

SweepApply(s) ==
  /\ sweep[s].step = "apply"
  /\ \E ok \in BOOLEAN :
       /\ Applies(s, Head(sweep[s].plan), ok)
       /\ IF ok /\ Tail(sweep[s].plan) # <<>>
            THEN SweepTo(s, [sweep[s] EXCEPT !.plan = Tail(@)])
            ELSE SweepEnds(s)
  /\ KeepHost /\ KeepClock /\ SweepQuiet

(* Authority unavailable, a script that fails, or the sweep dies.           *)
SweepFails(s) ==
  /\ sweep[s].step # "idle"
  /\ SweepEnds(s)
  /\ exact' = exact \ {s}
  /\ KeepRow /\ KeepHost /\ UNCHANGED stale /\ SweepQuiet

Sweep(s) ==
  \/ SweepRead(s) \/ SweepClaim(s) \/ SweepIntent(s) \/ SweepTeardown(s) \/ SweepLetGo(s)
  \/ SweepObserve(s) \/ SweepProbe(s) \/ SweepCompensate(s) \/ SweepRecheck(s)
  \/ SweepApply(s) \/ SweepFails(s)

Next ==
  \/ InstallerFinishes \/ HelperFinishes \/ ForeignAppears \/ GoesStale
  \/ Post \/ Owner \/ Poll
  \/ \E s \in Sweepers : Sweep(s)

Spec == Init /\ [][Next]_vars

(* Time passes and requests end; a sweep runs again and again, and neither  *)
(* the host nor the access cleanup fails it forever.                        *)
Fairness ==
  /\ WF_vars(GoesStale) /\ WF_vars(PostCrash) /\ WF_vars(WorkerCrash)
  /\ \A s \in Sweepers :
       /\ WF_vars(SweepRead(s)) /\ WF_vars(SweepFails(s))
       /\ SF_vars(SweepClaim(s)) /\ SF_vars(SweepIntent(s))
       /\ SF_vars(SweepTeardown(s) /\ sweep'[s].step = "apply")
       /\ SF_vars(SweepLetGo(s))
       /\ SF_vars(SweepApply(s) /\ row'.op = 0)

FairSpec == Spec /\ Fairness

-----------------------------------------------------------------------------
(* Properties.                                                              *)

Calls == {"delete", "release", "error", "running", "continue", "observed", "snapshot",
          "snapshot_failed", "restore", "restore_failed", "compensate", "checkpoint"}
PostSteps == {"tunnel", "fail_access", "allocate", "check_launch", "phase1", "persist",
              "persist_failed", "rollback", "terminal", "terminal_error", "check_limit",
              "verify", "rollback_limit", "check_final", "finish", "finish_delete",
              "drop_intent", "done"}
WorkerSteps == {"idle", "prepare", "script", "settle", "refused", "destroy", "finish", "abort"}
PollSteps == {"idle", "check", "log", "cancel", "cancel_row", "running", "error"}
Statuses == Power \cup {"provisioning", "error", "deleted"}
Desires == Power \cup {"deleted"}
Vmids == Slots \cup {NoVm}
Points == Snapshots \cup {NoSnap}

RowType == row \in [status : Statuses, desired : Desires, op : Ops, kind : Kinds,
                    snap : Points, vmid : Vmids, stage : {"access", "none"}, size : Ops]
SnapsType ==
  snaps \in [Snapshots -> [status : {"none", "creating", "ready", "failed", "restoring", "deleted"},
                           op : Ops, size : Ops]]
VmType == vm \in [slot : Vmids, power : Power, config : Ops]
HostType ==
  /\ foreign \subseteq Slots
  /\ intent \in Vmids
  /\ installed \in Markers
  /\ log \in [op : Ops, result : Markers]
  /\ stored \in [Snapshots -> Ops \cup {Absent}]
  /\ applied \subseteq Ops
GhostType ==
  /\ woken \in BOOLEAN
  /\ overtaken \subseteq {"post", "sweep"}
  /\ unread \in BOOLEAN
PostType == post \in [step : PostSteps, vmid : Vmids]
WorkerType == worker \in [step : WorkerSteps, op : Ops, kind : Kinds, vmid : Vmids,
                          snap : Points, power : Power]
PollType == poll \in [step : PollSteps, op : Ops, kind : Kinds, vmid : Vmids,
                      desired : Desires]
SweepType == sweep \in [Sweepers -> [step : {"idle", "read", "claimed", "apply"}, op : Ops,
                                     kind : Kinds, vmid : Vmids, snap : Points,
                                     status : Statuses, desired : Desires, power : Power,
                                     plan : Seq(Calls)]]

StateType ==
  /\ row.op = 0 <=> row.kind = "none"
  /\ RowType /\ SnapsType /\ VmType /\ HostType /\ PostType /\ WorkerType /\ PollType
  /\ SweepType
  /\ last \in Ops \ {0}
  /\ stale \in BOOLEAN
  /\ exact \subseteq Sweepers
  /\ restored \subseteq Ops

(* Type correctness of the rows, the host and the four kinds of process; an *)
(* operation id and its kind are null together.                             *)
TypeOK == StateType /\ GhostType

(* No VM is lost: as long as our VM exists the row is not deleted, and      *)
(* either names the VM's VMID or still holds the launch operation whose     *)
(* intent or tags lead to it.  (persist, compensate, completeDelete and the *)
(* sweep's markError together; route.ts, recover-stuck-provisioning.ts)     *)
VmAccounted ==
  vm.slot # NoVm =>
    /\ row.status # "deleted"
    /\ row.vmid = vm.slot \/ (row.op = 1 /\ (intent = vm.slot \/ post.step # "done"))

(* What the code keeps of it: a VM can only be lost by a sweep that could   *)
(* not read the intent which names it, and took that for "no allocation".   *)
(* (recoverPersistedProvisionIntent, recover-stuck-provisioning.ts)         *)
VmAccountedUnlessUnread == ~unread => VmAccounted

IdleRow == row.op = 0 /\ row.status \in Power /\ row.status = row.desired

(* When nothing is in progress and the row claims to have converged, the    *)
(* host agrees: the VM exists, in that power state and with that size.      *)
(* (every terminal compare-and-set of the action route, poll and sweep; a   *)
(* launch ended under its own removal is RemovedUnderLease's concern)       *)
IdleMatchesHost ==
  overtaken = {} /\ IdleRow =>
    /\ Ours(row.vmid)
    /\ vm.power = row.status
    /\ vm.config = row.size

(* What the code keeps of it: the row is right about the VM and its size,   *)
(* and wrong about its power only by showing "stopped" for a VM that a      *)
(* refused resize has started.                                              *)
IdleExplained ==
  overtaken = {} /\ IdleRow =>
    /\ Ours(row.vmid)
    /\ vm.power = row.status \/ (woken /\ row.status = "stopped")
    /\ vm.config = row.size

(* A requested deletion is never taken back: no completion, release or      *)
(* recovery turns desired_state from deleted into something else.           *)
DeleteDurable == [][row.desired = "deleted" => row'.desired = "deleted"]_vars

RemovesVm == vm.slot # NoVm /\ vm'.slot = NoVm
Entitled == row.desired = "deleted" \/ row.op = 1

(* Without a delete request, only the launch that still holds its lease may *)
(* remove its own VM: never a request whose operation has already ended.    *)
RemovedUnderLease == [][RemovesVm => Entitled]_vars

(* The same, of the recovery sweep alone: what POST removes is excused.     *)
SweepRemovesUnderLease == [][RemovesVm => Entitled \/ "post" \in overtaken]_vars

(* What the code keeps of it: whoever removes a VM without the lease lost   *)
(* it to a poll that ended the launch while the removal was on its way.     *)
(* (rollbackVm and finishCancelledProvision of agents/route.ts,             *)
(* compensateFailedOwnedProvision of recover-stuck-provisioning.ts)         *)
RemovedUnlessOvertaken == [][RemovesVm => Entitled \/ overtaken # {}]_vars

(* A restore point that is being created or restored belongs to the         *)
(* operation that holds the lease, unless a delete superseded it.           *)
SnapshotLeased ==
  \A n \in Snapshots :
    snaps[n].status \in {"creating", "restoring"} =>
      row.op = snaps[n].op \/ row.desired = "deleted"

(* A restore point offered to the owner exists at the provider as long as   *)
(* the VM does.                                                             *)
ReadySnapshotStored ==
  \A n \in Snapshots :
    snaps[n].status \in {"ready", "restoring"} /\ vm.slot # NoVm => stored[n] # Absent

(* A restore recorded as complete has really rolled the disk back.          *)
RestoreApplied == restored \subseteq applied

(* What the code keeps of it: only a sweep, which infers the rollback from  *)
(* the configuration, records one that did not happen; the request that ran *)
(* the script never does.  (the restore action of action/route.ts)          *)
RestoreRecorded == [][sweep' = sweep => restored' \subseteq restored \cup applied]_vars

(* At most one sweep has taken an operation over: the renewed timestamp     *)
(* shuts out every other copy of the row.                                   *)
OneReconciler ==
  \A s, t \in Sweepers :
    sweep[s].step \in {"claimed", "apply"} /\ sweep[t].step \in {"claimed", "apply"} => s = t

(* Once a delete is requested, the operation in its way ends, whatever      *)
(* crashed: only an access setup that was cut short is left to a human, and *)
(* a VMID that somebody else has taken.                                     *)
DeleteSettles ==
  row.desired = "deleted" /\ row.op # 0 /\ row.stage # "access"
    ~> row.op = 0 \/ row.vmid \in foreign \/ intent \in foreign

(* A request that acts on the host owns the lease throughout.               *)
LeaseOwner == worker.step # "idle" => row.op = worker.op /\ row.kind = worker.kind
=============================================================================
