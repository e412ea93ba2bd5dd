-------------------------- MODULE InfraConnection --------------------------
(***************************************************************************)
(* Authority of one owner-supplied infrastructure connection (a Proxmox    *)
(* host reached over SSH) and of the agent computers bound to it.          *)
(*                                                                         *)
(* The rows infrastructure_connections, deployment_targets and             *)
(* hivra_agents live in Postgres.  Every stored function locks the         *)
(* connection row (FOR UPDATE, or FOR KEY SHARE in the launch, claim and   *)
(* trigger paths) before it reads the rows it decides on, so one stored    *)
(* function is one action here.  What the dashboard does between two       *)
(* stored functions (loading credentials, running SSH commands on the      *)
(* host) is a separate action of a run: a preflight or preparation request *)
(* with a fresh run id.                                                    *)
(***************************************************************************)
EXTENDS Naturals

CONSTANTS
  Agents,          \* hivra_agents rows the owner may create
  Targets,         \* Proxmox nodes the host may report as its identity
  Runs,            \* preflight / preparation requests (run ids)
  NoRun,           \* preflight_run_id is null
  NoTarget,        \* p_target is null, or deployment_target_id is null
  MaxRevision      \* bound on revision changes explored

ASSUME ConnAssumption ==
  /\ NoRun \notin Runs
  /\ NoTarget \notin Targets
  /\ MaxRevision \in Nat \ {0}

VARIABLES
  status,          \* infrastructure_connections.status; "absent": row deleted
  revision,        \* .revision
  lease,           \* .preflight_run_id
  expired,         \* .preflight_lease_expires_at is in the past
  pendingRebind,   \* .pending_binding_rebind_from_revision, 0 for null
  evidence,        \* deployment_targets.evidence_connection_revision, 0: no row
  ready,           \* targets that are ready, launchReady and hardware-vm
  agentState,      \* "none" before launch, "live", "deleted"
  agentRevision,   \* hivra_agents.infrastructure_connection_revision
  agentTarget,     \* hivra_agents.deployment_target_id
  hasVm,           \* hivra_agents.vmid is not null
  operation,       \* hivra_agents.operation_kind, "none" for null
  fresh,           \* operation_started_at is less than ten minutes old
  desiredDeleted,  \* hivra_agents.desired_state = 'deleted'
  tornDown,        \* the delete handler verified the VM absent on the host
  pc,              \* progress of each run
  seen,            \* revision a run loaded together with its credentials
  report,          \* what a run's inspection of the host concluded
  command,         \* runs whose preparation script is executing on the host
  disowned,        \* history: those whose caller took a broken session for the end
  overdue,         \* history: those executing without an unexpired lease
  currentRuns,     \* ghost: inspections that describe the host as it is now
  currentTargets   \* ghost: published evidence that describes it as it is now

connVars == <<status, revision, lease, expired, pendingRebind>>
targetVars == <<evidence, ready, currentTargets>>
agentVars == <<agentState, agentRevision, agentTarget, hasVm, operation, fresh,
               desiredDeleted, tornDown>>
hostVars == <<command, disowned, overdue>>
runVars == <<pc, seen, report, hostVars, currentRuns>>
vars == <<connVars, targetVars, agentVars, runVars>>

Statuses == {"pending", "checking", "ready", "error", "absent"}
Lifecycle == {"provision", "lifecycle"}
Operations == Lifecycle \cup {"delete"}
Steps == {"idle", "invalidating", "loaded", "prep_loaded", "leased", "mutating",
          "prepared", "inspecting", "reported", "failed"}

(* InfrastructurePreflightCompletion: a ready connection always names its   *)
(* target; an error may name one too, when the node id was already known.   *)
NoReport == [status |-> "error", target |-> NoTarget, ready |-> FALSE]
Reports ==
  {rep \in [status : {"ready", "error"}, target : Targets \cup {NoTarget},
            ready : BOOLEAN] :
     /\ rep.status = "ready" => rep.target # NoTarget
     /\ rep.ready => rep.status = "ready"}

Init ==
  /\ status = "pending"
  /\ revision = 1
  /\ lease = NoRun
  /\ expired = FALSE
  /\ pendingRebind = 0
  /\ evidence = [t \in Targets |-> 0]
  /\ ready = {}
  /\ agentState = [a \in Agents |-> "none"]
  /\ agentRevision = [a \in Agents |-> 0]
  /\ agentTarget = [a \in Agents |-> NoTarget]
  /\ hasVm = [a \in Agents |-> FALSE]
  /\ operation = [a \in Agents |-> "none"]
  /\ fresh = [a \in Agents |-> FALSE]
  /\ desiredDeleted = [a \in Agents |-> FALSE]
  /\ tornDown = [a \in Agents |-> FALSE]
  /\ pc = [r \in Runs |-> "idle"]
  /\ seen = [r \in Runs |-> 0]
  /\ report = [r \in Runs |-> NoReport]
  /\ command = {}
  /\ disowned = {}
  /\ overdue = {}
  /\ currentRuns = {}
  /\ currentTargets = {}

-----------------------------------------------------------------------------
(* What the stored functions test                                           *)

Live(a) == agentState[a] = "live"
Bound == {a \in Agents : Live(a)}
Held == {a \in Bound : operation[a] # "none"}

(* The trigger's ordinary case and the launch and claim checks.             *)
LaunchAuthority(rev, t) ==
  /\ status = "ready"
  /\ revision = rev
  /\ evidence[t] = rev
  /\ t \in ready

(* The trigger's v_credential_recovery_completion case.                     *)
RecoveryCompletion(a) ==
  /\ operation[a] # "none"
  /\ pendingRebind = agentRevision[a]
  /\ revision > agentRevision[a]
  /\ status \in {"pending", "error"}
  /\ evidence[agentTarget[a]] = agentRevision[a]

(* Whether the trigger lets a live row's status be written.                 *)
SettleAuthority(a) ==
  LaunchAuthority(agentRevision[a], agentTarget[a]) \/ RecoveryCompletion(a)

(* exactRevisionAuthority or credentialRecoveryTeardownAuthority            *)
TeardownAuthorityOf(a) ==
  LET ev == evidence[agentTarget[a]] IN
  /\ status # "absent"
  /\ \/ revision = agentRevision[a] /\ ev = revision
     \/ /\ pendingRebind = agentRevision[a]
        /\ revision > agentRevision[a]
        /\ ev = agentRevision[a]

(* A run may claim the lease when it is free, its own, or expired.          *)
LeaseAvailable(r) == lease \in {NoRun, r} \/ expired

(* Variant: published readiness survives a new lease or revision.           *)
KeepTargets == UNCHANGED <<ready, currentTargets, evidence>>

(* The "set status = 'unavailable' ... launchReady false" update every      *)
(* stored function below ends with: evidence revisions stay.                *)
RevokeTargets ==
  /\ ready' = {}
  /\ currentTargets' = {}
  /\ evidence' = evidence

-----------------------------------------------------------------------------
(* The owner edits or deletes the connection                                *)

(* update_infrastructure_connection with p_operational_change               *)
UpdateConnection ==
  /\ status # "absent" /\ lease = NoRun
  /\ revision < MaxRevision
  /\ Bound = {}
  /\ revision' = revision + 1
  /\ status' = "pending"
  /\ RevokeTargets
  /\ UNCHANGED <<lease, expired, pendingRebind, agentVars, runVars>>

(* Variant: the coalesce dropped, a second recovery overwrites the first.   *)
RebindFromLatest == IF Bound = {} THEN 0 ELSE revision

RebindFrom == IF Bound = {} THEN 0
              ELSE IF pendingRebind = 0 THEN revision ELSE pendingRebind

(* Variant: bindings moved at rotation instead of at the ready preflight.   *)
RecoverCredentialsEagerly ==
  /\ status # "absent" /\ lease = NoRun
  /\ revision < MaxRevision
  /\ Held = {}
  /\ revision' = revision + 1
  /\ status' = "pending"
  /\ agentRevision' = [a \in Agents |-> IF Live(a) THEN revision + 1 ELSE 0]
  /\ RevokeTargets
  /\ UNCHANGED <<lease, expired, pendingRebind, agentState, agentTarget, hasVm,
                 operation, fresh, desiredDeleted, tornDown, runVars>>

(* recover_infrastructure_connection_credentials                            *)
RecoverCredentials ==
  /\ status # "absent" /\ lease = NoRun
  /\ revision < MaxRevision
  /\ \A a \in Held : ~fresh[a]
  /\ revision' = revision + 1
  /\ status' = "pending"
  /\ pendingRebind' = RebindFrom
  /\ RevokeTargets
  /\ UNCHANGED <<lease, expired, agentVars, runVars>>

(* update_infrastructure_capacity_policy                                    *)
UpdateCapacityPolicy ==
  /\ status # "absent" /\ lease = NoRun
  /\ revision < MaxRevision
  /\ pendingRebind = 0
  /\ Held = {}
  /\ revision' = revision + 1
  /\ status' = "pending"
  /\ pendingRebind' = RebindFrom
  /\ RevokeTargets
  /\ UNCHANGED <<lease, expired, agentVars, runVars>>

(* delete_infrastructure_connection; the target foreign key of every live   *)
(* agent restricts the cascade.                                             *)
DeleteConnection ==
  /\ status # "absent" /\ lease = NoRun
  /\ Bound = {}
  /\ status' = "absent"
  /\ evidence' = [t \in Targets |-> 0]
  /\ ready' = {}
  /\ currentTargets' = {}
  /\ UNCHANGED <<revision, lease, expired, pendingRebind, agentVars, runVars>>

-----------------------------------------------------------------------------
(* A run: preflightInfrastructureConnection, and prepareSimpleProxmox-      *)
(* Connection, which hands its run id to a preflight                        *)

(* A request that ends takes what it loaded and saw with it.                *)
Goto(r, step) ==
  /\ pc' = [pc EXCEPT ![r] = step]
  /\ seen' = IF step = "idle" THEN [seen EXCEPT ![r] = 0] ELSE seen
  /\ report' = IF step = "idle" THEN [report EXCEPT ![r] = NoReport] ELSE report

(* loadConnection: the revision is read together with the decrypted key.    *)
(* A run id is fresh, so it is not the one that holds the lease.            *)
Load(r, step) ==
  /\ pc[r] = "idle" /\ lease # r /\ r \notin command
  /\ status # "absent"
  /\ seen' = [seen EXCEPT ![r] = revision]
  /\ pc' = [pc EXCEPT ![r] = step]
  /\ UNCHANGED <<connVars, targetVars, agentVars, report, hostVars, currentRuns>>

(* Variant: held operations not consulted.                                  *)
InvalidateUnderOperation(r) ==
  /\ pc[r] = "invalidating"
  /\ Goto(r, "idle")
  /\ IF status # "absent" /\ revision = seen[r] /\ lease = NoRun
     THEN status' = "error" /\ RevokeTargets
     ELSE UNCHANGED <<status, targetVars>>
  /\ UNCHANGED <<revision, lease, expired, pendingRebind, agentVars, hostVars,
                 currentRuns>>

(* invalidate_infrastructure_connection_preflight, after a credential_error *)
Invalidate(r) ==
  /\ pc[r] = "invalidating"
  /\ Goto(r, "idle")
  /\ IF status # "absent" /\ revision = seen[r] /\ lease = NoRun /\ Held = {}
     THEN status' = "error" /\ RevokeTargets
     ELSE UNCHANGED <<status, targetVars>>
  /\ UNCHANGED <<revision, lease, expired, pendingRebind, agentVars, hostVars,
                 currentRuns>>

(* begin_infrastructure_connection_preparation / _preflight: the first      *)
(* refuses any bound agent, the second any bound agent with an operation.   *)
Begin(r, refused, step) ==
  IF status # "absent" /\ revision = seen[r] /\ LeaseAvailable(r) /\ refused = {}
  THEN /\ status' = "checking"
       /\ lease' = r
       /\ expired' = FALSE
       /\ RevokeTargets
       /\ Goto(r, step)
       /\ UNCHANGED <<revision, pendingRebind, agentVars, hostVars, currentRuns>>
  ELSE /\ Goto(r, "idle")
       /\ UNCHANGED <<connVars, targetVars, agentVars, hostVars, currentRuns>>

(* Variant: preparation refuses only busy agents, as preflight does.        *)
BeginPreparationBesideIdle(r) ==
  pc[r] = "prep_loaded" /\ Begin(r, Held, "leased")

BeginPreparation(r) == pc[r] = "prep_loaded" /\ Begin(r, Bound, "leased")

(* Variant: preflight does not look at held operations.                     *)
BeginPreflightUnderOperation(r) ==
  pc[r] \in {"loaded", "prepared"} /\ Begin(r, {}, "inspecting")

BeginPreflight(r) ==
  pc[r] \in {"loaded", "prepared"} /\ Begin(r, Held, "inspecting")

(* Scripts whose caller still waits for them, or died with the lease held:  *)
(* the preparation authority answers for these.                             *)
Attended == command \ (disowned \cup overdue)
LeaseValid(r) == lease = r /\ ~expired

(* An attended script changes the host under every earlier inspection.      *)
HostTouched(attended) ==
  /\ currentRuns' = IF attended THEN {} ELSE currentRuns
  /\ currentTargets' = IF attended THEN {} ELSE currentTargets

(* executeHostScript dispatches the preparation script.  The host's flock   *)
(* on the preparation lock refuses a second concurrent script.              *)
StartCommand(r) ==
  /\ pc[r] = "leased"
  /\ \/ /\ command # {}
        /\ Goto(r, "failed")
        /\ UNCHANGED <<hostVars, currentRuns, currentTargets>>
     \/ /\ command = {}
        /\ Goto(r, "mutating")
        /\ command' = {r}
        /\ overdue' = IF LeaseValid(r) THEN {} ELSE {r}
        /\ HostTouched(LeaseValid(r))
        /\ UNCHANGED disowned
  /\ UNCHANGED <<connVars, evidence, ready, agentVars>>

(* The script ends; if its caller still listens it gets a receipt or a      *)
(* failure.                                                                 *)
FinishCommand(r) ==
  /\ r \in command
  /\ command' = command \ {r}
  /\ disowned' = disowned \ {r}
  /\ overdue' = overdue \ {r}
  /\ HostTouched(r \in Attended)
  /\ IF pc[r] = "mutating"
     THEN \E step \in {"prepared", "failed"} : Goto(r, step)
     ELSE UNCHANGED <<pc, seen, report>>
  /\ UNCHANGED <<connVars, evidence, ready, agentVars>>

(* The SSH session breaks: the caller sees a failure, the script runs on.   *)
LoseTransport(r) ==
  /\ pc[r] = "mutating"
  /\ Goto(r, "failed")
  /\ disowned' = disowned \cup {r}
  /\ UNCHANGED <<connVars, targetVars, agentVars, command, overdue, currentRuns>>

(* runPreflight: the read-only inspection of the host, and the completion   *)
(* targetEvidenceFromReport derives from it.                                *)
Inspect(r) ==
  /\ pc[r] = "inspecting"
  /\ \E rep \in Reports : report' = [report EXCEPT ![r] = rep]
  /\ currentRuns' = IF Attended = {} THEN currentRuns \cup {r}
                                     ELSE currentRuns \ {r}
  /\ pc' = [pc EXCEPT ![r] = "reported"]
  /\ UNCHANGED <<connVars, targetVars, agentVars, seen, hostVars>>

HoldsLease(r) == status # "absent" /\ revision = seen[r] /\ lease = r

Publish(r, rep) ==
  /\ evidence' = IF rep.target = NoTarget THEN evidence
                 ELSE [evidence EXCEPT ![rep.target] = seen[r]]
  /\ ready' = IF rep.ready THEN {rep.target} ELSE {}
  /\ currentTargets' = IF rep.ready /\ r \in currentRuns THEN {rep.target} ELSE {}

(* The rows complete_..._preflight moves to the new revision, and the two   *)
(* ways that part of the transaction raises: the trigger rejects a row whose*)
(* target is not the one just found ready, or a row was left behind.        *)
Rebinding(rep) == rep.status = "ready" /\ pendingRebind # 0
Moved == {a \in Bound : agentRevision[a] = pendingRebind}
RebindRaises(r, rep) ==
  /\ Rebinding(rep)
  /\ \/ \E a \in Moved : ~(rep.ready /\ rep.target = agentTarget[a])
     \/ \E a \in Bound \ Moved : agentRevision[a] # seen[r]

(* complete_infrastructure_connection_preflight *)
Complete(r, rep, onRaise) ==
  IF ~HoldsLease(r)
  THEN /\ Goto(r, "idle")
       /\ UNCHANGED <<connVars, targetVars, agentVars>>
  ELSE IF RebindRaises(r, rep)
  THEN /\ Goto(r, onRaise)
       /\ UNCHANGED <<connVars, targetVars, agentVars>>
  ELSE /\ Goto(r, "idle")
       /\ Publish(r, rep)
       /\ status' = rep.status
       /\ lease' = NoRun
       /\ expired' = FALSE
       /\ pendingRebind' = IF Rebinding(rep) THEN 0 ELSE pendingRebind
       /\ agentRevision' = [a \in Agents |->
            IF Rebinding(rep) /\ a \in Moved THEN seen[r] ELSE agentRevision[a]]
       /\ UNCHANGED <<revision, agentState, agentTarget, hasVm, operation, fresh,
                      desiredDeleted, tornDown>>

CompletePreflight(r) ==
  /\ pc[r] = "reported"
  /\ Complete(r, report[r], "failed")
  /\ currentRuns' = currentRuns \ {r}
  /\ UNCHANGED hostVars

(* failWhileLeased, and the catch block of the preflight                    *)
CompleteFailure(r) ==
  /\ pc[r] = "failed"
  /\ Complete(r, NoReport, "idle")
  /\ currentRuns' = currentRuns \ {r}
  /\ UNCHANGED hostVars

(* The process serving the request dies: lease and remote script survive.   *)
Crash(r) ==
  /\ pc[r] # "idle"
  /\ Goto(r, "idle")
  /\ currentRuns' = currentRuns \ {r}
  /\ UNCHANGED <<connVars, targetVars, agentVars, hostVars>>

(* Ten minutes pass.  The preparation script is bounded to 210 s on the     *)
(* host and its request to 300 s, but no code ties these bounds to the      *)
(* lease: a script the lease runs out under is recorded as overdue.         *)
LeaseExpires ==
  /\ lease # NoRun /\ ~expired
  /\ expired' = TRUE
  /\ overdue' = overdue \cup (command \cap {lease})
  /\ UNCHANGED <<status, revision, lease, pendingRebind, targetVars, agentVars,
                 pc, seen, report, command, disowned, currentRuns>>

(* Variant: the owner is cleared but its expiry is not.                     *)
RecoverExpiredRunKeepsExpiry ==
  /\ lease # NoRun /\ expired
  /\ status' = "error"
  /\ lease' = NoRun
  /\ RevokeTargets
  /\ UNCHANGED <<expired, revision, pendingRebind, agentVars, runVars>>

(* recover_expired_infrastructure_connection_run, called by the begin       *)
(* wrappers, updates and deletes with the exact run id they observed        *)
RecoverExpiredRun ==
  /\ lease # NoRun /\ expired
  /\ status' = "error"
  /\ lease' = NoRun
  /\ expired' = FALSE
  /\ RevokeTargets
  /\ UNCHANGED <<revision, pendingRebind, agentVars, runVars>>

-----------------------------------------------------------------------------
(* Agents bound to the connection                                           *)

(* POST /api/hivra/agents inserts the row with its provision lease.         *)
Launch(a, t) ==
  /\ agentState[a] = "none"
  /\ LaunchAuthority(revision, t)
  /\ agentState' = [agentState EXCEPT ![a] = "live"]
  /\ agentRevision' = [agentRevision EXCEPT ![a] = revision]
  /\ agentTarget' = [agentTarget EXCEPT ![a] = t]
  /\ operation' = [operation EXCEPT ![a] = "provision"]
  /\ fresh' = [fresh EXCEPT ![a] = TRUE]
  /\ UNCHANGED <<connVars, targetVars, hasVm, desiredDeleted, tornDown, runVars>>

(* persist_hivra_agent_provision_identity *)
PersistIdentity(a) ==
  /\ Live(a) /\ operation[a] = "provision" /\ ~hasVm[a]
  /\ hasVm' = [hasVm EXCEPT ![a] = TRUE]
  /\ UNCHANGED <<connVars, targetVars, agentState, agentRevision, agentTarget,
                 operation, fresh, desiredDeleted, tornDown, runVars>>

(* claim_hivra_agent_operation *)
ClaimOperation(a) ==
  /\ Live(a) /\ operation[a] = "none" /\ ~desiredDeleted[a]
  /\ LaunchAuthority(agentRevision[a], agentTarget[a])
  /\ operation' = [operation EXCEPT ![a] = "lifecycle"]
  /\ fresh' = [fresh EXCEPT ![a] = TRUE]
  /\ UNCHANGED <<connVars, targetVars, agentState, agentRevision, agentTarget,
                 hasVm, desiredDeleted, tornDown, runVars>>

(* request_hivra_agent_delete: no connection check, so it also succeeds     *)
(* while the connection is being checked or is in error.                    *)
RequestDelete(a) ==
  /\ Live(a)
  /\ desiredDeleted' = [desiredDeleted EXCEPT ![a] = TRUE]
  /\ IF operation[a] = "none"
     THEN /\ operation' = [operation EXCEPT ![a] = "delete"]
          /\ fresh' = [fresh EXCEPT ![a] = TRUE]
     ELSE UNCHANGED <<operation, fresh>>
  /\ UNCHANGED <<connVars, targetVars, agentState, agentRevision, agentTarget,
                 hasVm, tornDown, runVars>>

OperationGoesStale(a) ==
  /\ fresh[a]
  /\ fresh' = [fresh EXCEPT ![a] = FALSE]
  /\ UNCHANGED <<connVars, targetVars, agentState, agentRevision, agentTarget,
                 hasVm, operation, desiredDeleted, tornDown, runVars>>

(* claim_hivra_agent_operation_recovery, after the sweep resolved the       *)
(* teardown context of the row                                              *)
RecoverOperation(a) ==
  /\ Live(a) /\ operation[a] # "none" /\ ~fresh[a]
  /\ TeardownAuthorityOf(a) \/ (operation[a] = "delete" /\ ~hasVm[a])
  /\ fresh' = [fresh EXCEPT ![a] = TRUE]
  /\ UNCHANGED <<connVars, targetVars, agentState, agentRevision, agentTarget,
                 hasVm, operation, desiredDeleted, tornDown, runVars>>

(* release_hivra_agent_operation and complete_hivra_agent_operation: both   *)
(* write status, so the authority trigger must accept the row.              *)
SettleOperation(a) ==
  /\ Live(a) /\ operation[a] # "none"
  /\ SettleAuthority(a)
  /\ operation' = [operation EXCEPT ![a] = "none"]
  /\ fresh' = [fresh EXCEPT ![a] = FALSE]
  /\ tornDown' = [tornDown EXCEPT ![a] = FALSE]
  /\ UNCHANGED <<connVars, targetVars, agentState, agentRevision, agentTarget,
                 hasVm, desiredDeleted, runVars>>

(* resolveSelfManagedProxmoxExecutionContext with purpose "teardown", then  *)
(* the verified destroy script                                              *)
Teardown(a) ==
  /\ Live(a) /\ desiredDeleted[a] /\ hasVm[a] /\ ~tornDown[a]
  /\ operation[a] \in {"delete", "provision"}
  /\ TeardownAuthorityOf(a)
  /\ tornDown' = [tornDown EXCEPT ![a] = TRUE]
  /\ UNCHANGED <<connVars, targetVars, agentState, agentRevision, agentTarget,
                 hasVm, operation, fresh, desiredDeleted, runVars>>

(* complete_hivra_agent_delete *)
CompleteDelete(a) ==
  /\ Live(a) /\ desiredDeleted[a]
  /\ operation[a] \in {"delete", "provision"}
  /\ hasVm[a] => tornDown[a]
  /\ agentState' = [agentState EXCEPT ![a] = "deleted"]
  /\ agentRevision' = [agentRevision EXCEPT ![a] = 0]
  /\ agentTarget' = [agentTarget EXCEPT ![a] = NoTarget]
  /\ hasVm' = [hasVm EXCEPT ![a] = FALSE]
  /\ operation' = [operation EXCEPT ![a] = "none"]
  /\ fresh' = [fresh EXCEPT ![a] = FALSE]
  /\ tornDown' = [tornDown EXCEPT ![a] = FALSE]
  /\ UNCHANGED <<connVars, targetVars, desiredDeleted, runVars>>

-----------------------------------------------------------------------------
OwnerStep ==
  \/ UpdateConnection
  \/ RecoverCredentials
  \/ UpdateCapacityPolicy
  \/ DeleteConnection

RunStep(r) ==
  \/ \E step \in {"loaded", "prep_loaded", "invalidating"} : Load(r, step)
  \/ Invalidate(r)
  \/ BeginPreparation(r)
  \/ BeginPreflight(r)
  \/ StartCommand(r)
  \/ FinishCommand(r)
  \/ LoseTransport(r)
  \/ Inspect(r)
  \/ CompletePreflight(r)
  \/ CompleteFailure(r)
  \/ Crash(r)

AgentStep(a) ==
  \/ \E t \in Targets : Launch(a, t)
  \/ PersistIdentity(a)
  \/ ClaimOperation(a)
  \/ RequestDelete(a)
  \/ OperationGoesStale(a)
  \/ RecoverOperation(a)
  \/ SettleOperation(a)
  \/ Teardown(a)
  \/ CompleteDelete(a)

Next ==
  \/ OwnerStep
  \/ LeaseExpires
  \/ RecoverExpiredRun
  \/ \E r \in Runs : RunStep(r)
  \/ \E a \in Agents : AgentStep(a)

Spec == Init /\ [][Next]_vars

-----------------------------------------------------------------------------
(* Properties *)

ConnType ==
  /\ status \in Statuses
  /\ revision \in 1..MaxRevision
  /\ lease \in Runs \cup {NoRun}
  /\ pendingRebind \in 0..MaxRevision
LeaseShape ==
  /\ expired \in BOOLEAN
  /\ lease = NoRun => expired = FALSE
TargetType ==
  /\ evidence \in [Targets -> 0..MaxRevision]
  /\ ready \subseteq Targets
  /\ currentTargets \subseteq Targets
AgentType ==
  /\ agentState \in [Agents -> {"none", "live", "deleted"}]
  /\ agentRevision \in [Agents -> 0..MaxRevision]
  /\ agentTarget \in [Agents -> Targets \cup {NoTarget}]
  /\ operation \in [Agents -> Operations \cup {"none"}]
  /\ hasVm \in [Agents -> BOOLEAN]
  /\ fresh \in [Agents -> BOOLEAN]
  /\ desiredDeleted \in [Agents -> BOOLEAN]
  /\ tornDown \in [Agents -> BOOLEAN]
AgentShape ==
  \A a \in Agents :
    /\ Live(a) <=> agentTarget[a] # NoTarget
    /\ Live(a) <=> agentRevision[a] # 0
    /\ ~Live(a) => operation[a] = "none"
RunType ==
  /\ pc \in [Runs -> Steps]
  /\ seen \in [Runs -> 0..MaxRevision]
  /\ report \in [Runs -> Reports]
  /\ command \subseteq Runs
  /\ disowned \subseteq command /\ overdue \subseteq command
  /\ \A r \in Runs : pc[r] = "mutating" => r \in command \ disowned
  /\ currentRuns \subseteq Runs

(* Every column holds a value of its type, the lease has an expiry exactly  *)
(* when it has an owner (preflight_lease_shape_check), an agent's binding   *)
(* columns are set exactly while the row is live, a deleted row has kept    *)
(* neither operation nor provider authority, and a request that waits for   *)
(* a script waits for one that runs.                                        *)
TypeOK ==
  ConnType /\ LeaseShape /\ TargetType /\ AgentType /\ AgentShape /\ RunType

(* The rebind bookkeeping never loses an agent: every live agent carries    *)
(* the connection's revision or, between a credential recovery or capacity  *)
(* change and the next ready preflight, the one revision recorded for the   *)
(* rebind, even after several recoveries in a row.  A ready connection has  *)
(* no rebind outstanding.  So the raise 'not all Hivra bindings could be    *)
(* rebound safely' guards against a state that is never reached.            *)
BindingRevision ==
  /\ \A a \in Bound :
       agentRevision[a] = IF pendingRebind = 0 THEN revision ELSE pendingRebind
  /\ pendingRebind < revision
  /\ status = "ready" => pendingRebind = 0

(* "Do not invalidate target evidence underneath an active provider         *)
(* operation": while a provision or lifecycle operation is held, whatever   *)
(* the owner, a preflight, a preparation or the reconciler does to the      *)
(* connection, the deployment authority trigger still accepts the status    *)
(* write that settles the operation, so no such operation can be stranded.  *)
OperationAuthority ==
  \A a \in Bound : operation[a] \in Lifecycle => SettleAuthority(a)

(* A target is advertised as ready only on a ready connection, on evidence  *)
(* of the connection's current revision, and on an inspection that began    *)
(* and stayed after the last attended preparation script: a run that lost   *)
(* its lease cannot publish what it saw before another run changed the host.*)
(* A script nobody attends any more may still change the host later.        *)
EvidenceCurrent ==
  ready # {} => /\ status = "ready"
                /\ \A t \in ready : evidence[t] = revision
                /\ ready \subseteq currentTargets

(* The comment in connection-preparation.ts: authority is acquired before   *)
(* the first host mutation, "so launches cannot consume readiness evidence  *)
(* while the bundle/network is being swapped".  While a script runs within  *)
(* the lease's ten minutes, no live agent is bound and no launch can start. *)
(* The code breaks it: a broken session frees the lease under the script.   *)
PreparationExclusive ==
  command \ overdue # {} => Bound = {} /\ status # "ready"

(* What the code does guarantee: a preparation script has the host to       *)
(* itself for as long as its caller has not been told that its session      *)
(* broke, also when the request that dispatched it has died, whatever other *)
(* runs, recoveries and launches do within the lease.                       *)
AttendedScriptAlone ==
  Attended # {} => Bound = {} /\ status # "ready"

(* An agent's binding changes revision only in the step that makes the      *)
(* connection ready at that revision, and then all live agents move         *)
(* together: no interleaving leaves some agents on the old authority.       *)
RebindAtomic ==
  [][(\E a \in Bound \cap Bound' : agentRevision'[a] # agentRevision[a]) =>
        /\ status' = "ready" /\ pendingRebind' = 0
        /\ \A a \in Bound' : agentRevision'[a] = revision']_vars

(* The comment in proxmox-execution-context.ts: until a preflight succeeds  *)
(* and rebinds the agents, teardown may use the new key against the old     *)
(* target evidence.  Every live agent therefore can always be torn down.    *)
TeardownAuthority == \A a \in Bound : TeardownAuthorityOf(a)
=============================================================================
