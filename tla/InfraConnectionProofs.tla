----------------------- MODULE InfraConnectionProofs -----------------------
(***************************************************************************)
(* Proofs, for any number of agents, targets, runs and revisions, that the *)
(* rebind bookkeeping of a connection loses no agent and that no provision *)
(* or lifecycle operation can be stranded by what happens to the           *)
(* connection it runs under.                                               *)
(***************************************************************************)
EXTENDS InfraConnection, TLAPS

(* A connection that is leased shows it: "checking" is what keeps launches, *)
(* claims and settlements away from a run's host work.                      *)
LeaseShown == lease # NoRun => status = "checking"

(* The inductive invariant.  OperationAuthority needs LeaseShown, so that   *)
(* completing, expiring or recovering a run finds no operation under it,    *)
(* and BindingRevision, so that a recovery records the very revision the    *)
(* operation's agent is bound to.                                           *)
Inv == TypeOK /\ BindingRevision /\ OperationAuthority /\ LeaseShown

(* What a preflight may report.                                             *)
LEMMA ReportShape ==
  ASSUME NEW rep \in Reports
  PROVE  /\ rep.status \in {"ready", "error"}
         /\ rep.target \in Targets \cup {NoTarget}
         /\ rep.ready \in BOOLEAN
         /\ rep.ready => rep.target \in Targets /\ rep.status = "ready"
BY DEF Reports, NoReport

LEMMA NoReportIsReport == NoReport \in Reports
BY DEF Reports, NoReport

(* No operation other than a delete is held while a run owns the lease.     *)
LEMMA LeasedMeansIdle ==
  ASSUME Inv, lease # NoRun, NEW a \in Bound
  PROVE  operation[a] \notin Lifecycle
BY DEF Inv, LeaseShown, OperationAuthority, SettleAuthority, LaunchAuthority,
       RecoveryCompletion

LEMMA InitInv == Init => Inv
<1> SUFFICES ASSUME Init PROVE Inv
  OBVIOUS
<1>1. TypeOK
  <2>1. ConnType
    BY ConnAssumption DEF Init, ConnType, Statuses
  <2>5. LeaseShape
    BY DEF Init, LeaseShape
  <2>2. TargetType
    BY ConnAssumption DEF Init, TargetType
  <2>3. AgentType /\ AgentShape
    BY ConnAssumption DEF Init, AgentType, AgentShape, Operations, Lifecycle, Live
  <2>4. RunType
    BY ConnAssumption, NoReportIsReport DEF Init, RunType, Steps
  <2> QED
    BY <2>1, <2>2, <2>3, <2>4, <2>5 DEF TypeOK
<1>2. BindingRevision
  BY DEF Init, BindingRevision, Bound, Live
<1>3. OperationAuthority
  BY DEF Init, OperationAuthority, Bound, Live
<1>4. LeaseShown
  BY DEF Init, LeaseShown
<1> QED
  BY <1>1, <1>2, <1>3, <1>4 DEF Inv

-----------------------------------------------------------------------------
(* Steps that leave the database alone: only a run's own progress changes.  *)
LEMMA QuietStep ==
  ASSUME Inv, UNCHANGED <<connVars, evidence, ready, agentVars>>,
         TargetType', RunType'
  PROVE  Inv'
<1>1. /\ ConnType' /\ LeaseShape' /\ AgentType' /\ AgentShape'
  BY DEF Inv, TypeOK, ConnType, LeaseShape, AgentType, AgentShape, Live, connVars,
         agentVars
<1>2. BindingRevision' /\ LeaseShown'
  BY DEF Inv, BindingRevision, LeaseShown, Bound, Live, connVars, agentVars
<1>3. OperationAuthority'
  BY DEF Inv, OperationAuthority, SettleAuthority, LaunchAuthority,
         RecoveryCompletion, Bound, Live, connVars, agentVars
<1> QED
  BY <1>1, <1>2, <1>3 DEF Inv, TypeOK

(* A run that moves on keeps well-typed locals.                             *)
LEMMA GotoType ==
  ASSUME RunType, NEW r \in Runs, NEW step \in Steps, Goto(r, step)
  PROVE  /\ pc' \in [Runs -> Steps]
         /\ pc' = [pc EXCEPT ![r] = step]
         /\ seen' \in [Runs -> 0..MaxRevision]
         /\ report' \in [Runs -> Reports]
BY ConnAssumption, NoReportIsReport DEF RunType, Goto

(* Owner steps: a new revision, or the end of the connection.               *)
LEMMA OwnerStepInv ==
  ASSUME Inv, OwnerStep
  PROVE  Inv'
<1>1. UNCHANGED <<agentVars, runVars>>
  BY DEF OwnerStep, UpdateConnection, RecoverCredentials, UpdateCapacityPolicy,
         DeleteConnection
<1>2. AgentType' /\ AgentShape' /\ RunType'
  BY <1>1 DEF Inv, TypeOK, AgentType, AgentShape, RunType, Live, agentVars, runVars, hostVars
<1>3. /\ Bound' = Bound
      /\ \A a \in Bound : agentRevision[a] # 0 /\ agentRevision[a] \in 0..MaxRevision
  BY <1>1 DEF Inv, TypeOK, AgentType, AgentShape, Bound, Live, agentVars
<1>4. CASE UpdateConnection
  <2>1. ConnType'
    BY <1>4, ConnAssumption DEF Inv, TypeOK, ConnType, UpdateConnection, Statuses
  <2>2. LeaseShape' /\ TargetType' /\ LeaseShown'
    BY <1>4 DEF Inv, TypeOK, LeaseShape, TargetType, LeaseShown, UpdateConnection,
                RevokeTargets
  <2>3. BindingRevision'
    BY <1>3, <1>4 DEF Inv, TypeOK, ConnType, BindingRevision, UpdateConnection
  <2>4. OperationAuthority'
    BY <1>3, <1>4 DEF OperationAuthority, UpdateConnection
  <2> QED
    BY <1>2, <2>1, <2>2, <2>3, <2>4 DEF Inv, TypeOK
<1>5. ASSUME RecoverCredentials \/ UpdateCapacityPolicy
      PROVE  Inv'
  <2>1. /\ lease = NoRun /\ lease' = lease /\ expired' = expired
        /\ revision < MaxRevision /\ revision' = revision + 1
        /\ status' = "pending" /\ pendingRebind' = RebindFrom
        /\ RevokeTargets
    BY <1>5 DEF RecoverCredentials, UpdateCapacityPolicy
  <2>2. RebindFrom \in 0..MaxRevision /\ RebindFrom < revision + 1
    BY ConnAssumption DEF RebindFrom, Inv, TypeOK, ConnType, BindingRevision
  <2>3. ConnType'
    BY <2>1, <2>2, ConnAssumption DEF Inv, TypeOK, ConnType, Statuses
  <2>4. LeaseShape' /\ TargetType' /\ LeaseShown'
    BY <2>1 DEF Inv, TypeOK, LeaseShape, TargetType, LeaseShown, RevokeTargets
  <2>5. \A a \in Bound : agentRevision[a] = RebindFrom /\ RebindFrom # 0
    BY <1>3, ConnAssumption DEF RebindFrom, Inv, TypeOK, ConnType, BindingRevision
  <2>6. BindingRevision'
    BY <1>1, <1>3, <2>1, <2>2, <2>5 DEF BindingRevision, agentVars
  <2>7. OperationAuthority'
    <3> SUFFICES ASSUME NEW a \in Bound, operation[a] \in Lifecycle
                 PROVE  RecoveryCompletion(a)'
      BY <1>1, <1>3 DEF OperationAuthority, SettleAuthority, agentVars
    <3>1. evidence[agentTarget[a]] = agentRevision[a]
      BY DEF Inv, OperationAuthority, SettleAuthority, LaunchAuthority, RecoveryCompletion
    <3>2. agentRevision[a] < revision + 1
      BY <2>2, <2>5
    <3>3. operation[a] # "none"
      BY DEF Lifecycle
    <3> QED
      BY <1>1, <2>1, <2>5, <3>1, <3>2, <3>3 DEF RecoveryCompletion, RevokeTargets, agentVars
  <2> QED
    BY <1>2, <2>3, <2>4, <2>6, <2>7 DEF Inv, TypeOK
<1>6. CASE DeleteConnection
  <2>1. ConnType' /\ TargetType'
    BY <1>6, ConnAssumption DEF Inv, TypeOK, ConnType, TargetType, DeleteConnection, Statuses
  <2>2. LeaseShape' /\ LeaseShown'
    BY <1>6 DEF Inv, TypeOK, LeaseShape, LeaseShown, DeleteConnection
  <2>3. BindingRevision' /\ OperationAuthority'
    BY <1>3, <1>6 DEF Inv, BindingRevision, OperationAuthority, DeleteConnection
  <2> QED
    BY <1>2, <2>1, <2>2, <2>3 DEF Inv, TypeOK
<1> QED
  BY <1>4, <1>5, <1>6 DEF OwnerStep

(* A leased connection shelters no operation, so a step that ends or moves  *)
(* the lease while keeping the agents has OperationAuthority for free.      *)
LEMMA NoOperationInv ==
  ASSUME UNCHANGED agentVars, \A a \in Bound : operation[a] \notin Lifecycle
  PROVE  OperationAuthority'
BY DEF OperationAuthority, Bound, Live, agentVars

LEMMA LeaseStepInv ==
  ASSUME Inv, LeaseExpires \/ RecoverExpiredRun
  PROVE  Inv'
<1>1. UNCHANGED agentVars
  BY DEF LeaseExpires, RecoverExpiredRun
<1>2. AgentType' /\ AgentShape'
  BY <1>1 DEF Inv, TypeOK, AgentType, AgentShape, Live, agentVars
<1>7. RunType'
  BY DEF Inv, TypeOK, RunType, LeaseExpires, RecoverExpiredRun, runVars, hostVars
<1>3. lease # NoRun
  BY DEF LeaseExpires, RecoverExpiredRun
<1>4. OperationAuthority'
  BY <1>1, <1>3, LeasedMeansIdle, NoOperationInv
<1>5. CASE LeaseExpires
  <2>1. ConnType' /\ LeaseShape' /\ TargetType' /\ LeaseShown'
    BY <1>5 DEF Inv, TypeOK, ConnType, LeaseShape, TargetType, LeaseShown,
                LeaseExpires, targetVars
  <2>2. BindingRevision'
    BY <1>1, <1>5 DEF Inv, BindingRevision, LeaseExpires, Bound, Live, agentVars
  <2> QED
    BY <1>2, <1>7, <1>4, <2>1, <2>2 DEF Inv, TypeOK
<1>6. CASE RecoverExpiredRun
  <2>1. ConnType'
    BY <1>6 DEF Inv, TypeOK, ConnType, RecoverExpiredRun, Statuses
  <2>2. LeaseShape' /\ TargetType' /\ LeaseShown'
    BY <1>6 DEF Inv, TypeOK, LeaseShape, TargetType, LeaseShown, RecoverExpiredRun,
                RevokeTargets
  <2>3. BindingRevision'
    BY <1>1, <1>6 DEF Inv, BindingRevision, RecoverExpiredRun, Bound, Live, agentVars
  <2> QED
    BY <1>2, <1>7, <1>4, <2>1, <2>2, <2>3 DEF Inv, TypeOK
<1> QED
  BY <1>5, <1>6

(* Claiming the lease, for either kind of run: what it refuses covers every *)
(* agent with an operation.                                                 *)
LEMMA BeginInv ==
  ASSUME Inv, NEW r \in Runs, NEW refused, Held \subseteq refused,
         NEW step \in Steps \ {"mutating"}, Begin(r, refused, step)
  PROVE  Inv'
<1>1. "idle" \in Steps
  BY DEF Steps
<1>2. UNCHANGED <<agentVars, hostVars, currentRuns>>
  BY DEF Begin
<1>3. RunType'
  BY <1>1, <1>2, GotoType DEF Begin, Inv, TypeOK, RunType, hostVars
<1>4. CASE UNCHANGED <<connVars, targetVars>>
  <2>1. TargetType'
    BY <1>4 DEF Inv, TypeOK, TargetType, targetVars
  <2> QED
    BY <1>2, <1>3, <1>4, <2>1, QuietStep DEF targetVars
<1>5. ASSUME /\ status' = "checking" /\ lease' = r /\ expired' = FALSE
             /\ RevokeTargets /\ UNCHANGED <<revision, pendingRebind>>
             /\ refused = {}
      PROVE  Inv'
  <2>1. ConnType'
    BY <1>5 DEF Inv, TypeOK, ConnType, Statuses
  <2>2. LeaseShape' /\ TargetType' /\ LeaseShown'
    BY <1>5 DEF Inv, TypeOK, LeaseShape, TargetType, LeaseShown, RevokeTargets
  <2>3. AgentType' /\ AgentShape'
    BY <1>2 DEF Inv, TypeOK, AgentType, AgentShape, Live, agentVars
  <2>4. BindingRevision'
    BY <1>2, <1>5 DEF Inv, BindingRevision, Bound, Live, agentVars
  <2>5. \A a \in Bound : operation[a] \notin Lifecycle
    BY <1>5 DEF Held, Lifecycle
  <2> QED
    BY <1>2, <1>3, <2>1, <2>2, <2>3, <2>4, <2>5, NoOperationInv DEF Inv, TypeOK
<1> QED
  BY <1>4, <1>5 DEF Begin

(* Completing a run, with the rebind.                                       *)
LEMMA CompleteInv ==
  ASSUME Inv, NEW r \in Runs, NEW rep \in Reports,
         NEW onRaise \in Steps \ {"mutating"},
         Complete(r, rep, onRaise), UNCHANGED hostVars,
         currentRuns' \subseteq Runs
  PROVE  Inv'
<1>1. "idle" \in Steps
  BY DEF Steps
<1>2. RunType'
  BY <1>1, GotoType DEF Complete, Inv, TypeOK, RunType, hostVars
<1>3. CASE UNCHANGED <<connVars, targetVars, agentVars>>
  <2>1. TargetType'
    BY <1>3 DEF Inv, TypeOK, TargetType, targetVars
  <2> QED
    BY <1>2, <1>3, <2>1, QuietStep DEF targetVars
<1>4. ASSUME HoldsLease(r), ~RebindRaises(r, rep), Publish(r, rep),
             status' = rep.status, lease' = NoRun, expired' = FALSE,
             pendingRebind' = IF Rebinding(rep) THEN 0 ELSE pendingRebind,
             agentRevision' = [a \in Agents |->
               IF Rebinding(rep) /\ a \in Moved THEN seen[r] ELSE agentRevision[a]],
             UNCHANGED <<revision, agentState, agentTarget, hasVm, operation, fresh,
                         desiredDeleted, tornDown>>
      PROVE  Inv'
  <2>1. /\ rep.status \in {"ready", "error"}
        /\ rep.target \in Targets \cup {NoTarget}
        /\ rep.ready => rep.target \in Targets
    BY ReportShape
  <2>2. lease # NoRun /\ seen[r] = revision /\ revision # 0
    BY <1>4, ConnAssumption DEF HoldsLease, Inv, TypeOK, ConnType
  <2>3. Bound' = Bound /\ Moved \subseteq Bound
    BY <1>4 DEF Bound, Live, Moved
  <2>4. ConnType'
    BY <1>4, <2>1, ConnAssumption DEF Inv, TypeOK, ConnType, Statuses
  <2>5. LeaseShape' /\ LeaseShown'
    BY <1>4 DEF LeaseShape, LeaseShown
  <2>6. TargetType'
    BY <1>4, <2>1, <2>2 DEF Publish, Inv, TypeOK, TargetType, RunType, ConnType
  <2>7. AgentType'
    BY <1>4, <2>2 DEF Inv, TypeOK, AgentType, ConnType
  <2>8. AgentShape'
    BY <1>4, <2>2, <2>3 DEF Inv, TypeOK, AgentShape, Live, Bound
  <2>9. \A a \in Bound : agentRevision[a] =
           IF pendingRebind = 0 THEN revision ELSE pendingRebind
    BY DEF Inv, BindingRevision
  <2>10. BindingRevision'
    <3>1. CASE Rebinding(rep)
      <4>1. \A a \in Bound : a \in Moved
        BY <2>9, <3>1 DEF Rebinding, Moved
      <4>2. \A a \in Bound : agentRevision'[a] = revision
        BY <1>4, <2>2, <3>1, <4>1 DEF Bound
      <4> QED
        BY <1>4, <2>2, <2>3, <3>1, <4>2 DEF BindingRevision, Inv, TypeOK, ConnType
    <3>2. CASE ~Rebinding(rep)
      <4>1. \A a \in Bound : agentRevision'[a] = agentRevision[a]
        BY <1>4, <3>2 DEF Bound
      <4>2. pendingRebind' = pendingRebind /\ pendingRebind < revision
        BY <1>4, <3>2 DEF Inv, BindingRevision
      <4>3. rep.status = "ready" => pendingRebind = 0
        BY <3>2 DEF Rebinding
      <4> QED
        BY <1>4, <2>3, <2>9, <4>1, <4>2, <4>3 DEF BindingRevision
    <3> QED
      BY <3>1, <3>2
  <2>11. OperationAuthority'
    BY <1>4, <2>2, <2>3, LeasedMeansIdle DEF OperationAuthority
  <2> QED
    BY <1>2, <2>4, <2>5, <2>6, <2>7, <2>8, <2>10, <2>11 DEF Inv, TypeOK
<1> QED
  BY <1>3, <1>4 DEF Complete

LEMMA RunStepInv ==
  ASSUME Inv, NEW r \in Runs, RunStep(r)
  PROVE  Inv'
<1> USE DEF Steps
<1>1. ASSUME NEW step \in {"loaded", "prep_loaded", "invalidating"}, Load(r, step)
      PROVE  Inv'
  <2>1. RunType'
    BY <1>1 DEF Load, Inv, TypeOK, RunType, ConnType, hostVars
  <2>2. TargetType'
    BY <1>1 DEF Load, Inv, TypeOK, TargetType, targetVars
  <2> QED
    BY <1>1, <2>1, <2>2, QuietStep DEF Load, targetVars
<1>2. CASE Invalidate(r)
  <2>1. RunType'
    BY <1>2, GotoType DEF Invalidate, Inv, TypeOK, RunType, hostVars
  <2>2. CASE UNCHANGED <<status, targetVars>>
    <3>1. TargetType' /\ UNCHANGED connVars
      BY <1>2, <2>2 DEF Invalidate, Inv, TypeOK, TargetType, targetVars, connVars
    <3> QED
      BY <1>2, <2>1, <2>2, <3>1, QuietStep DEF Invalidate, targetVars
  <2>3. ASSUME status' = "error", RevokeTargets, lease = NoRun, Held = {}
        PROVE  Inv'
    <3>1. UNCHANGED <<revision, lease, expired, pendingRebind, agentVars>>
      BY <1>2 DEF Invalidate
    <3>2. ConnType'
      BY <2>3, <3>1 DEF Inv, TypeOK, ConnType, Statuses
    <3>3. LeaseShape' /\ TargetType' /\ LeaseShown'
      BY <2>3, <3>1 DEF Inv, TypeOK, LeaseShape, TargetType, LeaseShown, RevokeTargets
    <3>4. AgentType' /\ AgentShape'
      BY <3>1 DEF Inv, TypeOK, AgentType, AgentShape, Live, agentVars
    <3>5. BindingRevision'
      BY <2>3, <3>1 DEF Inv, BindingRevision, Bound, Live, agentVars
    <3>6. \A a \in Bound : operation[a] \notin Lifecycle
      BY <2>3 DEF Held, Lifecycle
    <3> QED
      BY <2>1, <3>1, <3>2, <3>3, <3>4, <3>5, <3>6, NoOperationInv DEF Inv, TypeOK
  <2> QED
    BY <1>2, <2>2, <2>3 DEF Invalidate
<1>3. CASE BeginPreparation(r)
  BY <1>3, BeginInv DEF BeginPreparation, Held
<1>4. CASE BeginPreflight(r)
  BY <1>4, BeginInv DEF BeginPreflight
<1>5. ASSUME StartCommand(r) \/ FinishCommand(r)
      PROVE  Inv'
  <2>1. RunType'
    BY <1>5, GotoType DEF StartCommand, FinishCommand, HostTouched, Inv, TypeOK, RunType,
       hostVars
  <2>2. TargetType'
    BY <1>5 DEF StartCommand, FinishCommand, HostTouched, Inv, TypeOK, TargetType
  <2> QED
    BY <1>5, <2>1, <2>2, QuietStep DEF StartCommand, FinishCommand
<1>6. ASSUME LoseTransport(r) \/ Crash(r)
      PROVE  Inv'
  <2>1. RunType'
    <3>1. CASE LoseTransport(r)
      BY <3>1, GotoType DEF LoseTransport, Inv, TypeOK, RunType
    <3>2. CASE Crash(r)
      BY <3>2, GotoType DEF Crash, Inv, TypeOK, RunType, hostVars
    <3> QED
      BY <1>6, <3>1, <3>2
  <2>2. TargetType'
    BY <1>6 DEF LoseTransport, Crash, Inv, TypeOK, TargetType, targetVars
  <2> QED
    BY <1>6, <2>1, <2>2, QuietStep DEF LoseTransport, Crash, targetVars
<1>7. CASE Inspect(r)
  <2>1. RunType'
    BY <1>7 DEF Inspect, Inv, TypeOK, RunType, hostVars
  <2>2. TargetType'
    BY <1>7 DEF Inspect, Inv, TypeOK, TargetType, targetVars
  <2> QED
    BY <1>7, <2>1, <2>2, QuietStep DEF Inspect, targetVars
<1>8. CASE CompletePreflight(r)
  BY <1>8, CompleteInv DEF CompletePreflight, Inv, TypeOK, RunType
<1>9. CASE CompleteFailure(r)
  BY <1>9, CompleteInv, NoReportIsReport DEF CompleteFailure, Inv, TypeOK, RunType
<1> QED
  BY <1>1, <1>2, <1>3, <1>4, <1>5, <1>6, <1>7, <1>8, <1>9 DEF RunStep

(* Agent steps leave the connection, its targets and its runs alone.        *)
LEMMA AgentStepInv ==
  ASSUME Inv, NEW a \in Agents, AgentStep(a)
  PROVE  Inv'
<1>1. UNCHANGED <<connVars, targetVars, runVars>>
  BY DEF AgentStep, Launch, PersistIdentity, ClaimOperation, RequestDelete,
         OperationGoesStale, RecoverOperation, SettleOperation, Teardown,
         CompleteDelete
<1>2. ConnType' /\ LeaseShape' /\ TargetType' /\ RunType' /\ LeaseShown'
  BY <1>1 DEF Inv, TypeOK, ConnType, LeaseShape, TargetType, RunType, LeaseShown,
              connVars, targetVars, runVars, hostVars
<1>3. ASSUME NEW t \in Targets, Launch(a, t)
      PROVE  Inv'
  <2>1. AgentType' /\ AgentShape'
    BY <1>3, ConnAssumption DEF Launch, Inv, TypeOK, AgentType, AgentShape, ConnType,
         Operations, Lifecycle, Live
  <2>2. pendingRebind = 0
    BY <1>3 DEF Launch, LaunchAuthority, Inv, BindingRevision
  <2>3. BindingRevision'
    BY <1>1, <1>3, <2>2 DEF Launch, Inv, TypeOK, AgentType, BindingRevision, Bound,
         Live, connVars
  <2>4. OperationAuthority'
    BY <1>1, <1>3 DEF Launch, Inv, TypeOK, AgentType, OperationAuthority,
         SettleAuthority, LaunchAuthority, RecoveryCompletion, Bound, Live, connVars,
         targetVars
  <2> QED
    BY <1>2, <2>1, <2>3, <2>4 DEF Inv, TypeOK
<1>4. CASE ClaimOperation(a)
  <2>1. AgentType' /\ AgentShape'
    BY <1>4 DEF ClaimOperation, Inv, TypeOK, AgentType, AgentShape, Operations,
         Lifecycle, Live
  <2>2. BindingRevision'
    BY <1>1, <1>4 DEF ClaimOperation, Inv, BindingRevision, Bound, Live, connVars
  <2>3. OperationAuthority'
    BY <1>1, <1>4 DEF ClaimOperation, Inv, TypeOK, AgentType, OperationAuthority,
         SettleAuthority, LaunchAuthority, RecoveryCompletion, Bound, Live, connVars,
         targetVars
  <2> QED
    BY <1>2, <2>1, <2>2, <2>3 DEF Inv, TypeOK
<1>5. CASE RequestDelete(a)
  <2>1. AgentType' /\ AgentShape'
    BY <1>5 DEF RequestDelete, Inv, TypeOK, AgentType, AgentShape, Operations, Live
  <2>2. BindingRevision'
    BY <1>1, <1>5 DEF RequestDelete, Inv, BindingRevision, Bound, Live, connVars
  <2>3. OperationAuthority'
    BY <1>1, <1>5 DEF RequestDelete, Inv, TypeOK, AgentType, OperationAuthority,
         SettleAuthority, LaunchAuthority, RecoveryCompletion, Bound, Live, Lifecycle,
         connVars, targetVars
  <2> QED
    BY <1>2, <2>1, <2>2, <2>3 DEF Inv, TypeOK
<1>6. ASSUME \/ PersistIdentity(a) \/ OperationGoesStale(a)
             \/ RecoverOperation(a) \/ Teardown(a)
      PROVE  Inv'
  <2>1. UNCHANGED <<agentState, agentRevision, agentTarget, operation, desiredDeleted>>
    BY <1>6 DEF PersistIdentity, OperationGoesStale, RecoverOperation, Teardown
  <2>2. AgentType' /\ AgentShape'
    BY <1>6, <2>1 DEF PersistIdentity, OperationGoesStale, RecoverOperation, Teardown,
         Inv, TypeOK, AgentType, AgentShape, Live
  <2>3. BindingRevision'
    BY <1>1, <2>1 DEF Inv, BindingRevision, Bound, Live, connVars
  <2>4. OperationAuthority'
    BY <1>1, <2>1 DEF Inv, OperationAuthority, SettleAuthority, LaunchAuthority,
         RecoveryCompletion, Bound, Live, connVars, targetVars
  <2> QED
    BY <1>2, <2>2, <2>3, <2>4 DEF Inv, TypeOK
<1>7. CASE SettleOperation(a)
  <2>1. AgentType' /\ AgentShape'
    BY <1>7 DEF SettleOperation, Inv, TypeOK, AgentType, AgentShape, Operations, Live
  <2>2. BindingRevision'
    BY <1>1, <1>7 DEF SettleOperation, Inv, BindingRevision, Bound, Live, connVars
  <2>3. OperationAuthority'
    BY <1>1, <1>7 DEF SettleOperation, Inv, TypeOK, AgentType, OperationAuthority,
         SettleAuthority, LaunchAuthority, RecoveryCompletion, Bound, Live, Lifecycle,
         connVars, targetVars
  <2> QED
    BY <1>2, <2>1, <2>2, <2>3 DEF Inv, TypeOK
<1>8. CASE CompleteDelete(a)
  <2>1. AgentType' /\ AgentShape'
    BY <1>8, ConnAssumption DEF CompleteDelete, Inv, TypeOK, AgentType, AgentShape,
         Operations, Live
  <2>2. BindingRevision'
    BY <1>1, <1>8 DEF CompleteDelete, Inv, TypeOK, AgentType, BindingRevision, Bound,
         Live, connVars
  <2>3. OperationAuthority'
    BY <1>1, <1>8 DEF CompleteDelete, Inv, TypeOK, AgentType, OperationAuthority,
         SettleAuthority, LaunchAuthority, RecoveryCompletion, Bound, Live, connVars,
         targetVars
  <2> QED
    BY <1>2, <2>1, <2>2, <2>3 DEF Inv, TypeOK
<1> QED
  BY <1>3, <1>4, <1>5, <1>6, <1>7, <1>8 DEF AgentStep

LEMMA NextInv == Inv /\ [Next]_vars => Inv'
<1> SUFFICES ASSUME Inv, [Next]_vars PROVE Inv'
  OBVIOUS
<1>1. CASE UNCHANGED vars
  <2>1. TargetType' /\ RunType'
    BY <1>1 DEF Inv, TypeOK, TargetType, RunType, vars, targetVars, runVars, hostVars
  <2> QED
    BY <1>1, <2>1, QuietStep DEF vars, targetVars
<1> QED
  BY <1>1, OwnerStepInv, LeaseStepInv, RunStepInv, AgentStepInv DEF Next

-----------------------------------------------------------------------------
(* The inductive invariant holds throughout.                                *)
LEMMA InvAlways == Spec => []Inv
BY InitInv, NextInv, PTL DEF Spec

(* Every column of the connection, its targets and its agents keeps its     *)
(* type, and leases and bindings their shape.                               *)
THEOREM TypeCorrect == Spec => []TypeOK
<1>1. Inv => TypeOK
  BY DEF Inv
<1> QED
  BY <1>1, InvAlways, PTL

(* No sequence of credential recoveries, capacity changes, preflights and   *)
(* launches leaves an agent at a revision the next ready preflight will not *)
(* move: complete_infrastructure_connection_preflight never has to raise    *)
(* 'not all Hivra bindings could be rebound safely'.                        *)
THEOREM BindingsRebindable == Spec => []BindingRevision
<1>1. Inv => BindingRevision
  BY DEF Inv
<1> QED
  BY <1>1, InvAlways, PTL

(* A held provision or lifecycle operation can always be settled past       *)
(* enforce_hivra_agent_deployment_authority.                                *)
THEOREM OperationsSettleable == Spec => []OperationAuthority
<1>1. Inv => OperationAuthority
  BY DEF Inv
<1> QED
  BY <1>1, InvAlways, PTL

-----------------------------------------------------------------------------
(* Only a completing preflight touches the revision of an agent that stays. *)
LEMMA RebindStep ==
  ASSUME Inv, Next, NEW a \in Bound \cap Bound', agentRevision'[a] # agentRevision[a]
  PROVE  /\ status' = "ready" /\ pendingRebind' = 0
         /\ \A b \in Bound' : agentRevision'[b] = revision'
<1>1. ~OwnerStep /\ ~LeaseExpires /\ ~RecoverExpiredRun
  BY DEF OwnerStep, UpdateConnection, RecoverCredentials, UpdateCapacityPolicy,
         DeleteConnection, LeaseExpires, RecoverExpiredRun, agentVars
<1>2. ASSUME NEW b \in Agents PROVE ~AgentStep(b)
  <2>1. ASSUME NEW t \in Targets PROVE ~Launch(b, t)
    BY DEF Launch, Bound, Live, Inv, TypeOK, AgentType
  <2>2. ~CompleteDelete(b)
    BY DEF CompleteDelete, Bound, Live, Inv, TypeOK, AgentType
  <2> QED
    BY <2>1, <2>2 DEF AgentStep, PersistIdentity, ClaimOperation, RequestDelete,
       OperationGoesStale, RecoverOperation, SettleOperation, Teardown
<1>3. PICK r \in Runs : RunStep(r)
  BY <1>1, <1>2 DEF Next
<1>4. CompletePreflight(r) \/ CompleteFailure(r)
  BY <1>3 DEF RunStep, Load, Invalidate, BeginPreparation, BeginPreflight, Begin,
         StartCommand, FinishCommand, LoseTransport, Inspect, Crash, agentVars
<1>5. PICK rep \in Reports, s \in Steps : Complete(r, rep, s)
  <2>1. CASE CompletePreflight(r)
    BY <2>1 DEF CompletePreflight, Inv, TypeOK, RunType, Steps
  <2>2. CASE CompleteFailure(r)
    BY <2>2, NoReportIsReport DEF CompleteFailure, Steps
  <2> QED
    BY <1>4, <2>1, <2>2
<1>6. /\ HoldsLease(r) /\ status' = rep.status /\ revision' = revision
      /\ pendingRebind' = IF Rebinding(rep) THEN 0 ELSE pendingRebind
      /\ agentState' = agentState
      /\ agentRevision' = [b \in Agents |->
           IF Rebinding(rep) /\ b \in Moved THEN seen[r] ELSE agentRevision[b]]
  BY <1>5 DEF Complete, agentVars
<1>7. Rebinding(rep)
  BY <1>6 DEF Bound
<1>8. \A b \in Bound : b \in Moved
  BY <1>7 DEF Inv, BindingRevision, Rebinding, Moved
<1> QED
  BY <1>6, <1>7, <1>8 DEF Rebinding, HoldsLease, Bound, Live

(* Agents change revision together, in the step that makes the connection   *)
(* ready.                                                                   *)
THEOREM RebindsAtomically == Spec => RebindAtomic
<1>1. Inv /\ [Next]_vars =>
        [(\E a \in Bound \cap Bound' : agentRevision'[a] # agentRevision[a]) =>
           /\ status' = "ready" /\ pendingRebind' = 0
           /\ \A a \in Bound' : agentRevision'[a] = revision']_vars
  BY RebindStep
<1> QED
  BY <1>1, InvAlways, PTL DEF Spec, RebindAtomic

-----------------------------------------------------------------------------
(* Host preparation, for as long as its session and its lease last.         *)

(* From the claim of a preparation lease to the end of an attended script,  *)
(* even after its request died, the lease excludes agents.                  *)
CommandHeld ==
  /\ \A r \in Attended : LeaseValid(r) /\ Bound = {} /\ pc[r] \in {"mutating", "idle"}
  /\ \A r \in Runs : pc[r] = "leased" /\ LeaseValid(r) => Bound = {}

(* The lease holder's report describes the host as it is.                   *)
ReportCurrent ==
  \A r \in Runs : pc[r] = "reported" /\ lease = r => r \in currentRuns

HostInv == CommandHeld /\ ReportCurrent /\ EvidenceCurrent

LEMMA HostInit == Init => HostInv
BY DEF Init, HostInv, CommandHeld, ReportCurrent, EvidenceCurrent, Attended

LEMMA AttendedSame == UNCHANGED hostVars => Attended' = Attended
BY DEF hostVars, Attended

LEMMA HostExclusive == Inv /\ HostInv => AttendedScriptAlone
BY ConnAssumption DEF Inv, TypeOK, RunType, LeaseShown, HostInv, CommandHeld,
                      AttendedScriptAlone, Attended, LeaseValid

(* Steps of the owner and of time: whatever ends or frees a lease finds no  *)
(* attended script under it.                                                *)
LEMMA HostOwnerStep ==
  ASSUME Inv, HostInv, OwnerStep \/ LeaseExpires \/ RecoverExpiredRun
  PROVE  HostInv'
<1>1. /\ UNCHANGED <<agentVars, pc, seen, report, command, disowned, currentRuns>>
      /\ Bound' = Bound
  BY DEF OwnerStep, UpdateConnection, RecoverCredentials, UpdateCapacityPolicy,
         DeleteConnection, LeaseExpires, RecoverExpiredRun, Bound, Live, agentVars,
         runVars, hostVars
<1>2. CASE LeaseExpires
  <2>1. UNCHANGED <<status, revision, lease, evidence, ready, currentTargets>>
        /\ expired' = TRUE /\ overdue' = overdue \cup (command \cap {lease})
    BY <1>2 DEF LeaseExpires, targetVars
  <2>2. Attended' = {}
    BY <1>1, <2>1 DEF Attended, HostInv, CommandHeld, LeaseValid
  <2>3. CommandHeld'
    BY <2>1, <2>2 DEF CommandHeld, LeaseValid
  <2>4. ReportCurrent' /\ EvidenceCurrent'
    BY <1>1, <2>1 DEF HostInv, ReportCurrent, EvidenceCurrent
  <2> QED
    BY <2>3, <2>4 DEF HostInv
<1>3. ASSUME OwnerStep \/ RecoverExpiredRun PROVE HostInv'
  <2>1. ready' = {} /\ UNCHANGED hostVars
    BY <1>3 DEF OwnerStep, UpdateConnection, RecoverCredentials, UpdateCapacityPolicy,
           DeleteConnection, RecoverExpiredRun, RevokeTargets, runVars
  <2>2. /\ lease = NoRun \/ expired = TRUE
        /\ lease' = NoRun
    BY <1>3 DEF OwnerStep, UpdateConnection, RecoverCredentials, UpdateCapacityPolicy,
           DeleteConnection, RecoverExpiredRun, Inv, TypeOK, LeaseShape
  <2>3. Attended \subseteq Runs
    BY DEF Inv, TypeOK, RunType, Attended
  <2>4. Attended' = {}
    BY <2>1, <2>2, <2>3, AttendedSame, ConnAssumption DEF HostInv, CommandHeld, LeaseValid
  <2>5. CommandHeld'
    BY <2>2, <2>4, ConnAssumption DEF CommandHeld, LeaseValid
  <2>6. ReportCurrent' /\ EvidenceCurrent'
    BY <2>1, <2>2, ConnAssumption DEF ReportCurrent, EvidenceCurrent
  <2> QED
    BY <2>5, <2>6 DEF HostInv
<1> QED
  BY <1>2, <1>3

(* Agents launch only on a ready connection, which has no preparation.      *)
LEMMA HostAgentStep ==
  ASSUME Inv, HostInv, NEW a \in Agents, AgentStep(a)
  PROVE  HostInv'
<1>1. UNCHANGED <<connVars, targetVars, runVars>>
  BY DEF AgentStep, Launch, PersistIdentity, ClaimOperation, RequestDelete,
         OperationGoesStale, RecoverOperation, SettleOperation, Teardown,
         CompleteDelete
<1>2. lease # NoRun => Bound' \subseteq Bound
  BY DEF AgentStep, Launch, PersistIdentity, ClaimOperation, RequestDelete,
         OperationGoesStale, RecoverOperation, SettleOperation, Teardown,
         CompleteDelete, Bound, Live, Inv, LeaseShown, LaunchAuthority, TypeOK, AgentType
<1>3. lease \in Runs => lease # NoRun
  BY ConnAssumption
<1>4. Attended' = Attended /\ Attended \subseteq Runs
  BY <1>1, AttendedSame DEF runVars, Inv, TypeOK, RunType, Attended
<1>5. CommandHeld'
  BY <1>1, <1>2, <1>3, <1>4 DEF HostInv, CommandHeld, LeaseValid, connVars, runVars
<1>6. ReportCurrent' /\ EvidenceCurrent'
  BY <1>1 DEF HostInv, ReportCurrent, EvidenceCurrent, connVars, targetVars, runVars
<1> QED
  BY <1>5, <1>6 DEF HostInv

(* A run past its claim holds the lease for no script but its own.          *)
LEMMA NoneAttended ==
  ASSUME Inv, HostInv, NEW r \in Runs, pc[r] \notin {"mutating", "idle"},
         lease \in {r, NoRun} \/ expired
  PROVE  Attended = {}
BY ConnAssumption DEF HostInv, CommandHeld, LeaseValid, Inv, TypeOK, RunType, Attended

LEMMA HostBegin ==
  ASSUME Inv, HostInv, NEW r \in Runs,
         BeginPreparation(r) \/ BeginPreflight(r)
  PROVE  HostInv'
<1>1. PICK refused \in {Bound, Held}, step \in {"leased", "inspecting"} :
        Begin(r, refused, step) /\ (step = "leased" => refused = Bound)
  BY DEF BeginPreparation, BeginPreflight
<1>2. pc[r] \in {"prep_loaded", "loaded", "prepared"}
  BY DEF BeginPreparation, BeginPreflight
<1>3. UNCHANGED <<agentVars, hostVars, currentRuns>> /\ Bound' = Bound
      /\ Attended' = Attended
  BY <1>1, AttendedSame DEF Begin, Bound, Live, agentVars
<1>4. CASE UNCHANGED <<connVars, targetVars>> /\ Goto(r, "idle")
  <2>1. pc' = [pc EXCEPT ![r] = "idle"]
    BY <1>4 DEF Goto
  <2>2. CommandHeld'
    BY <1>3, <1>4, <2>1 DEF HostInv, CommandHeld, LeaseValid, connVars, Inv, TypeOK, RunType,
       Attended
  <2>3. ReportCurrent' /\ EvidenceCurrent'
    BY <1>3, <1>4, <2>1 DEF HostInv, ReportCurrent, EvidenceCurrent, connVars, targetVars,
       Inv, TypeOK, RunType
  <2> QED
    BY <2>2, <2>3 DEF HostInv
<1>5. ASSUME lease' = r, expired' = FALSE, RevokeTargets, Goto(r, step),
             refused = {}, LeaseAvailable(r)
      PROVE  HostInv'
  <2>1. Attended = {}
    BY <1>2, <1>5, NoneAttended DEF LeaseAvailable
  <2>2. pc' = [pc EXCEPT ![r] = step]
    BY <1>5 DEF Goto
  <2>3. CommandHeld'
    BY <1>1, <1>3, <1>5, <2>1, <2>2 DEF CommandHeld, LeaseValid, Inv, TypeOK, RunType
  <2>4. ReportCurrent' /\ EvidenceCurrent'
    BY <1>1, <1>3, <1>5, <2>2 DEF ReportCurrent, EvidenceCurrent, RevokeTargets, Inv,
       TypeOK, RunType
  <2> QED
    BY <2>3, <2>4 DEF HostInv
<1> QED
  BY <1>1, <1>4, <1>5 DEF Begin

LEMMA HostComplete ==
  ASSUME Inv, HostInv, NEW r \in Runs,
         CompletePreflight(r) \/ CompleteFailure(r)
  PROVE  HostInv'
<1>1. PICK rep \in Reports, s \in {"failed", "idle"} :
        /\ Complete(r, rep, s)
        /\ rep.ready => pc[r] = "reported"
  <2>1. CASE CompletePreflight(r)
    BY <2>1 DEF CompletePreflight, Inv, TypeOK, RunType
  <2>2. CASE CompleteFailure(r)
    BY <2>2, NoReportIsReport DEF CompleteFailure, NoReport
  <2> QED
    BY <2>1, <2>2
<1>2. /\ pc[r] \in {"reported", "failed"}
      /\ UNCHANGED hostVars /\ currentRuns' = currentRuns \ {r}
  BY DEF CompletePreflight, CompleteFailure
<1>3. PICK step \in {"failed", "idle"} : pc' = [pc EXCEPT ![r] = step]
  BY <1>1 DEF Complete, Goto
<1>4. /\ (lease' = lease /\ expired' = expired) \/ (lease = r /\ lease' = NoRun)
      /\ Bound' = Bound
  BY <1>1 DEF Complete, HoldsLease, connVars, agentVars, Bound, Live
<1>5. Attended' = Attended /\ (lease = r => Attended = {}) /\ r \notin Attended
      /\ Attended \subseteq Runs
  BY <1>2, AttendedSame, NoneAttended DEF HostInv, CommandHeld, Inv, TypeOK, RunType, Attended
<1>6. CommandHeld'
  BY <1>3, <1>4, <1>5, ConnAssumption DEF HostInv, CommandHeld, LeaseValid, Inv, TypeOK, RunType
<1>7. ReportCurrent'
  BY <1>2, <1>3, <1>4, ConnAssumption DEF HostInv, ReportCurrent, Inv, TypeOK, RunType
<1>8. EvidenceCurrent'
  <2>1. CASE UNCHANGED <<connVars, targetVars>>
    BY <2>1 DEF HostInv, EvidenceCurrent, connVars, targetVars
  <2>2. ASSUME HoldsLease(r), Publish(r, rep), status' = rep.status, revision' = revision
        PROVE  EvidenceCurrent'
    <3>1. rep.ready => /\ rep.status = "ready" /\ rep.target \in Targets
                       /\ rep.target # NoTarget /\ r \in currentRuns
      BY <1>1, <2>2, ReportShape, ConnAssumption DEF HostInv, ReportCurrent, HoldsLease
    <3> QED
      BY <2>2, <3>1 DEF Publish, HoldsLease, EvidenceCurrent, Inv, TypeOK, TargetType
  <2> QED
    BY <1>1, <2>1, <2>2 DEF Complete
<1> QED
  BY <1>6, <1>7, <1>8 DEF HostInv

(* A script is started, or refused by the lock of another one.              *)
LEMMA HostStart ==
  ASSUME Inv, HostInv, NEW r \in Runs, StartCommand(r)
  PROVE  HostInv'
<1>1. UNCHANGED <<status, revision, lease, expired, evidence, ready>> /\ Bound' = Bound
      /\ pc[r] = "leased" /\ (\A q \in Runs : LeaseValid(q)' = LeaseValid(q))
  BY DEF StartCommand, Bound, Live, agentVars, connVars, LeaseValid
<1>2. LeaseValid(r) => Bound = {} /\ ready = {}
  BY <1>1, ConnAssumption DEF LeaseValid, Inv, LeaseShown, HostInv, CommandHeld,
     EvidenceCurrent
<1>3. ASSUME command # {}, Goto(r, "failed"),
             UNCHANGED <<hostVars, currentRuns, currentTargets>>
      PROVE  HostInv'
  <2>1. pc' = [pc EXCEPT ![r] = "failed"] /\ Attended' = Attended
    BY <1>3, AttendedSame DEF Goto
  <2>2. r \notin Attended /\ Attended \subseteq Runs
    BY <1>1 DEF HostInv, CommandHeld, Inv, TypeOK, RunType, Attended
  <2>3. CommandHeld'
    BY <1>1, <2>1, <2>2 DEF HostInv, CommandHeld, Inv, TypeOK, RunType
  <2>4. ReportCurrent' /\ EvidenceCurrent'
    BY <1>1, <1>3, <2>1 DEF HostInv, ReportCurrent, EvidenceCurrent, Inv, TypeOK, RunType
  <2> QED
    BY <2>3, <2>4 DEF HostInv
<1>4. ASSUME command = {}, Goto(r, "mutating"), command' = {r}, disowned' = disowned,
             overdue' = IF LeaseValid(r) THEN {} ELSE {r}, HostTouched(LeaseValid(r))
      PROVE  HostInv'
  <2>1. pc' = [pc EXCEPT ![r] = "mutating"]
    BY <1>4 DEF Goto
  <2>2. Attended' \subseteq {r} /\ (r \in Attended' => LeaseValid(r))
    BY <1>4 DEF Attended
  <2>3. CommandHeld'
    BY <1>1, <1>2, <2>1, <2>2 DEF HostInv, CommandHeld, Inv, TypeOK, RunType
  <2>4. ReportCurrent'
    BY <1>1, <1>4, <2>1 DEF HostTouched, LeaseValid, HostInv, ReportCurrent, Inv, TypeOK,
       RunType
  <2>5. EvidenceCurrent'
    BY <1>1, <1>2, <1>4 DEF HostTouched, HostInv, EvidenceCurrent
  <2> QED
    BY <2>3, <2>4, <2>5 DEF HostInv
<1> QED
  BY <1>3, <1>4 DEF StartCommand

(* A script ends, or its session does.                                      *)
LEMMA HostEnd ==
  ASSUME Inv, HostInv, NEW r \in Runs, FinishCommand(r) \/ LoseTransport(r)
  PROVE  HostInv'
<1>1. /\ UNCHANGED <<status, revision, lease, expired, evidence, ready>>
      /\ Bound' = Bound /\ (\A q \in Runs : LeaseValid(q)' = LeaseValid(q))
  BY DEF FinishCommand, LoseTransport, Bound, Live, agentVars, connVars, targetVars,
         LeaseValid
<1>2. r \in command /\ Attended' = Attended \ {r} /\ Attended \subseteq Runs
  BY DEF FinishCommand, LoseTransport, Attended, Inv, TypeOK, RunType
<1>3. /\ pc' \in [Runs -> Steps]
      /\ \A q \in Runs \ {r} : pc'[q] = pc[q]
      /\ pc'[r] = pc[r] \/ pc'[r] \in {"prepared", "failed"}
  BY DEF FinishCommand, LoseTransport, Goto, Inv, TypeOK, RunType, Steps
<1>4. CommandHeld'
  BY <1>1, <1>2, <1>3 DEF HostInv, CommandHeld
<1>5. \/ UNCHANGED <<currentRuns, currentTargets>>
      \/ r \in Attended
  BY DEF FinishCommand, LoseTransport, HostTouched, targetVars
<1>6. r \in Attended => ready = {} /\ lease = r /\ pc[r] # "reported"
  BY ConnAssumption DEF HostInv, CommandHeld, LeaseValid, Inv, LeaseShown, EvidenceCurrent
<1>7. ReportCurrent' /\ EvidenceCurrent'
  BY <1>1, <1>3, <1>5, <1>6 DEF HostInv, ReportCurrent, EvidenceCurrent
<1> QED
  BY <1>4, <1>7 DEF HostInv

LEMMA HostRunStep ==
  ASSUME Inv, HostInv, NEW r \in Runs, RunStep(r)
  PROVE  HostInv'
<1>1. CASE BeginPreparation(r) \/ BeginPreflight(r)
  BY <1>1, HostBegin
<1>2. CASE CompletePreflight(r) \/ CompleteFailure(r)
  BY <1>2, HostComplete
<1>5. CASE StartCommand(r)
  BY <1>5, HostStart
<1>8. CASE FinishCommand(r) \/ LoseTransport(r)
  BY <1>8, HostEnd
<1>9. /\ r \in Attended => pc[r] \in {"mutating", "idle"}
      /\ Attended \subseteq Runs
  BY DEF HostInv, CommandHeld, Inv, TypeOK, RunType, Attended
<1>3. ASSUME NEW step \in {"loaded", "prep_loaded", "invalidating"}, Load(r, step)
      PROVE  HostInv'
  <2>1. /\ pc' = [pc EXCEPT ![r] = step] /\ r \notin Attended /\ Attended' = Attended
        /\ UNCHANGED <<status, revision, lease, expired, evidence, ready, currentTargets,
                       currentRuns>> /\ Bound' = Bound
    BY <1>3, AttendedSame DEF Load, Attended, Bound, Live, connVars, targetVars, agentVars
  <2>2. CommandHeld'
    BY <1>9, <2>1 DEF HostInv, CommandHeld, LeaseValid, Inv, TypeOK, RunType
  <2>3. ReportCurrent' /\ EvidenceCurrent'
    BY <2>1 DEF HostInv, ReportCurrent, EvidenceCurrent, Inv, TypeOK, RunType
  <2> QED
    BY <2>2, <2>3 DEF HostInv
<1>4. CASE Invalidate(r)
  <2>1. /\ UNCHANGED <<lease, expired, currentRuns>> /\ Bound' = Bound
        /\ Attended' = Attended /\ pc' = [pc EXCEPT ![r] = "idle"]
    BY <1>4, AttendedSame DEF Invalidate, Goto, Bound, Live, agentVars
  <2>2. CommandHeld' /\ ReportCurrent'
    BY <1>9, <2>1 DEF HostInv, CommandHeld, LeaseValid, ReportCurrent, Inv, TypeOK, RunType
  <2>3. EvidenceCurrent'
    BY <1>4 DEF Invalidate, RevokeTargets, HostInv, EvidenceCurrent, targetVars
  <2> QED
    BY <2>2, <2>3 DEF HostInv
<1>6. CASE Crash(r)
  <2>1. /\ UNCHANGED <<status, revision, lease, expired, evidence, ready, currentTargets>>
        /\ Bound' = Bound /\ Attended' = Attended
        /\ pc' = [pc EXCEPT ![r] = "idle"] /\ currentRuns' = currentRuns \ {r}
    BY <1>6, AttendedSame DEF Crash, Goto, Bound, Live, agentVars, connVars, targetVars
  <2>2. CommandHeld'
    BY <1>9, <2>1 DEF HostInv, CommandHeld, LeaseValid, Inv, TypeOK, RunType
  <2>3. ReportCurrent' /\ EvidenceCurrent'
    BY <2>1 DEF HostInv, ReportCurrent, EvidenceCurrent, Inv, TypeOK, RunType
  <2> QED
    BY <2>2, <2>3 DEF HostInv
<1>7. CASE Inspect(r)
  <2>1. /\ UNCHANGED <<status, revision, lease, expired, evidence, ready, currentTargets>>
        /\ Bound' = Bound /\ Attended' = Attended /\ pc[r] = "inspecting"
        /\ pc' = [pc EXCEPT ![r] = "reported"]
    BY <1>7, AttendedSame DEF Inspect, Bound, Live, agentVars, connVars, targetVars
  <2>2. CommandHeld'
    BY <1>9, <2>1 DEF HostInv, CommandHeld, LeaseValid, Inv, TypeOK, RunType
  <2>3. lease = r => Attended = {}
    BY <2>1, NoneAttended
  <2>4. ReportCurrent' /\ EvidenceCurrent'
    BY <1>7, <2>1, <2>3 DEF Inspect, HostInv, ReportCurrent, EvidenceCurrent, Inv, TypeOK,
       RunType
  <2> QED
    BY <2>2, <2>4 DEF HostInv
<1> QED
  BY <1>1, <1>2, <1>3, <1>4, <1>5, <1>6, <1>7, <1>8 DEF RunStep

LEMMA HostNext == Inv /\ HostInv /\ [Next]_vars => HostInv'
<1> SUFFICES ASSUME Inv, HostInv, [Next]_vars PROVE HostInv'
  OBVIOUS
<1>1. CASE UNCHANGED vars
  BY <1>1 DEF HostInv, CommandHeld, ReportCurrent, EvidenceCurrent, Attended, LeaseValid,
     Bound, Live, vars, connVars, targetVars, agentVars, runVars, hostVars
<1> QED
  BY <1>1, HostOwnerStep, HostAgentStep, HostRunStep DEF Next

LEMMA HostAlways == Spec => [](Inv /\ HostInv)
<1>1. Init => HostInv
  BY HostInit
<1>2. Inv /\ HostInv /\ [Next]_vars => HostInv'
  BY HostNext
<1> QED
  BY <1>1, <1>2, InvAlways, PTL DEF Spec

(* Until it is told that its session broke, and while its lease lasts, a    *)
(* preparation has the host to itself: no live agent is bound, and no       *)
(* launch can start.                                                        *)
THEOREM PreparationProtected == Spec => []AttendedScriptAlone
<1>1. Inv /\ HostInv => AttendedScriptAlone
  BY HostExclusive
<1> QED
  BY <1>1, HostAlways, PTL

(* The readiness that a preflight or a preparation publishes describes the  *)
(* host as the last attended preparation left it, at the connection's       *)
(* current revision.                                                        *)
THEOREM EvidenceStaysCurrent == Spec => []EvidenceCurrent
<1>1. Inv /\ HostInv => EvidenceCurrent
  BY DEF HostInv
<1> QED
  BY <1>1, HostAlways, PTL

=============================================================================
