# Hivra control plane: models and proofs

Hivra rents and manages agent computers: VMs on Hivra's own Proxmox hosts, on an
owner's server ("self-managed"), or at a cloud provider. The control plane is a
Next.js application (`src/dashboard`) over a Postgres database. It has no
long-running process. Every state change is made by a short HTTP request or by a
cron sweep, each of which can die at any point; what must survive is in rows,
and what must be exclusive is guarded by leases in those rows. Stored functions
(`src/dashboard/supabase/migrations`) are the atomic steps, SSH scripts on the
hosts are the side effects, and correctness lies in the order in which the two
happen. That is what this project models.

`PROJECT.json` holds the machine-readable side: every component, the map from
definitions to source lines, the runs with their mutants, the findings, the
hazards and the theorems.

## 1. Inventory

| Component | State it keeps | Operations | What is hard |
|---|---|---|---|
| Infrastructure connection authority | `infrastructure_connections`: status, revision, preflight lease, pending rebind; `deployment_targets`: evidence and its revision | create, edit, rotate credentials, recover credentials, capacity policy, preflight, preparation, delete, lease recovery | a lease taken over while the first holder still runs; agents bound to revision N while the connection is at N+1; scripts that outlive their SSH session |
| Agent operations | `hivra_agents`: status, desired state, operation id/kind/payload/time, VMID; `hivra_agent_snapshots`; the VM, its logs, the allocation intent | launch, start, stop, restart, resize, snapshot, restore, delete, GET convergence, recovery sweep | two processes acting under one operation id; crash between host and database; lost replies; a delete that overtakes anything |
| Provider-VM and gVisor agents, desktop preparation | the same row under other substrates, install receipts | install, power, resize, cleanup | ambiguous provider calls |
| Hetzner capacity orders | `infrastructure_capacity_orders`: status, key and server markers and receipts, observed status; the project's key and server | quote, create, replay, reconcile by name, external-cleanup resolution, disconnect, force-forget | a paid POST that times out and lands later; two requests working from different reads of one row; one slot per owner |
| First boot, preparation and cleanup of a bought server | `infrastructure_first_boot_operations`, `infrastructure_first_boot_enrollments`, the order's cleanup columns, the deployment target; firewall, power and attachments at the provider | setup, enrolment, preparation, publication, reservation, scoped cleanup, abandoning | two leases and one server; calls fenced by a clock only; a manifest older than the resources |
| Server enrollment | enrollment rows and codes | issue, report, confirm, replace | a report after expiry |
| Venice credit | reservations, wallet balance and ledger, reconciliation items | authorize, settle, release, file, sweep, top up | one hold settled by three parties; a capture in two calls; lost replies |
| Remote desktop, workspace sessions | tickets and session leases | issue, redeem, renew, revoke | single use under concurrency |
| Model keys, launch operations, Buzz, folder recovery, private access | hand-over rows | admit, replay, hand over | idempotent replay of a launch |
| Idle parking, archive, purge | agent rows | cron | one more actor on the operation lease |
| Subscriptions, token billing, wallets | Stripe/Apple mirrors | webhooks, reconcilers | order of webhooks |
| Hermes instances, cold storage | the older fleet | provision, archive, restore | long jobs with partial failure |
| Browser sidecar, relays, overlay, macOS app, UI, contracts | little or none | forwarding, presentation | outside this project |

How they interact. A launch picks a ready deployment target of a connection and
binds the agent row to the connection's revision; a trigger on `hivra_agents`
checks that binding on every later status write. Preflight and preparation
withdraw and publish the targets' evidence. Within one agent, the POST, the
owner's action requests, DELETE, GET and the sweep share only the row and the
host; there are no messages between them. A server bought through an order becomes
a deployment target when it has booted, enrolled and been prepared, and a launch then
reserves all of it; its cleanup starts from the same order. The Venice wallet is
touched by every model request: the Cloudflare Worker or a dashboard route asks for a
hold, and settles or releases it by further dashboard calls; an hourly sweep finishes
what they leave.

The properties that make the modelled components correct:

* connection: no agent is lost by a rebind, no held operation is stranded by
  what happens to its connection, published readiness describes the host as it
  is, a preparation script has the host to itself;
* agent: no VM without a row that leads to it, one actor per operation, a settled
  row is what the host shows, a delete is never taken back and ends, restore
  points are what they claim;
* order: a POST is never repeated, a server is always behind the order that holds the
  owner's slot, `created_off` and `resolved` are proven facts about the provider;
* bought server: no call without its lease, no running server outside its firewall,
  no launch on a server being taken down, `deleted` means gone;
* credit: holds stay covered, nobody pays more than the cost, a release or a settlement
  that was acknowledged stands, every hold closes.

The hazards behind these, each at its line, are in `PROJECT.json`.

## 2. Modules

```
InfraConnection   <- MCInfraConnection       connection; violated: preparation_overlap
       ^
       +---------- InfraConnectionProofs     theorems
AgentOperations   <- MCAgentOperations       launch, restore_points, delete_settles; violated:
                                             delete_lost, launch_overtaken
       ^
       +---------- AgentOperationsProofs     theorems: row, lease, restore points
                        ^
                        +--- AgentHostProofs theorems: row and host
                                  ^
                                  +- AgentIdleProofs  theorems: the row at rest
CreditLedger                                 abstract: what the wallet promises
       ^ (INSTANCE, funds <- balance)
VeniceCredit      <- MCVeniceCredit          venice_holds; violated: overage_lost
       ^
       +---------- VeniceCreditProofs        theorems, the refinement of CreditLedger
CapacityOrders    <- MCCapacityOrders        capacity_orders, capacity_slot
       ^
       +---------- CapacityOrdersProofs      theorems
CapacityLifecycle <- MCCapacityLifecycle     capacity_lifecycle
       ^
       +---------- CapacityLifecycleProofs   theorems
```

### InfraConnection

One connection, the agents bound to it, and the preflight and preparation runs
that compete for its lease.

| Variables | Code |
|---|---|
| `status`, `revision`, `lease`, `expired`, `pendingRebind` | columns of `infrastructure_connections` |
| `evidence`, `ready` | `deployment_targets` |
| `agentState` ... `desiredDeleted` | binding and operation columns of `hivra_agents` |
| `tornDown` | the delete handler has seen the VM absent |
| `pc`, `seen`, `report` | locals of a preflight or preparation request |
| `command` | preparation scripts running on the host |
| `disowned`, `overdue` | ghosts: scripts whose caller took a broken SSH session for their end; scripts running without an unexpired lease |
| `currentRuns`, `currentTargets` | ghosts: which inspections and published evidence postdate the last attended script |

Each stored function is one action; `Begin`, `Publish` and `Complete` are the
shared bodies of the preflight functions, with the rebind and its raise (a raise
undoes the whole completion). TypeScript code between two calls is a step of `pc`.
`Crash` may hit a run anywhere. The agent's own operations appear only as far as
they touch the authority of the connection. Revision counters are bounded by
`MaxRevision` in the guards of the actions that raise them. An SSH session may break under
any script, which then goes on without its caller, and a lease may expire under any script;
the ghosts remember it. A script that is in neither set is *attended*.

### AgentOperations

One proxmox-kvm computer. Operation ids are counted and 1 is the launch.

| Variables | Code |
|---|---|
| `row`, `snaps` | `hivra_agents`, `hivra_agent_snapshots` |
| `stale`, `exact` | age of `operation_started_at`; which sweeps hold its exact value |
| `vm`, `foreign`, `stored` | the VM, other VMs in its number range, provider snapshots |
| `intent`, `installed`, `log` | allocation intent file, provision log marker, start log with its receipt |
| `post`, `worker`, `poll`, `sweep` | locals of the launch, an owner request, a GET, the sweeps |
| `restored`, `applied` | restores recorded as complete; ghost: rollbacks the host performed |
| `woken` | ghost: a refused resize left a stopped VM running, and nobody has looked since |
| `overtaken` | ghost: who (`"post"`, `"sweep"`) removes the VM of a launch that a poll has ended, or whose installer has written its result, in the meantime |
| `unread` | ghost: a sweep could not read an allocation intent that exists |

Stored functions are operators over `row` that report whether their compare-and-set
held (`Release`, `CompleteOperation`, `Persist`, ...); the processes call them. A
host script is one step because it runs under the host's allocation lock; what it
can have reached when it stops is a set of outcomes (`Outcomes`), and the reply may
be lost in each. A sweep carries a plan, the list of calls that its evidence leads
to; the first that is refused ends it. The VM size is the id of the operation
that set it.

Folded into other steps: logging, events, wallet and credential hand-over, URL and
token validation (a ready marker may be refused), Cloudflare cleanup (completing a
delete may fail), SSH authority checks (a sweep or request may fail).

Assumptions built into the model, each for a reason in the code:

* An operation becomes stale only when the request that owns it is over: requests
  are bounded at 420 s (POST), 300 s (actions, sweep) and 120 s (GET, DELETE), the
  threshold is ten minutes (`GoesStale`).
* Nobody switches the guest off outside Hivra. The code makes no claim about that.
* Only operation 1 creates VMs, and VMs of others never carry our tags.

Nothing is assumed about how long the detached installer takes, when a poll comes, or
whether a read succeeds: an installer may end, and a GET end the launch, while POST is
between two calls or a sweep is removing the VM, and the allocation intent may be
unreadable whenever a sweep looks for it. The ghosts record that it happened and never
guard an action, so that a property can say what holds until then (`...Unless...`) and
another what does not hold afterwards (`launch_overtaken`, and the cases at the end of
section 3).

### CreditLedger and VeniceCredit

`CreditLedger` is the wallet with no processes: a reference is held at most once, a hold
is settled at most once, and money leaves in the step that captures a hold or in one
later step for the part past a fully captured hold. `VeniceCredit` is the system that
has to keep that promise.

| Variables | Code |
|---|---|
| `hold`, `balance`, `overage`, `credited` | `managed_venice_reservations`, the wallet, ledger debits past a hold, Stripe sessions credited |
| `items` | open reconciliation items (capture, release, unknown outcome, uncovered overage) |
| `edge`, `bill` | the Worker or route that carries a request; what Venice did and what it cost |
| `job` | a dashboard invocation or a sweep, one database call per step |
| `auth`, `expired`, `key` | the authorize call; holds past `expires_at`; the proxy key an uncovered overage pauses |

A settlement is a job: read the hold, capture, debit the overage, write usage, or
release, or file an item. Every call of it may fail before it, or lose its reply after
it, and the process may be cut off between any two. The Worker retries up to
`SettleAttempts` times, also while an earlier invocation is still running. The sweep
runs the same jobs from items and from expired holds. `Wallet` chooses the card wallet
(whose debits leave other holds covered) or the token wallet. Amounts are small
integers and the price computation is left out: a request's cost is any member of
`Costs`. Identical open items are one.

### CapacityOrders

| Variables | Code |
|---|---|
| `row`, `young`, `expired`, `conn` | `infrastructure_capacity_orders`, age of its POST markers, quote expiry, connection |
| `prov`, `sent` | the project's key, server and create action; POSTs that may still take effect |
| `worker`, `resolver` | locals of create requests and of the external-cleanup request |

Each stored function is one action under the guard of its SQL (`CanReject`,
`CanMarkServer`, `CanRecordCreation`, ...), each provider call another, so that two
requests of one order interleave at every await. A worker keeps the row it read
(`ReplayAt`). A POST may be answered, answered too late, take effect after its reply was
lost, or never. The owner may start, stop or remove the server in the provider's
console at any time. Observation times are left out: an observation the database may
refuse for its age is here recorded.

### CapacityLifecycle

The same order from `created_off` on.

| Variables | Code |
|---|---|
| `order`, `boot`, `enrol`, `target`, `conn` | the order's cleanup columns, first-boot operation and enrollment, deployment target (with its agent), connection |
| `there`, `power`, `attach` | resources of the project, server status, firewall attachment |
| `wire`, `posts` | calls on their way; ghost: POSTs ever sent |
| `worker` | locals of setup, preparation and cleanup requests |

Setup and preparation hold the lease of the first-boot operation, cleanup a lease of its
own on the order; claims look at both. Each provider read, write and checkpoint is a
step. The clock: a request counts its budget (30 s, 45 s for cleanup) from before its
claim and checks it immediately before a mutation that is bounded by 15 s, and leases
last at least 60 s, so a lease ends only under a request that is `late` and waits for no
reply (`Overdue`). That the fence is in the right place is not assumed: `FencedDispatch`
fails if one is dropped.

## 3. Runs

| Run | Bounds | Checks |
|---|---|---|
| `connection` | 2 agents, 1 target, 2 runs, 3 revisions | `TypeOK`, `BindingRevision`, `OperationAuthority`, `EvidenceCurrent`, `AttendedScriptAlone`, `RebindAtomic` |
| `preparation_overlap` | 1 agent, 2 targets, 2 runs, 2 revisions | `PreparationExclusive`, violated |
| `launch` | 2 VMIDs, 2 sweeps, start/stop, 3 operations | `TypeOK`, `VmAccountedUnlessUnread`, `OneReconciler`, `LeaseOwner`, `IdleExplained`, `DeleteDurable`, `RemovedUnlessOvertaken` |
| `restore_points` | 1 VMID, 1 sweep, 1 restore point, resize/snapshot/restore, 4 operations | `IdleExplained`, `SnapshotLeased`, `ReadySnapshotStored`, `RestoreRecorded` |
| `delete_settles` | 1 VMID, 1 sweep, start, 3 operations, fairness | `DeleteSettles` |
| `delete_lost` | restore points and a delete | `DeleteDurable`, violated |
| `launch_overtaken` | 1 VMID, 1 sweep, the launch alone | `RemovedUnderLease`, violated |
| `venice_holds` | 2 requests on two routes, 2 invocations, 1 sweep, 1 top-up, balance of two holds, costs below and above a hold, 2 faults, fairness | `TypeOK`, `HoldsCovered`, `NeverOvercharged`, `AnsweredKept`, `ReleaseHonoured`, `SettlementRecorded`, `ImplementsLedger`, `HoldsClose` |
| `overage_lost` | as `venice_holds` | `OverageAccounted`, violated |
| `capacity_orders` | 1 order, 2 requests, 1 fault, fairness | `TypeOK`, `PostedOnce`, `ServerAccounted`, `CreatedOffProven`, `CreatingEnds` |
| `capacity_slot` | 2 orders, 1 request, 2 faults | `ServerAccounted`, `ResolvedGone` |
| `capacity_lifecycle` | 2 requests, 1 address, 1 fault, fairness | `TypeOK`, `DeletedMeansGone`, `SentOnce`, `RunningProtected`, `TargetLive`, `FencedDispatch`, `CleanupFinishes` |

Why these bounds. Three revisions are needed for two recoveries in a row; two agents for
a partial rebind; two runs for a takeover. One target is enough in `connection`: a
completion that is not ready, or ready without the launch readiness of that target,
already makes the rebind raise. With two targets and one run, or with one agent, two
targets, two runs and two revisions, the same properties hold, and the theorems cover
any number. In AgentOperations, two VMIDs let a foreign VM take a number beside or
instead of ours (`delete_settles` has one: a foreign VM may still take it), two sweeps
are needed for the claim race, three operations give launch, one action and a delete,
and four give a snapshot, a change and a restore of it. A restart differs from a start
only in that its script may also leave the VM stopped (`Outcomes`): the properties of
`launch` hold with it in the place of `start` too (2.4 million states), and the theorems
cover it. Every run of it includes deletes, polls, crashes of every process and lost
replies. In VeniceCredit, two requests compete for a balance that covers both holds but
not both overages, two invocations let a retry overtake the attempt it repeats, and two
faults lose a reply and then kill the retry. The two routes of that run are the Worker's
and the Responses route; the chat route is the latter without its unknown outcome. In
CapacityOrders, two requests of one order give the stale reads, two orders the slot. In
CapacityLifecycle, two requests are every pair of setup, preparation and cleanup;
requests follow one another without limit in all runs, so a third only adds concurrency.
One fault there is a lost or late call, a death or a slow request; with two faults,
`Spec` instead of `FairSpec` and `SYMMETRY Sym` its invariants and `FencedDispatch` also
hold (about a million states). Identical sets are symmetric; the liveness runs use no
symmetry. Deadlock is not checked: deleted rows, finished requests and used-up
operations are proper ends.

Each property has a mutant in `PROJECT.json`: a copy of one mapped definition with a
plausible bug, under which the same run finds the property violated.

Fairness.

* `delete_settles`: weak fairness of time, of requests ending and of the cron sweep
  reading the row; strong fairness of the sweep's claim, intent recovery, verified
  teardown, release and final call: the host, the database and Cloudflare may fail it
  any number of times but not forever. Polls, owner requests and the installer get none.
  `DeleteSettles` excepts interrupted access setup and a VMID taken by somebody else,
  both of which the code leaves to an operator. It also takes for granted that the sweep
  gets to the computer, which its limit of twelve candidates does not ensure by itself
  (see hazards).
* `venice_holds`: one weak fairness of `Work`, which is what goes on without anybody's
  help: invocations and edge processes run to their end or to their fault, holds expire,
  and the hourly cron takes up open items and expired holds. While there is any such work,
  some of it is done. Faults are finite (`MaxFaults`); nobody is obliged to retry by hand.
  That the cron gets to every item is taken for granted (see hazards).
* `capacity_orders`: requests and the provider's create action run to their end, markers
  age, an outage ends, and the owner repeats the request (strong fairness of `Replay`);
  without the repeat nothing in the code moves an order on. The owner's console has none.
* `capacity_lifecycle`: requests and provider actions run to their end, leases end, and
  the owner repeats a cleanup that has begun, as the page does while the order is
  `cleaning`. Setup is never obliged to happen.

### Disagreements found

Four are runs that TLC must find violated, with the line they contradict quoted in
`PROJECT.json`.

* `preparation_overlap`: a broken SSH session frees the preparation lease
  (`connection-preparation.ts:582`) under a script that still runs, which the comment at
  line 533 rules out. `connection` checks what is left: a script has the host to itself until
  its caller is told that the session broke (`AttendedScriptAlone`).
* `delete_lost`: `fail_hivra_agent_snapshot` compares the intent with itself and
  overwrites a delete. `launch` checks `DeleteDurable` without restore points for this
  reason.
* `launch_overtaken`: the installer ends, and a GET completes the launch, between two calls
  of POST. POST takes the lost lease for a cancellation, or a lost reply for a failure, and
  removes the VM of a running row (`agents/route.ts:2236`; design, line 474).
* `overage_lost`: a hold is captured and the part of the cost past it debited in a second
  call. When that call is lost, the retry and the sweep find the hold captured and take
  the request for settled: the overage is neither collected nor flagged.

The others have no run of their own. TLC reproduces each with the named property, which is
in the component's module, and these constants (otherwise those of the runs above):

* `TeardownAuthority` (1 agent, 1 target, 1 run, 2 revisions): after a credential
  recovery, a preflight that fails but names its node writes evidence at the new revision
  (`20260826130000_hivra_agent_authority_operations.sql:1188`) past the revision of the
  agents that wait for their rebind; no teardown authority is left for them, against the
  comment at `proxmox-execution-context.ts:212`.
* `SweepRemovesUnderLease` (1 VMID, 1 sweep, no restore point, `start`, 2 operations): a
  sweep removes the VM of a failed launch that a poll has ended in the meantime
  (`recover-stuck-provisioning.ts:756`; design, line 474). The property leaves aside
  `launch_overtaken`. `launch` checks that these two are the only ways
  (`RemovedUnlessOvertaken`).
* `VmAccounted` (the same with no actions and 1 operation): a failed read of the
  allocation intent is taken for "no VM" (`recover-stuck-provisioning.ts:464`, against the
  comment at 1225). `launch` checks that no VM is lost otherwise
  (`VmAccountedUnlessUnread`).
* `RestoreApplied` (1 restore point, `snapshot` and `restore`, 3 operations): an equal
  configuration on a stopped VM passes for a completed restore
  (`recover-stuck-provisioning.ts:1188`; design, line 1023). `restore_points` checks that
  only a sweep can be wrong in this way (`RestoreRecorded`).
* `IdleMatchesHost` (`stop` and `resize`, 4 operations): a rolled-back resize starts a
  stopped VM (`action/route.ts:1204`), and a stop released unsent then makes the row look
  settled (design, line 487). `IdleExplained`, which `launch` and `restore_points` check,
  allows for exactly this difference.
* `HoldsClose` with `Wallet = "token"` (no sessions, no fault, `FairSpec`): a token debit
  does not keep other holds covered, so the capture of a hold can fail for good, and the
  sweep repeats it for ever; `reservation-sweep.ts:42` says "No hold is left active for
  good."
* `RejectedLeavesNoKey` (1 order, 2 requests, 1 fault):
  `record_hetzner_cloud_capacity_order_result` accepts `provider_rejected` whenever no
  server POST is marked (`20260826170000_hetzner_cloud_capacity_orders.sql:1072`). A
  second request that read the order before the key marker, and whose fresh quote fails,
  rejects it while the first one's key POST is out; the accepted key is then refused by
  `record_hetzner_cloud_ssh_key_result` and stays in the project unrecorded.
  `PRODUCT-ARCHITECTURE.md:203` says that rejected requests free the slot when they
  "created no provider resource, including no project SSH key".
* `OrdersSettle` (1 order, 1 request, 1 fault, `FairSpec`): a request records the server
  as running and ends before it records the order as ambiguous; the owner switches the
  server off. The recorded status is sticky (same file, lines 839-843), so every replay is
  refused and the order stays `creating`, although nothing changes at the provider any
  more. `PRODUCT-ARCHITECTURE.md:210` says "Creating or ambiguous operations remain
  reconciliable through replay of the same key." `CreatingEnds`, which `capacity_orders`
  checks, excepts exactly this case.

(The design document is `src/docs/superpowers/specs/2026-08-24-hivra-agent-computers-design.md`.)

Two behaviours are odd but as documented: a creation receipt that arrives after a replay
recorded the server by name is refused, so that the order can only be cleaned up outside
Hivra; and a firewall POST whose receipt was lost leaves an order that Hivra can neither set
up nor clean up ("Cleanup retains the unresolved claim", `first-boot-coordinator.ts:115`).

## 4. Theorems

`InfraConnectionProofs`, for any sets of agents, targets and runs and any
revision bound, from `ConnAssumption` alone:

* `TypeCorrect`, `BindingsRebindable`, `OperationsSettleable`: one induction.
  `Inv == TypeOK /\ BindingRevision /\ OperationAuthority /\ LeaseShown`.
  `BindingRevision` is inductive with the types; `OperationAuthority` is not by
  itself: completing, expiring or recovering a run must find no operation under it,
  which needs `LeaseShown` (a leased connection has status `checking`), and a
  credential recovery must record the revision the operation's agent is bound to,
  which is `BindingRevision`. The induction has one lemma per group of actions (owner, lease, begin,
  complete, run, agent), each split by action and, where an action disturbs it, by
  conjunct.
* `RebindsAtomically`: an action property from `Inv`. Only `Complete` writes
  `agentRevision` of a bound agent, and `BindingRevision` says all of them were at
  the pending revision.
* `PreparationProtected` (`AttendedScriptAlone`) and `EvidenceStaysCurrent`: a second
  invariant `HostInv` over all scripts, sessions and leases, whatever breaks. From the claim
  of a preparation to the end of its script, also after its request died, an attended
  script's lease is held, unexpired and without live agents (`CommandHeld`); the lease
  holder's report and the published evidence are current (`ReportCurrent`). A broken session
  or an expiry takes the script out of the attended ones in the same step that takes its
  protection away, and nothing else does.

`CapacityOrdersProofs`, for any orders, any number of concurrent requests and any number of
faults, from `OrderAssumption` (finitely many orders):

* `OrdersTyped`, `PostsOnce`, `ServersAccounted`, `CreationProven`, `ResolvedClean`: one
  induction over
  `Inv == TypeOK /\ KeyRows /\ KeyWorkers /\ ServerRows /\ ServerWorkers /\ CreatedOffProven
  /\ ResolverSound /\ ResolvedRows /\ OneSlot`.
  A row by itself does not say why a second POST is impossible: between the marker and the
  POST the evidence is a request's program counter. So `KeyRows` and `ServerRows` say that
  nothing was sent or made for an order whose marker is unset, and `KeyWorkers` and
  `ServerWorkers` that at most one request is past the marker with its POST unsent, and what
  the requests behind it have seen. `CreatedOffProven` needs them: the id and the action a
  request records are those of the order's own server. `ResolverSound` carries the absence a
  resolver has verified to the moment it resolves: both POSTs of the order have been used up,
  so what is gone stays gone. `ResolvedRows` keeps it afterwards. `OneSlot` is the unique index, and turns "every server
  is behind an order with the slot" into "the owner has one server".
* Layout: an `...Effect` lemma per action says once what it does to rows, provider and
  requests and that types are kept; the lemmas `StepKeys`, `StepServers`, `StepSlot` and
  `StepResolution` use only those.

`CapacityLifecycleProofs`, for any requests, addresses and faults, from `ResourceAssumption`
(the names of resources and calls differ):

* `TypeCorrect`, `PostsSentOnce`, `RunningIsProtected`, `TargetsStayLive` and
  `DeletedLeavesNothing`: one induction over `IInv`. A request is judged by whether it still
  may send (`Live`): then it holds its lease (`HoldsLease`), and a lease pins the order to the
  phase it was taken in (`LeasesPin`), so that setup and cleanup never act at once.
  `SentOnce` alone does not survive a POST: `MarkedFirst` and `MarkedOnce` say that the marker
  precedes it and that one live request at most stands between the two. A late call lands
  when its sender is long gone; `FirewallGood` and `PowerGood` therefore speak of what is on
  the wire as well as of what is there: a power-on under way finds the firewall attached
  whenever it lands. `SeesGone` and `Untouched` carry an absence that cleanup has verified to
  the moment it is recorded, which `DeletedMeansGone` needs.
* `DispatchFenced`: an action property from `HoldsLease` and `LeasesPin`; every call to the
  provider leaves under the lease and the phase it needs.

`VeniceCreditProofs`, for any requests, invocations, sweeps, retries and faults, from the
assumptions of `VeniceCredit` (finitely many requests; "none" names no invocation or sweep):

* `TypeCorrect`, `HoldsStayCovered`, `ChargesBounded`, `AnswersKept`, `ReleasesHonoured`,
  `SettlementsRecorded`: one induction over `IInv`. What the edge wants is tied to what Venice
  did (`EdgeGood`), and every job and every open item to what the edge wants (`JobShape`,
  `ItemGood`); otherwise a sweep could charge a request that was released. `JobStage` and
  `JobHold` say what a job has already done to the hold: a retry that finds it captured must
  not debit again. `OverageOwned` is what bounds the charge: of all the jobs for one request
  only one can be between capture and overage. `JobAnswer` and `DoneGood` carry an outcome
  from the record to the acknowledgement and beyond. The sum of holds in `HoldsCovered` is a
  cardinality, so its lemmas come from `FiniteSetTheorems`.
* `LedgerImplemented`: VeniceCredit implements CreditLedger. Every step is one ledger step or
  a stutter; `HoldsCovered` gives the ledger's funds guards and `JobHold` the state of the
  hold from which a capture or debit starts.

`AgentOperationsProofs`, for any number of VMIDs, sweeps, operations and restore points, every
set of actions, every overlap of installer, polls and sweeps and failing reads, from the
assumptions of `AgentOperations`:

* `TypeCorrect`, `RequestsOwnTheLease`, `ReconciledByOne`, `RestorePointsLeased`,
  `OfferedPointsExist`: one induction over `IInv`. `LeaseOwner` needs to know why nobody else
  can end the operation of a running request: it is not stale and no poll or sweep carries its
  id (`WorkerLease`). `OneReconciler` needs `Reconciling`: a sweep at work has reset the age
  of the operation, so every other copy of the row is out of date. `SweepMatch` and
  `PlanShape` say that a sweep's copy stays true of the operation it names and that its calls
  fit the kind of it. `PointsStored` carries a provider snapshot from its creation to the
  record that offers it.
* `OnlySnapshotsTakeDeletesBack`: the exact extent of finding `delete_lost`. As long as no
  snapshot is on the row, a delete stands, for all actions. `DeletesStand` is `DeleteDurable`
  itself where snapshots are not among the actions.

`AgentHostProofs` adds the host. `BaseInv` is preserved without further hypotheses
(`HostInvariance`): there is one VMID, the one POST got from the allocator, and who has seen
the VM absent finds it absent. On top of it:

* `NoVmIsLost` (`VmAccountedUnlessUnread`), for every behaviour. Its invariant is
  `~unread => AccountInv`, and `AccountInv` is stronger than the property while the launch
  runs: the row names the VM, or the launch is on the row and the *intent* names the VM. So
  POST may die anywhere. The intent is dropped only when the row names the VM
  (`PostAccount`), and a completion that takes the VMID off the row comes from a process
  that has seen the VM gone (`WorkerAccount`, `SweepAccount`).
* `OnlyTheLaunchRemoves` (`RemovedUnlessOvertaken`), for every behaviour. Its invariant is
  `overtaken = {} => LeaseInv`: as long as nobody has ended a launch under its own removal,
  nothing is in the provision log before POST asks for the VM, a VM that POST still works on
  has the launch on its row, only a start log replaces the provision log, and a sweep about
  to compensate sees a launch that has failed and is still on the row. The ghosts only grow
  (`GhostsGrow`), so an implication of this form is inductive if its conclusion is preserved
  by the steps that leave the ghost alone.

`AgentIdleProofs` is about the row at rest: what all the requests, polls and sweeps together
have left there. Its invariant is `Undisturbed == overtaken = {} => RestInv`: after an
overtaken removal a row may show a VM that is gone (`launch_overtaken`), and until then
nothing in the code makes it do so.

* `RestingInvariance`: `Spec => []Undisturbed`. `RestInv` is the invariants above and `IdleInv`. What a
  completion writes was observed steps before, by a process that has since given the host
  lock back, so most of `IdleInv` says that an observation is still true when it is recorded:
  `WorkerTrue`, `PollTrue` and `SweepTrue` relate what each of them carries to the VM as it is
  now, for as long as its operation is on the row. `SizeShown` follows the size: the VM has
  the row's, or the resize or restore on the row explains the difference; a receipt in the
  start log, and a resize that is `provisioning`, mean that the VM has the requested size.
  `PointSizes` does it for restore points, whose row is written before the provider's
  snapshot. `PowerShown` follows the power state up to the script. `TraceInv` ties the
  installer's marker and a sweep's VMID to the VM and the row.
* `RestingRowsTrue`, for every set of actions: unless it is to be deleted, a row at rest that
  shows a power state has its VM, in the row's size, and running if the row says so.
* `IdleRowsMatch` (`IdleExplained`), for every set of actions: a row that claims to have
  converged shows no running VM as stopped either, unless a refused resize has started it
  (`woken`); `PowerShown` is where that exception enters.
* `OnlySweepsAssumeRestores` (`RestoreRecorded`), for every behaviour: the exact extent of the
  `RestoreApplied` case of section 3. A restore that any step but a sweep's records is one the host has
  performed; `RestoreKnown` carries that from the script to the owner's completion.

Only model-checked: liveness (`HoldsClose`, `CleanupFinishes`, `CreatingEnds`,
`DeleteSettles`), which is out of the prover's reach, as are ENABLED and facts about recursive
definitions for all inputs. No module uses RECURSIVE operators.

## 5. Not modelled

The map covers a small part of the repository's lines. Most of the rest is presentation
(pages, translations, the macOS app), shell and cloud-init text, generated bundles, parsing
and price tables, and the older Hermes fleet; what is modelled is the code whose
correctness depends on the order of steps of several actors. Inside the modelled components:

* AgentOperations: gVisor and provider-VM substrates, prepared computers, desktop preparation
  and its recovery sweep, rows written by an older release, agent attach and detach,
  cold-archive restore on start, launch admission and plan limits, model-key custody; the
  limit of the sweep's candidates.
* VeniceCredit: pricing and token arithmetic, key rotation, rate limits, the limit on how many
  items a sweep reads, the token wallet's lots.
* CapacityOrders: catalog and quote arithmetic, the inventory mirror, token replacement, the
  prepared variant of the server POST, observation times. `Observe` reads action and server
  in one step; the code reads the actions (`hetzner-cloud.ts:1914`) and then the server
  (`:1932`), which are different moments only for the owner's console.
* CapacityLifecycle: the earlier recipe whose window opens at creation, a firewall or power-on
  action that ends in error, the deletion of the agent that owns the target, a resize of the
  server, changes of the connection's status and revision (a connection is there or gone).
  Of the owner's console, only switching the server off: starting it, detaching its firewall
  or deleting resources there is left out, so `RunningProtected` and `TargetLive` speak of
  what Hivra's own calls do (`first-boot-firewall.ts:133` and `hetzner-cleanup.ts:167` say
  that a console change between a read and a call is beyond them).

The components marked `not_modelled` in `PROJECT.json` each have their reason there. Text,
logging and presentation are left out throughout.

## 6. Plan

1. Compose AgentOperations with InfraConnection: restore points keep the revision of
   their snapshot across a rebind, and a delete or recovery needs the
   teardown authority that a preflight may withdraw. Compose CapacityOrders with
   CapacityLifecycle through the order row.
2. Extend: the candidate queues of both sweeps (starvation by rows they skip); provider-VM
   agents on a bought server; desktop preparation and its recovery; idle parking and purge as
   further actors; remote desktop session leases; server enrollment; subscription reconcilers.
3. A common abstract lease (one holder, handed over only when stale) that InfraConnection,
   AgentOperations and CapacityLifecycle implement.
