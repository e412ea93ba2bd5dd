-------------------------- MODULE CapacityLifecycle --------------------------
(***************************************************************************)
(* A bought Hetzner server from created_off to deleted: first-boot setup,  *)
(* enrollment, preparation as a launch target, and cleanup.                *)
(*                                                                         *)
(* Three kinds of request act on the order, each a worker here: setup      *)
(* (advanceFirstBoot) makes the firewall and powers the server on;         *)
(* preparation (prepareEnrolledGuest) publishes the target; cleanup        *)
(* (advanceHetznerCleanup) deletes one provider resource per request.      *)
(* Setup and preparation share the lease of the first-boot operation,      *)
(* cleanup has its own on the order.  Nothing else keeps them apart: the   *)
(* provider knows no leases, a reply may be lost and the call behind it    *)
(* may take effect late, and a worker may die anywhere.                    *)
(*                                                                         *)
(* Time.  A worker has a budget counted from before its claim (30 s, 45 s  *)
(* for cleanup) and checks it right before it sends a mutation, which      *)
(* itself is bounded by 15 s; a lease lasts at least 60 s.  So a lease     *)
(* expires only under a worker that is late and waits for no reply.  An    *)
(* expired lease is an absent one.                                         *)
(*                                                                         *)
(* The recipe is the current one (its enrollment window opens with the     *)
(* power-on), the confirmed cleanup intent is one per order, and the       *)
(* agents are the one that may own the target.                             *)
(***************************************************************************)
EXTENDS Integers, FiniteSets

CONSTANTS
    Workers,    \* requests that run at the same time
    Ips,        \* the server's primary addresses
    MaxFaults   \* bound: lost replies, failed reads, deaths, slow requests

ASSUME WorkerAssumption == "none" \notin Workers

ASSUME ResourceAssumption ==
    {"server", "firewall", "sshKey", "makeFirewall", "powerOn"} \cap Ips = {}

ASSUME FaultAssumption == MaxFaults \in Nat

VARIABLES
    conn,       \* the connection exists
    order,      \* infrastructure_capacity_orders
    boot,       \* infrastructure_first_boot_operations
    enrol,      \* infrastructure_first_boot_enrollments
    target,     \* the deployment target
    there,      \* resources the project holds
    power,      \* the server's status
    attach,     \* the firewall's attachment to the server
    wire,       \* calls sent that have not taken effect
    posts,      \* POSTs ever sent
    worker,     \* the requests
    faults

db == <<conn, order, boot, enrol, target>>
provider == <<there, power, attach>>
vars == <<conn, order, boot, enrol, target, there, power, attach, wire, posts,
          worker, faults>>

Resources == {"server", "firewall", "sshKey"} \cup Ips
Posts == {"firewall", "powerOn"}
SetupPCs == {"route", "capacity", "markFirewall", "postFirewall", "firewallReply", "saveFirewall",
             "protect", "arm", "verify", "markPower", "postPower", "powerReply",
             "savePower", "poll", "release"}
PreparePCs == {"install", "publish", "admit"}
CleanPCs == {"retire", "claim", "lease", "inspect", "delete", "deleteReply",
             "reinspect", "record"}
Waiting == {"firewallReply", "powerReply", "deleteReply"}

NoWorker == [pc |-> "idle"]
Worker == [pc : SetupPCs \cup PreparePCs \cup CleanPCs, late : BOOLEAN,
           fw : BOOLEAN, pw : BOOLEAN, absent : SUBSET Resources, err : BOOLEAN]
Holder == Workers \cup {"none"}

TypeOK ==
    /\ conn \in BOOLEAN
    /\ order \in [status : {"created_off", "cleaning", "deleted", "cleanup_abandoned"},
                  lease : Holder, fw : BOOLEAN, absent : SUBSET Resources]
    /\ boot \in [row : BOOLEAN, lease : Holder, fwMark : BOOLEAN, fwReceipt : BOOLEAN,
                 verified : BOOLEAN, pwMark : BOOLEAN,
                 action : {"none", "running", "success"}, abandoned : BOOLEAN]
    /\ enrol \in [phase : {"staged", "awaiting_identity", "enrolled", "revoked"},
                  window : {"unarmed", "open", "over"}]
    /\ target \in {"none", "published", "ready", "owned", "retired"}
    /\ there \subseteq Resources
    /\ power \in {"off", "running", "deleting"}
    /\ attach \in {"no", "pending", "applied"}
    /\ wire \subseteq {"makeFirewall", "powerOn"} \cup Resources
    /\ posts \in [Posts -> Nat]
    /\ worker \in [Workers -> Worker \cup {NoWorker}]
    /\ faults \in 0..MaxFaults

(* The order was created off with its receipt and a staged enrollment.     *)
Init ==
    /\ conn = TRUE
    /\ order = [status |-> "created_off", lease |-> "none", fw |-> FALSE, absent |-> {}]
    /\ boot = [row |-> FALSE, lease |-> "none", fwMark |-> FALSE, fwReceipt |-> FALSE,
               verified |-> FALSE, pwMark |-> FALSE, action |-> "none", abandoned |-> FALSE]
    /\ enrol = [phase |-> "staged", window |-> "unarmed"]
    /\ target = "none"
    /\ there = Resources \ {"firewall"}
    /\ power = "off"
    /\ attach = "no"
    /\ wire = {}
    /\ posts = [p \in Posts |-> 0]
    /\ worker = [w \in Workers |-> NoWorker]
    /\ faults = 0

Faulty == faults < MaxFaults /\ faults' = faults + 1
Fine == faults' = faults

At(w, pc) == worker[w].pc = pc
GoTo(w, pc) ==
    worker' = [worker EXCEPT ![w] = IF pc = "idle" THEN NoWorker ELSE [@ EXCEPT !.pc = pc]]
Begin(w, pc) ==
    /\ worker[w] = NoWorker
    /\ worker' = [worker EXCEPT ![w] = [pc |-> pc, late |-> FALSE, fw |-> boot.fwReceipt,
                                        pw |-> boot.pwMark, absent |-> {}, err |-> FALSE]]
Usable == conn /\ order.status = "created_off"

-----------------------------------------------------------------------------
(* The provider.                                                           *)

(* A firewall is made with one POST that also applies it to the server.    *)
MakeFirewall ==
    /\ "makeFirewall" \in wire
    /\ wire' = wire \ {"makeFirewall"}
    /\ there' = there \cup {"firewall"}
    /\ attach' = "pending"
    /\ UNCHANGED <<db, power, posts, worker, faults>>

FirewallApplies ==
    /\ attach = "pending"
    /\ \/ attach' = "applied" /\ Fine
       \/ attach' = "no" /\ Faulty
    /\ UNCHANGED <<db, there, power, wire, posts, worker>>

PowerOn ==
    /\ "powerOn" \in wire
    /\ wire' = wire \ {"powerOn"}
    /\ power' = IF "server" \in there /\ power = "off" THEN "running" ELSE power
    /\ UNCHANGED <<db, there, attach, posts, worker, faults>>

(* A server is deleted by an action of its own; a firewall in use stays.   *)
DeleteLands(x) ==
    /\ x \in wire \cap Resources
    /\ wire' = wire \ {x}
    /\ power' = IF x = "server" /\ x \in there THEN "deleting" ELSE power
    /\ there' = IF x = "server" \/ (x = "firewall" /\ attach # "no") THEN there ELSE there \ {x}
    /\ UNCHANGED <<db, attach, posts, worker, faults>>

(* With the server go the addresses that have auto_delete; the firewall is *)
(* detached a little later.                                                *)
ServerGone ==
    /\ power = "deleting"
    /\ "server" \in there
    /\ \E gone \in SUBSET Ips : there' = there \ (gone \cup {"server"})
    /\ UNCHANGED <<db, power, attach, wire, posts, worker, faults>>

FirewallDetaches ==
    /\ "server" \notin there
    /\ attach # "no"
    /\ attach' = "no"
    /\ UNCHANGED <<db, there, power, wire, posts, worker, faults>>

(* No answer: the call was lost, or may still take effect.                 *)
Unanswered(calls) == Faulty /\ wire' \in {wire, wire \ calls}

OwnerStops ==
    /\ power = "running"
    /\ Faulty
    /\ power' = "off"
    /\ UNCHANGED <<db, there, attach, wire, posts, worker>>

-----------------------------------------------------------------------------
(* First-boot setup.                                                       *)

CapacityOff == "server" \in there /\ power = "off"
Unprotected == CapacityOff /\ attach = "no"
ProtectedSoon == CapacityOff /\ "firewall" \in there

Protected == CapacityOff /\ "firewall" \in there /\ attach = "applied"

EnrolLive == enrol.phase # "revoked" /\ enrol.window # "over"

ClaimSetup(w) ==
    /\ Usable
    /\ EnrolLive
    /\ ~boot.abandoned
    /\ boot.lease = "none"
    /\ target \notin {"owned", "retired"}
    /\ Begin(w, "route")
    /\ boot' = [boot EXCEPT !.row = TRUE, !.lease = w]
    /\ UNCHANGED <<conn, order, enrol, target, provider, wire, posts, faults>>

(* A marker without its receipt is an outcome nobody knows: no replay.     *)
Routed ==
    IF \/ enrol.phase = "enrolled"
       \/ boot.fwMark /\ ~boot.fwReceipt
       \/ boot.pwMark /\ boot.action = "none" THEN "release"
    ELSE IF boot.action # "none" THEN "poll"
    ELSE IF boot.fwReceipt THEN "protect" ELSE "capacity"

Route(w) ==
    /\ At(w, "route")
    /\ GoTo(w, IF worker[w].late THEN "release" ELSE Routed)
    /\ UNCHANGED <<db, provider, wire, posts, faults>>

(* A checkpoint writes under the worker's own lease only.                  *)
CanCheckpoint(w) ==
    /\ Usable /\ EnrolLive
    /\ boot.lease = w /\ ~boot.abandoned

(* One step of setup: it goes on if its checks hold, else it stops.        *)
Checked(w, pc, ok, next, change) ==
    /\ At(w, pc)
    /\ \/ ok /\ change /\ GoTo(w, next)
       \/ ~ok /\ UNCHANGED <<boot, enrol, wire, posts>> /\ GoTo(w, "release")
    /\ UNCHANGED <<conn, order, target, provider, faults>>

Send(w, call, post) ==
    /\ wire' = wire \cup {call}
    /\ posts' = [posts EXCEPT ![post] = @ + 1]
    /\ UNCHANGED <<boot, enrol>>

InBudgetUnfenced(w) == TRUE

InBudget(w) == ~worker[w].late

CheckCapacity(w) ==
    Checked(w, "capacity", Unprotected /\ InBudget(w), "markFirewall",
            UNCHANGED <<boot, enrol, wire, posts>>)

MarkFirewall(w) ==
    Checked(w, "markFirewall",
            CanCheckpoint(w) /\ ~boot.fwMark /\ enrol.phase # "enrolled", "postFirewall",
            boot' = [boot EXCEPT !.fwMark = TRUE] /\ UNCHANGED <<enrol, wire, posts>>)

(* The server is read again after the marker, and the fence is the last    *)
(* thing before the POST.                                                  *)
PostFirewall(w) ==
    Checked(w, "postFirewall", Unprotected /\ InBudget(w), "firewallReply",
            Send(w, "makeFirewall", "firewall"))

FirewallReply(w) ==
    /\ At(w, "firewallReply")
    /\ \/ "makeFirewall" \notin wire /\ Fine /\ UNCHANGED wire /\ GoTo(w, "saveFirewall")
       \/ Unanswered({"makeFirewall"}) /\ GoTo(w, "release")
    /\ UNCHANGED <<db, provider, posts>>

SaveFirewall(w) ==
    Checked(w, "saveFirewall", CanCheckpoint(w) /\ boot.fwMark, "release",
            boot' = [boot EXCEPT !.fwReceipt = TRUE] /\ UNCHANGED <<enrol, wire, posts>>)

Protect(w) ==
    Checked(w, "protect", Protected /\ InBudget(w), "arm",
            UNCHANGED <<boot, enrol, wire, posts>>)

(* Arm makes the enrollment eligible, under no lease of its own.           *)
Arm(w) ==
    Checked(w, "arm",
            Usable /\ EnrolLive /\ enrol.phase \in {"staged", "awaiting_identity"}, "verify",
            enrol' = [enrol EXCEPT !.phase = "awaiting_identity"]
               /\ UNCHANGED <<boot, wire, posts>>)

VerifyFirewall(w) ==
    Checked(w, "verify", CanCheckpoint(w) /\ boot.fwReceipt /\ ~boot.pwMark, "markPower",
            boot' = [boot EXCEPT !.verified = TRUE] /\ UNCHANGED <<enrol, wire, posts>>)

(* The marker and the opening of the enrollment window are one write.      *)
MarkPower(w) ==
    Checked(w, "markPower",
            /\ CanCheckpoint(w) /\ ~boot.pwMark /\ boot.verified
            /\ enrol.phase = "awaiting_identity" /\ enrol.window = "unarmed",
            "postPower",
            /\ boot' = [boot EXCEPT !.pwMark = TRUE]
            /\ enrol' = [enrol EXCEPT !.window = "open"]
            /\ UNCHANGED <<wire, posts>>)

PostPower(w) ==
    Checked(w, "postPower", Protected /\ InBudget(w), "powerReply",
            Send(w, "powerOn", "powerOn"))

PowerReply(w) ==
    /\ At(w, "powerReply")
    /\ \/ "powerOn" \notin wire /\ Fine /\ UNCHANGED wire /\ GoTo(w, "savePower")
       \/ Unanswered({"powerOn"}) /\ GoTo(w, "release")
    /\ UNCHANGED <<db, provider, posts>>

SavePower(w) ==
    Checked(w, "savePower", CanCheckpoint(w) /\ boot.pwMark, "release",
            \E a \in {"running", "success"} :
               boot' = [boot EXCEPT !.action = a] /\ UNCHANGED <<enrol, wire, posts>>)

PollStatus(w) ==
    Checked(w, "poll", "server" \in there /\ CanCheckpoint(w) /\ InBudget(w), "release",
            boot' = [boot EXCEPT !.action = power] /\ UNCHANGED <<enrol, wire, posts>>)

Poll(w) ==
    Checked(w, "poll", "server" \in there /\ CanCheckpoint(w) /\ InBudget(w), "release",
            \E a \in {boot.action, "success"} :
               boot' = [boot EXCEPT !.action = a] /\ UNCHANGED <<enrol, wire, posts>>)

ReleaseClearsIntent(w) ==
    /\ At(w, "release")
    /\ boot' = IF boot.lease = w
                 THEN [boot EXCEPT !.lease = "none", !.fwMark = boot.fwReceipt] ELSE boot
    /\ GoTo(w, "idle")
    /\ UNCHANGED <<conn, order, enrol, target, provider, wire, posts, faults>>

(* The finally block: only the worker's own lease is given back.           *)
Release(w) ==
    /\ At(w, "release")
    /\ boot' = IF boot.lease = w THEN [boot EXCEPT !.lease = "none"] ELSE boot
    /\ GoTo(w, "idle")
    /\ UNCHANGED <<conn, order, enrol, target, provider, wire, posts, faults>>

-----------------------------------------------------------------------------
(* Enrollment and preparation.                                             *)

(* The guest proves its identity inside the window, seen running.          *)
GuestEnrols ==
    /\ Usable
    /\ enrol.phase = "awaiting_identity" /\ enrol.window = "open"
    /\ "server" \in there /\ power = "running"
    /\ enrol' = [enrol EXCEPT !.phase = "enrolled"]
    /\ UNCHANGED <<conn, order, boot, target, provider, wire, posts, worker, faults>>

(* A claim needs 60 s of the window, so no worker in its budget sees it    *)
(* close.                                                                  *)
WindowCloses ==
    /\ enrol.window = "open"
    /\ \A w \in Workers : worker[w].pc \in SetupPCs => worker[w].late
    /\ enrol' = [enrol EXCEPT !.window = "over"]
    /\ UNCHANGED <<conn, order, boot, target, provider, wire, posts, worker, faults>>

Prepared == boot.fwReceipt /\ boot.verified /\ boot.pwMark /\ boot.action # "none"

ClaimGuest(w) ==
    /\ Usable
    /\ enrol.phase = "enrolled"
    /\ boot.row /\ ~boot.abandoned /\ Prepared
    /\ boot.lease = "none"
    /\ target \notin {"owned", "retired"}
    /\ Begin(w, "install")
    /\ boot' = [boot EXCEPT !.lease = w]
    /\ UNCHANGED <<conn, order, enrol, target, provider, wire, posts, faults>>

GuestVerified == "server" \in there /\ power = "running" /\ attach = "applied"

(* The bundle is installed over SSH.  An outcome nobody knows keeps the    *)
(* lease to its end.                                                       *)
InstallBundle(w) ==
    /\ At(w, "install")
    /\ \/ Fine /\ GoTo(w, IF GuestVerified /\ InBudget(w) THEN "publish" ELSE "release")
       \/ Faulty /\ GoTo(w, "idle")
       \/ ~InBudget(w) /\ Fine /\ GoTo(w, "idle")
    /\ UNCHANGED <<db, provider, wire, posts>>

CanPublish(w) ==
    /\ Usable /\ enrol.phase = "enrolled"
    /\ boot.lease = w /\ ~boot.abandoned /\ Prepared

Publish(w) ==
    /\ At(w, "publish")
    /\ \/ /\ CanPublish(w) /\ target \in {"none", "published"}
          /\ target' = "published"
          /\ boot' = [boot EXCEPT !.action = "success"]
          /\ GoTo(w, "admit")
       \/ /\ ~(CanPublish(w) /\ target \in {"none", "published"})
          /\ UNCHANGED <<boot, target>>
          /\ GoTo(w, "release")
    /\ UNCHANGED <<conn, order, enrol, provider, wire, posts, faults>>

Admit(w) ==
    /\ At(w, "admit")
    /\ target' = IF CanPublish(w) /\ target = "published" THEN "ready" ELSE target
    /\ GoTo(w, "release")
    /\ UNCHANGED <<conn, order, boot, enrol, provider, wire, posts, faults>>

(* A launch reserves the whole computer, never under a live lease.         *)
ReserveAgent ==
    /\ Usable
    /\ enrol.phase = "enrolled" /\ Prepared /\ boot.action = "success"
    /\ ~boot.abandoned /\ boot.lease = "none"
    /\ target = "ready"
    /\ target' = "owned"
    /\ UNCHANGED <<conn, order, boot, enrol, provider, wire, posts, worker, faults>>

-----------------------------------------------------------------------------
(* Cleanup.                                                                *)

Manifest(fw) == {"server", "sshKey"} \cup Ips \cup (IF fw THEN {"firewall"} ELSE {})

(* The confirmed manifest is that of the order and the operation as        *)
(* loaded: a firewall POST without a receipt has none.                     *)
CleanRequest(w) ==
    /\ conn
    /\ order.status \in {"created_off", "cleaning"}
    /\ boot.fwMark => boot.fwReceipt
    /\ order.status = "cleaning" => order.fw = boot.fwReceipt
    /\ Begin(w, IF boot.row THEN "retire" ELSE "claim")
    /\ UNCHANGED <<db, provider, wire, posts, faults>>

(* An unused target is retired for good; one an agent owns, or one under   *)
(* a live setup lease, ends the request.                                   *)
Retire(w) ==
    /\ At(w, "retire")
    /\ \/ target = "none" /\ UNCHANGED target
          /\ GoTo(w, IF InBudget(w) THEN "claim" ELSE "idle")
       \/ /\ target \in {"published", "ready", "retired"}
          /\ conn /\ order.status \in {"created_off", "cleaning"} /\ boot.lease = "none"
          /\ target' = "retired"
          /\ GoTo(w, IF InBudget(w) THEN "claim" ELSE "idle")
       \/ /\ \/ target = "owned"
             \/ target # "none" /\ (~conn \/ boot.lease # "none"
                                     \/ order.status \notin {"created_off", "cleaning"})
          /\ UNCHANGED target
          /\ GoTo(w, "idle")
    /\ UNCHANGED <<conn, order, boot, enrol, provider, wire, posts, faults>>

CanCleanOldManifest(w) ==
    /\ conn /\ order.status \in {"created_off", "cleaning"}
    /\ order.lease = "none" /\ boot.lease = "none"
    /\ target \in {"none", "retired"}

CanCleanUsedTarget(w) ==
    /\ conn /\ order.status \in {"created_off", "cleaning"}
    /\ order.lease = "none" /\ boot.lease = "none"
    /\ boot.fwMark => boot.fwReceipt
    /\ boot.fwReceipt = worker[w].fw

(* What the claim checks again under the locks: leases, the receipt        *)
(* against the confirmed manifest, the target.                             *)
CanClean(w) ==
    /\ conn /\ order.status \in {"created_off", "cleaning"}
    /\ order.lease = "none" /\ boot.lease = "none"
    /\ boot.fwMark => boot.fwReceipt
    /\ boot.fwReceipt = worker[w].fw
    /\ target \in {"none", "retired"}

ClaimCleanup(w) ==
    /\ At(w, "claim")
    /\ \/ /\ CanClean(w)
          /\ order' = [order EXCEPT !.status = "cleaning", !.lease = w, !.fw = worker[w].fw]
          /\ worker' = [worker EXCEPT ![w].pc = "lease", ![w].absent = order.absent]
       \/ ~CanClean(w) /\ UNCHANGED order /\ GoTo(w, "idle")
    /\ UNCHANGED <<conn, boot, enrol, target, provider, wire, posts, faults>>

Fail(w) == worker' = [worker EXCEPT ![w].pc = "record", ![w].err = TRUE]

VerifyLease(w) ==
    /\ At(w, "lease")
    /\ \/ /\ conn /\ order.status = "cleaning" /\ order.lease = w /\ InBudget(w) /\ Fine
          /\ GoTo(w, "inspect")
       \/ Fine /\ ~(conn /\ order.status = "cleaning" /\ order.lease = w /\ InBudget(w))
          /\ Fail(w)
       \/ Faulty /\ Fail(w)
    /\ UNCHANGED <<db, provider, wire, posts>>

SnapshotOKOffOnly(w) ==
    /\ "server" \in there => power = "off" /\ Ips \subseteq there
    /\ worker[w].fw /\ "firewall" \in there =>
          attach \in (IF "server" \in there THEN {"no", "applied"} ELSE {"no"})
    /\ order.absent \cap there = {}

(* The snapshot must be the original, settled: the server off, or running  *)
(* only where setup powered it on behind its firewall; nothing on its way  *)
(* in or out; nothing back that was seen absent.                           *)
SnapshotOK(w) ==
    /\ "server" \in there =>
          /\ power = "running" => worker[w].fw /\ worker[w].pw
          /\ power # "deleting"
          /\ Ips \subseteq there
    /\ worker[w].fw /\ "firewall" \in there =>
          attach \in (IF "server" \in there THEN {"no", "applied"} ELSE {"no"})
    /\ order.absent \cap there = {}

Seen(w) == Manifest(worker[w].fw) \ there

Inspect(w) ==
    /\ At(w, "inspect")
    /\ \/ SnapshotOK(w) /\ InBudget(w) /\ Fine
          /\ worker' = [worker EXCEPT ![w].pc = "delete", ![w].absent = Seen(w)]
       \/ ~(SnapshotOK(w) /\ InBudget(w)) /\ Fine /\ Fail(w)
       \/ Faulty /\ Fail(w)
    /\ UNCHANGED <<db, provider, wire, posts>>

(* Server, then firewall, then the addresses, then the key.                *)
NextDeletion(left) ==
    IF "server" \in left THEN {"server"}
    ELSE IF "firewall" \in left THEN {"firewall"}
    ELSE IF left \cap Ips # {} THEN left \cap Ips ELSE left

Left(w) == Manifest(worker[w].fw) \ worker[w].absent

(* The resource is read once more, and the fence is the last thing before  *)
(* the DELETE.                                                             *)
Delete(w) ==
    /\ At(w, "delete")
    /\ \/ Left(w) = {} /\ GoTo(w, "reinspect") /\ UNCHANGED wire
       \/ \E x \in NextDeletion(Left(w)) :
             \/ SnapshotOK(w) /\ InBudget(w) /\ x \in there
                /\ wire' = wire \cup {x} /\ GoTo(w, "deleteReply")
             \/ SnapshotOK(w) /\ InBudget(w) /\ x \notin there
                /\ UNCHANGED wire /\ GoTo(w, "reinspect")
             \/ ~(SnapshotOK(w) /\ InBudget(w)) /\ UNCHANGED wire /\ Fail(w)
    /\ UNCHANGED <<db, provider, posts, faults>>

DeleteReply(w) ==
    /\ At(w, "deleteReply")
    /\ \/ wire \cap NextDeletion(Left(w)) = {} /\ Fine /\ UNCHANGED wire /\ GoTo(w, "reinspect")
       \/ Unanswered(NextDeletion(Left(w))) /\ Fail(w)
    /\ UNCHANGED <<db, provider, posts>>

(* An acknowledged DELETE proves nothing: the resources are read again.    *)
Reinspect(w) ==
    /\ At(w, "reinspect")
    /\ \/ SnapshotOK(w) /\ Fine
          /\ worker' = [worker EXCEPT ![w].pc = "record", ![w].absent = Seen(w)]
       \/ ~SnapshotOK(w) /\ Fine /\ Fail(w)
       \/ Faulty /\ Fail(w)
    /\ UNCHANGED <<db, provider, wire, posts>>

RecordObservation(w) ==
    /\ At(w, "record")
    /\ IF conn /\ order.status = "cleaning" /\ order.lease = w
          /\ order.absent \subseteq worker[w].absent
         THEN order' = [order EXCEPT
                 !.lease = "none", !.absent = worker[w].absent,
                 !.status = IF ~worker[w].err /\ Left(w) = {} THEN "deleted" ELSE @]
         ELSE UNCHANGED order
    /\ GoTo(w, "idle")
    /\ UNCHANGED <<conn, boot, enrol, target, provider, wire, posts, faults>>

-----------------------------------------------------------------------------
(* The owner.                                                              *)

(* Setup is given up; resources and credentials stay.                      *)
AbandonSetup ==
    /\ Usable
    /\ boot.row /\ boot.lease = "none" /\ ~boot.abandoned
    /\ target \notin {"owned", "retired"}
    /\ boot' = [boot EXCEPT !.abandoned = TRUE]
    /\ enrol' = [enrol EXCEPT !.phase = "revoked"]
    /\ UNCHANGED <<conn, order, target, provider, wire, posts, worker, faults>>

(* guard_provider_target_identity: a connection's row takes its target row *)
(* along, which the database refuses while the order is not deleted.       *)
TargetFalls == target = "none" \/ order.status = "deleted"

(* An idle cleanup is forgotten together with the connection.              *)
AbandonCleanup ==
    /\ conn
    /\ order.status = "cleaning" /\ order.lease = "none"
    /\ TargetFalls
    /\ order' = [order EXCEPT !.status = "cleanup_abandoned"]
    /\ conn' = FALSE
    /\ UNCHANGED <<boot, enrol, target, provider, wire, posts, worker, faults>>

(* first_boot_retains_connection, and the guards on the connection row.    *)
Retained ==
    \/ order.status = "cleaning"
    \/ target = "owned"
    \/ /\ order.status = "created_off" /\ ~boot.abandoned
       /\ boot.lease # "none" \/ boot.fwMark

Disconnect ==
    /\ conn
    /\ ~Retained /\ TargetFalls
    /\ conn' = FALSE
    /\ target' = "none"
    /\ UNCHANGED <<order, boot, enrol, provider, wire, posts, worker, faults>>

-----------------------------------------------------------------------------
(* Time and death.                                                         *)

BudgetEnds(w) ==
    /\ worker[w] # NoWorker
    /\ ~worker[w].late
    /\ Faulty
    /\ worker' = [worker EXCEPT ![w].late = TRUE]
    /\ UNCHANGED <<db, provider, wire, posts>>

(* Any other failed read, or failed call, of setup and preparation.        *)
SetupStops(w) ==
    /\ worker[w].pc \in (SetupPCs \ {"release"}) \cup {"publish", "admit"}
    /\ Faulty
    /\ GoTo(w, "release")
    /\ UNCHANGED <<db, provider, wire, posts>>

Dies(w) ==
    /\ worker[w] # NoWorker
    /\ Faulty
    /\ GoTo(w, "idle")
    /\ UNCHANGED <<db, provider, wire, posts>>

Overdue(w, pcs) ==
    worker[w].pc \in pcs => worker[w].late /\ worker[w].pc \notin Waiting

BootLeaseExpires(w) ==
    /\ boot.lease = w
    /\ Overdue(w, SetupPCs \cup PreparePCs)
    /\ boot' = [boot EXCEPT !.lease = "none"]
    /\ UNCHANGED <<conn, order, enrol, target, provider, wire, posts, worker, faults>>

CleanupLeaseExpires(w) ==
    /\ order.lease = w
    /\ Overdue(w, CleanPCs \ {"retire", "claim"})
    /\ order' = [order EXCEPT !.lease = "none"]
    /\ UNCHANGED <<conn, boot, enrol, target, provider, wire, posts, worker, faults>>

-----------------------------------------------------------------------------
Setup(w) ==
    \/ Route(w) \/ CheckCapacity(w) \/ MarkFirewall(w) \/ PostFirewall(w) \/ FirewallReply(w)
    \/ SaveFirewall(w) \/ Protect(w) \/ Arm(w) \/ VerifyFirewall(w) \/ MarkPower(w)
    \/ PostPower(w) \/ PowerReply(w) \/ SavePower(w) \/ Poll(w) \/ Release(w)

Prepare(w) == InstallBundle(w) \/ Publish(w) \/ Admit(w)

Clean(w) ==
    \/ Retire(w) \/ ClaimCleanup(w) \/ VerifyLease(w) \/ Inspect(w) \/ Delete(w)
    \/ DeleteReply(w) \/ Reinspect(w) \/ RecordObservation(w)

Provider ==
    \/ MakeFirewall \/ FirewallApplies \/ PowerOn \/ ServerGone \/ FirewallDetaches
    \/ \E x \in Resources : DeleteLands(x)

Expiry(w) == BootLeaseExpires(w) \/ CleanupLeaseExpires(w)

Next ==
    \/ Provider \/ OwnerStops
    \/ GuestEnrols \/ WindowCloses \/ ReserveAgent
    \/ AbandonSetup \/ AbandonCleanup \/ Disconnect
    \/ \E w \in Workers :
          \/ ClaimSetup(w) \/ ClaimGuest(w) \/ CleanRequest(w)
          \/ Setup(w) \/ Prepare(w) \/ Clean(w)
          \/ BudgetEnds(w) \/ SetupStops(w) \/ Dies(w) \/ Expiry(w)

Spec == Init /\ [][Next]_vars

(* Requests and the provider run to their end, leases end, and the owner   *)
(* repeats a confirmed cleanup until it is done; faults are finite.        *)
Fairness ==
    /\ WF_vars(MakeFirewall) /\ WF_vars(FirewallApplies) /\ WF_vars(PowerOn)
    /\ WF_vars(ServerGone) /\ WF_vars(FirewallDetaches)
    /\ \A x \in Resources : WF_vars(DeleteLands(x))
    /\ \A w \in Workers : /\ WF_vars(Setup(w) \/ Prepare(w) \/ Clean(w))
                          /\ WF_vars(Expiry(w))
    /\ WF_vars(\E w \in Workers : order.status = "cleaning" /\ CleanRequest(w))

FairSpec == Spec /\ Fairness

-----------------------------------------------------------------------------
(* Properties.                                                             *)

(* An order is deleted only when the project holds none of its resources   *)
(* and no firewall can still appear: the manifest is never older than a    *)
(* firewall that setup made, and an acknowledged DELETE is no proof.       *)
DeletedMeansGone ==
    order.status = "deleted" => there = {} /\ "makeFirewall" \notin wire

(* The firewall and the power-on are sent at most once, through lost       *)
(* replies, deaths, expired leases and any number of setup requests.       *)
SentOnce == \A p \in Posts : posts[p] <= 1

(* A running server is behind its firewall from the moment it is powered   *)
(* on to its deletion, a power-on that lands late included.                *)
RunningProtected ==
    "server" \in there /\ power = "running" => "firewall" \in there /\ attach = "applied"

Dispatches(w) == worker'[w].pc \in Waiting /\ worker[w].pc \notin Waiting

(* No provider call is sent on behalf of a connection that is gone or a    *)
(* lease that is lost, though nothing but the clock is checked right       *)
(* before it; and setup and cleanup never send while the other is leased.  *)
FencedDispatch ==
    [][\A w \in Workers : Dispatches(w) =>
          /\ conn
          /\ \/ order.status = "created_off" /\ boot.lease = w /\ ~boot.abandoned
             \/ order.status = "cleaning" /\ order.lease = w /\ boot.lease = "none"]_vars

(* What a launch may be placed on, or an agent owns, is a computer no      *)
(* cleanup has begun to take down.                                         *)
TargetLive ==
    target \in {"published", "ready", "owned"} =>
       conn /\ order.status = "created_off" /\ "server" \in there

(* A cleanup the owner keeps asking for ends, unless it is forgotten.      *)
CleanupFinishes == order.status = "cleaning" ~> order.status # "cleaning"
=============================================================================
