--------------------------- MODULE CapacityOrders ---------------------------
(***************************************************************************)
(* Buying a Hetzner server: the capacity orders of one owner on one        *)
(* connection.                                                             *)
(*                                                                         *)
(* A create request (a worker) claims a quoted order and carries it to the *)
(* provider: SSH key first, then the paid server.  Each POST is preceded   *)
(* by a marker that is written once, its reply may be lost and it may take *)
(* effect late.  The owner repeats the request at will: a replay works     *)
(* from the row it read and reconciles by name, never by a second POST.    *)
(* Orders end as created_off, provider_rejected or ambiguous; an ambiguous *)
(* one may be resolved after the owner removed everything by hand, and the *)
(* connection may be deleted or forgotten.                                 *)
(*                                                                         *)
(* A server is numbered by how many the order has made, so its id is a     *)
(* number, 0 for none.  The provider's next actions follow its main        *)
(* action.  Observation times are left out: a late observation the         *)
(* database may refuse is here recorded.                                   *)
(***************************************************************************)
EXTENDS Integers, FiniteSets

CONSTANTS
    Orders,     \* quotes of one owner
    Workers,    \* create requests that run at the same time
    MaxFaults   \* bound: lost replies, failed reads, deaths, outages

ASSUME OrderAssumption == IsFiniteSet(Orders) /\ MaxFaults \in Nat

VARIABLES
    row,        \* infrastructure_capacity_orders
    young,      \* Orders -> markers written less than 60 s ago
    expired,    \* orders whose quote has expired
    conn,       \* the connection: ready, down (not ready) or gone
    prov,       \* Orders -> what the project holds for the order
    sent,       \* Orders -> POSTs that may still take effect
    worker,     \* the create requests
    resolver,   \* the external-cleanup request
    faults

vars == <<row, young, expired, conn, prov, sent, worker, resolver, faults>>
provider == <<prov, sent>>

Statuses == {"quoted", "creating", "created_off", "ambiguous", "provider_rejected",
             "removed"}
Seen == {"none", "initializing", "off", "running"}
Actions == {"none", "running", "success", "error"}
Row == [status : Statuses,
        key : {"none", "pending", "accepted", "ambiguous", "rejected"},
        srv : {"none", "pending", "accepted", "ambiguous"},
        id : Nat, action : Actions, seen : Seen,
        receipt : BOOLEAN, resolved : BOOLEAN, attached : BOOLEAN]
WorkerPCs == {"idle", "fresh", "markKey", "postKey", "findKey", "recordKey", "check",
              "reject", "markServer", "postServer", "findServer", "ambiguous",
              "progress", "observe", "saw", "result"}
NoWorker == [pc |-> "idle"]
Worker == [pc : WorkerPCs, o : Orders, keyed : BOOLEAN, quoted : BOOLEAN,
           say : {"none", "accepted", "ambiguous", "rejected"},
           id : Nat, action : Actions, seen : Seen]
NoResolver == [pc |-> "idle"]

TypeOK ==
    /\ row \in [Orders -> Row]
    /\ young \in [Orders -> SUBSET {"key", "server"}]
    /\ expired \subseteq Orders
    /\ conn \in {"ready", "down", "gone"}
    /\ prov \in [Orders -> [key : {"none", "here", "gone"}, keys : Nat,
                            server : {"none", "building", "off", "running", "gone"},
                            servers : Nat, action : Actions]]
    /\ sent \in [Orders -> SUBSET {"key", "server"}]
    /\ worker \in [Workers -> Worker \cup {NoWorker}]
    /\ resolver \in [pc : {"verify", "resolve"}, o : Orders, snap : Row] \cup {NoResolver}
    /\ faults \in 0..MaxFaults

Init ==
    /\ row = [o \in Orders |->
                [status |-> "quoted", key |-> "none", srv |-> "none", id |-> 0,
                 action |-> "none", seen |-> "none", receipt |-> FALSE,
                 resolved |-> FALSE, attached |-> TRUE]]
    /\ young = [o \in Orders |-> {}]
    /\ expired = {}
    /\ conn = "ready"
    /\ prov = [o \in Orders |-> [key |-> "none", keys |-> 0, server |-> "none",
                                 servers |-> 0, action |-> "none"]]
    /\ sent = [o \in Orders |-> {}]
    /\ worker = [w \in Workers |-> NoWorker]
    /\ resolver = NoResolver
    /\ faults = 0

Faulty == faults < MaxFaults /\ faults' = faults + 1
Fine == faults' = faults

-----------------------------------------------------------------------------
(* The row.                                                                *)

(* The partial unique index: at most one such order per owner, whatever    *)
(* connection it is on and after it is detached.                           *)
HoldsSlot(o) ==
    /\ ~row[o].resolved
    /\ row[o].status # "removed"
    /\ row[o].status \in {"creating", "ambiguous", "created_off"} \/ row[o].key = "accepted"

Open(o) ==
    /\ row[o].attached /\ ~row[o].resolved
    /\ row[o].status \in {"creating", "ambiguous"}

(* Once seen running, nothing else may be recorded as seen.                *)
MaySee(o, seen) == seen = "none" \/ row[o].seen # "running" \/ seen = "running"
SameId(o, id) == id = 0 \/ row[o].id \in {0, id}
ActionGrows(o, action) ==
    row[o].action \in {"none", action} \/ (row[o].action = "running" /\ action # "none")

At(w, pc) == worker[w].pc = pc
OrderOf(w) == worker[w].o
GoTo(w, pc) ==
    worker' = [worker EXCEPT ![w] = IF pc = "idle" THEN NoWorker ELSE [@ EXCEPT !.pc = pc]]
Shown(server) == CASE server = "building" -> "initializing"
                   [] server \in {"off", "running"} -> server
                   [] OTHER -> "none"

(* A stored function whose update matches no row returns null and the      *)
(* store throws: the worker ends with nothing written.                     *)
Update(w, o, guard, new, pc) ==
    \/ guard /\ row' = [row EXCEPT ![o] = new] /\ GoTo(w, pc)
    \/ ~guard /\ row' = row /\ GoTo(w, "idle")

-----------------------------------------------------------------------------
(* A create request.                                                       *)

Enter(w, o, pc) ==
    worker' = [worker EXCEPT ![w] =
                 [pc |-> pc, o |-> o, keyed |-> row[o].key = "accepted", quoted |-> FALSE,
                  say |-> "none", id |-> 0, action |-> "none", seen |-> "none"]]

(* Mutant: the unique index does not see the owner's other orders.         *)
ClaimQuoteBeside(w, o) ==
    /\ worker[w] = NoWorker
    /\ row[o].status = "quoted" /\ row[o].attached
    /\ o \notin expired /\ conn = "ready"
    /\ row' = [row EXCEPT ![o].status = "creating"]
    /\ Enter(w, o, "fresh")
    /\ UNCHANGED <<young, expired, conn, provider, resolver, faults>>

ClaimQuote(w, o) ==
    /\ worker[w] = NoWorker
    /\ row[o].status = "quoted" /\ row[o].attached
    /\ o \notin expired /\ conn = "ready"
    /\ \A p \in Orders : ~HoldsSlot(p)
    /\ row' = [row EXCEPT ![o].status = "creating"]
    /\ Enter(w, o, "fresh")
    /\ UNCHANGED <<young, expired, conn, provider, resolver, faults>>

(* Mutant: a replay starts over although a marker is set.                  *)
ReplayAtStart(o) ==
    IF row[o].srv # "none" /\ row[o].id # 0 /\ row[o].action # "none" THEN "observe" ELSE "fresh"

(* A replay goes on from the last marker, unless a request may still be at *)
(* work behind it.                                                         *)
ReplayAt(o) ==
    CASE row[o].srv # "none" /\ row[o].id # 0 /\ row[o].action # "none" -> "observe"
      [] row[o].srv # "none" -> "findServer"
      [] row[o].key \in {"pending", "ambiguous"} -> "findKey"
      [] OTHER -> "fresh"

Replay(w, o) ==
    /\ worker[w] = NoWorker
    /\ Open(o)
    /\ "server" \notin young[o]
    /\ row[o].key = "accepted" \/ "key" \notin young[o]
    /\ Enter(w, o, ReplayAt(o))
    /\ UNCHANGED <<row, young, expired, conn, provider, resolver, faults>>

(* What a worker knows of the row is what it read when it entered.         *)
(* rebuildFreshQuote: the price is asked for again; an expired quote, a    *)
(* changed price and a provider that does not answer all reject the order. *)
FreshQuote(w) ==
    /\ At(w, "fresh")
    /\ \/ /\ OrderOf(w) \notin expired
          /\ worker' = [worker EXCEPT
                          ![w].pc = IF worker[w].keyed THEN "check" ELSE "markKey",
                          ![w].quoted = TRUE]
       \/ GoTo(w, "reject")
    /\ UNCHANGED <<row, young, expired, conn, provider, resolver, faults>>

(* Mutant: an order is rejected without looking for a marked server POST.  *)
CanRejectBlindly(o) == row[o].attached /\ row[o].status = "creating" /\ row[o].id = 0

(* recordRejectedOrder: only while no server POST has been marked.         *)
CanReject(o) ==
    /\ row[o].attached /\ row[o].status = "creating"
    /\ row[o].srv = "none" /\ row[o].id = 0

RecordRejected(w) ==
    LET o == OrderOf(w) IN
    /\ At(w, "reject")
    /\ Update(w, o, CanReject(o), [row[o] EXCEPT !.status = "provider_rejected"], "idle")
    /\ UNCHANGED <<young, expired, conn, provider, resolver, faults>>

CanMarkKey(o) ==
    /\ row[o].attached /\ row[o].status = "creating"
    /\ row[o].key = "none"
    /\ conn = "ready"

MarkKey(w) ==
    LET o == OrderOf(w) IN
    /\ At(w, "markKey")
    /\ \/ /\ o \in expired /\ GoTo(w, "reject") /\ UNCHANGED <<row, young>>
       \/ /\ o \notin expired
          /\ Update(w, o, CanMarkKey(o), [row[o] EXCEPT !.key = "pending"], "postKey")
          /\ young' = IF CanMarkKey(o) THEN [young EXCEPT ![o] = @ \cup {"key"}] ELSE young
    /\ UNCHANGED <<expired, conn, provider, resolver, faults>>

(* The POST leaves within half a minute of its marker, or not at all; see  *)
(* WorkerEnds.  It is answered, refused for certain, or has no answer.     *)
MakeKey(o) == [prov EXCEPT ![o].key = "here", ![o].keys = @ + 1]
MakeServer(o) == [prov EXCEPT ![o].server = "building", ![o].servers = @ + 1,
                              ![o].action = "running"]

PostKey(w) ==
    LET o == OrderOf(w) IN
    /\ At(w, "postKey")
    /\ "key" \in young[o] /\ o \notin expired
    /\ \/ /\ prov' = MakeKey(o)
          /\ worker' = [worker EXCEPT ![w].pc = "recordKey", ![w].say = "accepted"]
          /\ Fine /\ sent' = sent
       \/ /\ worker' = [worker EXCEPT ![w].pc = "recordKey", ![w].say = "rejected"]
          /\ Fine /\ UNCHANGED provider
       \/ /\ sent' = [sent EXCEPT ![o] = @ \cup {"key"}]
          /\ GoTo(w, "findKey")
          /\ Faulty /\ prov' = prov
    /\ UNCHANGED <<row, young, expired, conn, resolver>>

(* findExactSshKey: by the order's own name, key and labels.               *)
FindKey(w) ==
    LET here == prov[OrderOf(w)].key = "here" IN
    /\ At(w, "findKey")
    /\ \/ here /\ Fine /\ worker' = [worker EXCEPT ![w].pc = "recordKey", ![w].say = "accepted"]
       \/ /\ (~here /\ Fine) \/ Faulty
          /\ worker' = [worker EXCEPT ![w].pc = "recordKey", ![w].say = "ambiguous"]
    /\ UNCHANGED <<row, young, expired, conn, provider, resolver>>

(* Mutant: the answer about the key becomes the status of the order.       *)
StatusAfterKeySaid(say) == say

StatusAfterKey(say) == CASE say = "accepted" -> "creating"
                         [] say = "ambiguous" -> "ambiguous"
                         [] OTHER -> "provider_rejected"

CanRecordKey(o, say) ==
    /\ row[o].attached
    /\ \/ row[o].status = "creating" /\ row[o].key = "pending"
       \/ /\ say # "rejected"
          /\ row[o].status = "ambiguous" /\ row[o].key = "ambiguous" /\ row[o].srv = "none"

RecordKey(w) ==
    LET o == OrderOf(w)  say == worker[w].say
        next == IF worker[w].quoted THEN "check" ELSE "fresh" IN
    /\ At(w, "recordKey")
    /\ IF CanRecordKey(o, say)
         THEN /\ row' = [row EXCEPT ![o].key = say, ![o].status = StatusAfterKey(say)]
              /\ worker' = [worker EXCEPT ![w] = IF say = "accepted"
                                                  THEN [@ EXCEPT !.pc = next, !.keyed = TRUE]
                                                  ELSE NoWorker]
         ELSE row' = row /\ GoTo(w, "idle")
    /\ UNCHANGED <<young, expired, conn, provider, resolver, faults>>

(* The quote once more, and no server of this name in the project.         *)
Visible(o) == prov[o].server \notin {"none", "gone"}

CheckBeforeServer(w) ==
    /\ At(w, "check")
    /\ \/ OrderOf(w) \notin expired /\ ~Visible(OrderOf(w)) /\ GoTo(w, "markServer")
       \/ GoTo(w, "reject")
    /\ UNCHANGED <<row, young, expired, conn, provider, resolver, faults>>

(* Mutant: a second worker marks the server POST again.                    *)
CanMarkServerAgain(o) ==
    /\ row[o].attached /\ row[o].status = "creating"
    /\ row[o].key = "accepted"
    /\ conn = "ready"

CanMarkServer(o) ==
    /\ row[o].attached /\ row[o].status = "creating"
    /\ row[o].key = "accepted" /\ row[o].srv = "none"
    /\ conn = "ready"

MarkServer(w) ==
    LET o == OrderOf(w) IN
    /\ At(w, "markServer")
    /\ \/ /\ o \in expired /\ GoTo(w, "reject") /\ UNCHANGED <<row, young>>
       \/ /\ o \notin expired
          /\ Update(w, o, CanMarkServer(o), [row[o] EXCEPT !.srv = "pending"], "postServer")
          /\ young' = IF CanMarkServer(o) THEN [young EXCEPT ![o] = @ \cup {"server"}] ELSE young
    /\ UNCHANGED <<expired, conn, provider, resolver, faults>>

PostServer(w) ==
    LET o == OrderOf(w) IN
    /\ At(w, "postServer")
    /\ "server" \in young[o] /\ o \notin expired
    /\ \/ /\ prov' = MakeServer(o)
          /\ worker' = [worker EXCEPT ![w].pc = "progress", ![w].id = prov'[o].servers]
          /\ Fine /\ sent' = sent
       \/ GoTo(w, "findServer") /\ Fine /\ UNCHANGED provider
       \/ /\ sent' = [sent EXCEPT ![o] = @ \cup {"server"}]
          /\ GoTo(w, "findServer")
          /\ Faulty /\ prov' = prov
    /\ UNCHANGED <<row, young, expired, conn, resolver>>

(* findExactServer, after a POST without a usable answer or in a replay    *)
(* that has no action to ask about.  Its server is never adopted as        *)
(* created_off.                                                            *)
FindServer(w) ==
    LET o == OrderOf(w) IN
    /\ At(w, "findServer")
    /\ \/ /\ Visible(o) /\ Fine
          /\ worker' = [worker EXCEPT ![w].pc = "ambiguous", ![w].id = prov[o].servers,
                                      ![w].seen = Shown(prov[o].server)]
       \/ /\ (~Visible(o) /\ Fine) \/ Faulty
          /\ GoTo(w, "ambiguous")
    /\ UNCHANGED <<row, young, expired, conn, provider, resolver>>

(* Without the state of the server when RecordProgress has recorded it.    *)
RecordAmbiguous(w) ==
    LET o == OrderOf(w)  id == worker[w].id
        seen == IF worker[w].action = "none" THEN worker[w].seen ELSE "none" IN
    /\ At(w, "ambiguous")
    /\ Update(w, o, Open(o) /\ SameId(o, id) /\ MaySee(o, seen),
              [row[o] EXCEPT !.status = "ambiguous",
                             !.id = IF id # 0 THEN id ELSE @,
                             !.srv = IF id # 0 \/ row[o].id # 0 THEN "accepted" ELSE "ambiguous",
                             !.seen = IF seen # "none" THEN seen ELSE @],
              "idle")
    /\ UNCHANGED <<young, expired, conn, provider, resolver, faults>>

(* The original receipt: only before anything else is known of the server. *)
CanRecordCreation(w) ==
    LET o == OrderOf(w) IN
    /\ conn = "ready" /\ Open(o)
    /\ row[o].key = "accepted" /\ row[o].srv # "none"
    /\ row[o].id = 0 /\ row[o].action = "none"

RecordCreation(w) ==
    LET o == OrderOf(w) IN
    /\ At(w, "progress")
    /\ Update(w, o, CanRecordCreation(w),
              [row[o] EXCEPT !.id = worker[w].id, !.srv = "accepted", !.action = "running",
                             !.seen = "initializing", !.receipt = TRUE],
              "observe")
    /\ UNCHANGED <<young, expired, conn, provider, resolver, faults>>

(* observeCapacityOrder: the action and the server, by id.  A read that    *)
(* fails, or a server that is gone, makes the order ambiguous.             *)
Observe(w) ==
    LET o == OrderOf(w) IN
    /\ At(w, "observe")
    /\ \/ /\ Visible(o) /\ Fine
          /\ worker' = [worker EXCEPT ![w].pc = "saw", ![w].id = row[o].id,
                                      ![w].action = prov[o].action,
                                      ![w].seen = Shown(prov[o].server)]
       \/ /\ (~Visible(o) /\ Fine) \/ Faulty
          /\ \E seen \in {"none", Shown(prov[o].server)} :
                worker' = [worker EXCEPT ![w].pc = "ambiguous", ![w].seen = seen,
                                         ![w].id = IF seen = "none" THEN 0 ELSE row[o].id]
    /\ UNCHANGED <<row, young, expired, conn, provider, resolver>>

(* Mutant: a server that is off is taken for a finished creation.          *)
AfterProgressOff(action, seen) ==
    CASE action = "error" \/ seen = "running" -> "ambiguous"
      [] seen = "off" -> "result"
      [] OTHER -> "idle"

AfterProgress(action, seen) ==
    CASE action = "error" \/ seen = "running" -> "ambiguous"
      [] action = "success" /\ seen = "off" -> "result"
      [] OTHER -> "idle"

RecordProgress(w) ==
    LET o == OrderOf(w)  new == worker[w] IN
    /\ At(w, "saw")
    /\ Update(w, o, /\ Open(o) /\ row[o].key = "accepted" /\ row[o].srv # "none"
                    /\ SameId(o, new.id) /\ MaySee(o, new.seen) /\ ActionGrows(o, new.action),
              [row[o] EXCEPT !.id = new.id, !.srv = "accepted", !.action = new.action,
                             !.seen = new.seen],
              AfterProgress(new.action, new.seen))
    /\ UNCHANGED <<young, expired, conn, provider, resolver, faults>>

RecordCreatedOff(w) ==
    LET o == OrderOf(w) IN
    /\ At(w, "result")
    /\ Update(w, o, /\ Open(o) /\ row[o].key = "accepted" /\ row[o].srv # "none"
                    /\ SameId(o, worker[w].id) /\ row[o].action # "error"
                    /\ row[o].seen # "running",
              [row[o] EXCEPT !.status = "created_off", !.id = worker[w].id,
                             !.action = "success", !.seen = "off"],
              "idle")
    /\ UNCHANGED <<young, expired, conn, provider, resolver, faults>>

(* The platform cuts a request off, a database call fails, the credential  *)
(* cannot be loaded, or the dispatch window has closed.                    *)
WorkerEnds(w) ==
    /\ worker[w] # NoWorker
    /\ \/ Faulty
       \/ Fine /\ At(w, "postKey") /\ ("key" \notin young[OrderOf(w)] \/ OrderOf(w) \in expired)
       \/ Fine /\ At(w, "postServer") /\ ("server" \notin young[OrderOf(w)] \/ OrderOf(w) \in expired)
    /\ GoTo(w, "idle")
    /\ UNCHANGED <<row, young, expired, conn, provider, resolver>>

WorkerStep(w) ==
    \/ FreshQuote(w) \/ RecordRejected(w) \/ MarkKey(w) \/ PostKey(w) \/ FindKey(w)
    \/ RecordKey(w) \/ CheckBeforeServer(w) \/ MarkServer(w) \/ PostServer(w)
    \/ FindServer(w) \/ RecordAmbiguous(w) \/ RecordCreation(w) \/ Observe(w)
    \/ RecordProgress(w) \/ RecordCreatedOff(w)

-----------------------------------------------------------------------------
(* The provider, and the owner in the provider's console (external).       *)

(* A POST whose answer was lost takes effect late, or never: this step may *)
(* not be taken.                                                           *)
PostLands(o) ==
    /\ \/ "key" \in sent[o] /\ prov' = MakeKey(o) /\ sent' = [sent EXCEPT ![o] = @ \ {"key"}]
       \/ "server" \in sent[o] /\ prov' = MakeServer(o)
                               /\ sent' = [sent EXCEPT ![o] = @ \ {"server"}]
    /\ UNCHANGED <<row, young, expired, conn, worker, resolver, faults>>

(* These are followed while the order is open: afterwards nothing reads    *)
(* the server's state.  A server may show as off before its creation is    *)
(* reported as a success, and is locked until then.                        *)
ProviderBuilds(o) ==
    /\ Open(o)
    /\ \/ /\ prov[o].action = "running" /\ prov[o].server = "building"
          /\ prov' = [prov EXCEPT ![o].server = "off"]
       \/ /\ prov[o].action = "running" /\ prov[o].server # "building"
          /\ prov' = [prov EXCEPT ![o].action = "success"]
       \/ /\ prov[o].action = "running" /\ prov[o].server = "building"
          /\ prov' = [prov EXCEPT ![o].action = "error"]
    /\ UNCHANGED <<row, young, expired, conn, sent, worker, resolver, faults>>

OwnerStarts(o) ==
    /\ Open(o) /\ prov[o].server = "off" /\ prov[o].action = "success"
    /\ prov' = [prov EXCEPT ![o].server = "running"]
    /\ UNCHANGED <<row, young, expired, conn, sent, worker, resolver, faults>>

OwnerStops(o) ==
    /\ Open(o) /\ prov[o].server = "running"
    /\ prov' = [prov EXCEPT ![o].server = "off"]
    /\ UNCHANGED <<row, young, expired, conn, sent, worker, resolver, faults>>

OwnerRemoves(o) ==
    /\ Open(o)
    /\ \/ Visible(o) /\ prov' = [prov EXCEPT ![o].server = "gone"]
       \/ prov[o].key = "here" /\ prov' = [prov EXCEPT ![o].key = "gone"]
    /\ UNCHANGED <<row, young, expired, conn, sent, worker, resolver, faults>>

(* The key's marker is the older one.                                      *)
MarkerAges(o) ==
    /\ Open(o)
    /\ young[o] # {}
    /\ young' = [young EXCEPT ![o] = IF "key" \in @ THEN @ \ {"key"} ELSE {}]
    /\ UNCHANGED <<row, expired, conn, provider, worker, resolver, faults>>

(* The quote is read only before the server is asked for.                  *)
QuoteExpires(o) ==
    /\ o \notin expired
    /\ row[o].status \in {"quoted", "creating", "ambiguous"} /\ row[o].attached
    /\ row[o].action = "none"
    /\ expired' = expired \cup {o}
    /\ UNCHANGED <<row, young, conn, provider, worker, resolver, faults>>

-----------------------------------------------------------------------------
(* Resolution after the owner cleaned up by hand.                          *)

(* Mutant: an order whose server POST was never answered is resolvable.    *)
ResolvableUnknown(o) ==
    /\ row[o].status = "ambiguous" /\ row[o].attached /\ ~row[o].resolved
    /\ ~row[o].receipt
    /\ row[o].key = "accepted" /\ row[o].srv # "none"
    /\ young[o] = {}

(* Only an order whose two resources are known by id, and long after its   *)
(* POSTs.                                                                  *)
Resolvable(o) ==
    /\ row[o].status = "ambiguous" /\ row[o].attached /\ ~row[o].resolved
    /\ ~row[o].receipt
    /\ row[o].id # 0 /\ row[o].key = "accepted" /\ row[o].srv = "accepted"
    /\ young[o] = {}

ReadScope(o) ==
    /\ resolver = NoResolver
    /\ Resolvable(o) /\ conn = "ready"
    /\ resolver' = [pc |-> "verify", o |-> o, snap |-> row[o]]
    /\ UNCHANGED <<row, young, expired, conn, provider, worker, faults>>

(* Server and key by id, and no server at all left in the project.         *)
VerifyAbsent ==
    /\ resolver.pc = "verify"
    /\ resolver' = IF prov[resolver.o].key # "here" /\ \A p \in Orders : ~Visible(p)
                     THEN [resolver EXCEPT !.pc = "resolve"] ELSE NoResolver
    /\ UNCHANGED <<row, young, expired, conn, provider, worker, faults>>

(* The row must be the one that was read: its hash is compared.            *)
Resolve ==
    /\ resolver.pc = "resolve"
    /\ row' = IF conn = "ready" /\ Resolvable(resolver.o) /\ row[resolver.o] = resolver.snap
                THEN [row EXCEPT ![resolver.o].resolved = TRUE] ELSE row
    /\ resolver' = NoResolver
    /\ UNCHANGED <<young, expired, conn, provider, worker, faults>>

-----------------------------------------------------------------------------
(* The connection.                                                         *)

ConnectionFails ==
    /\ conn = "ready" /\ Faulty /\ conn' = "down"
    /\ UNCHANGED <<row, young, expired, provider, worker, resolver>>

ConnectionRecovers ==
    /\ conn = "down" /\ conn' = "ready"
    /\ UNCHANGED <<row, young, expired, provider, worker, resolver, faults>>

Attached == {o \in Orders : row[o].attached}

(* capacity_busy                                                           *)
Busy(o) ==
    \/ row[o].status = "creating" \/ row[o].key = "pending" \/ row[o].srv = "pending"
    \/ row[o].status = "ambiguous" /\ young[o] # {}

(* capacity_force_forget_required                                          *)
Unresolved(o) ==
    /\ row[o].status = "ambiguous" /\ ~row[o].resolved
    /\ row[o].key # "none" \/ row[o].srv # "none"

Worthless(o) ==
    \/ row[o].status = "quoted"
    \/ row[o].status = "provider_rejected" /\ row[o].id = 0 /\ row[o].key # "accepted"

(* The orders without a trace are deleted, the others detached.            *)
Detach ==
    /\ row' = [o \in Orders |->
                 IF o \notin Attached THEN row[o]
                 ELSE IF Worthless(o) THEN [row[o] EXCEPT !.status = "removed", !.attached = FALSE]
                 ELSE [row[o] EXCEPT !.attached = FALSE]]
    /\ conn' = "gone"
    /\ UNCHANGED <<young, expired, provider, worker, resolver, faults>>

DeleteConnection ==
    /\ conn # "gone"
    /\ \A o \in Attached : ~Busy(o) /\ ~Unresolved(o)
    /\ Detach

ForceForget ==
    /\ conn # "gone"
    /\ \A o \in Attached : ~Busy(o)
    /\ \E o \in Attached : Unresolved(o)
    /\ \A o \in Attached : row[o].status = "ambiguous" \/ Worthless(o)
    /\ Detach

-----------------------------------------------------------------------------
OutsideStep(o) ==
    \/ PostLands(o) \/ ProviderBuilds(o)
    \/ OwnerStarts(o) \/ OwnerStops(o) \/ OwnerRemoves(o)
    \/ MarkerAges(o) \/ QuoteExpires(o)

Next ==
    \/ \E w \in Workers :
          \/ \E o \in Orders : ClaimQuote(w, o) \/ Replay(w, o)
          \/ WorkerStep(w) \/ WorkerEnds(w)
    \/ \E o \in Orders : OutsideStep(o) \/ ReadScope(o)
    \/ VerifyAbsent \/ Resolve
    \/ ConnectionFails \/ ConnectionRecovers \/ DeleteConnection \/ ForceForget

Spec == Init /\ [][Next]_vars

(* A request runs to its end, its markers age, the provider finishes its   *)
(* actions, the connection recovers and the owner repeats the request.     *)
Fairness ==
    /\ \A w \in Workers : WF_vars(WorkerStep(w)) /\ WF_vars(WorkerEnds(w))
    /\ \A o \in Orders :
          /\ WF_vars(MarkerAges(o)) /\ WF_vars(ProviderBuilds(o))
          /\ SF_vars(\E w \in Workers : Replay(w, o))
    /\ WF_vars(ConnectionRecovers)

FairSpec == Spec /\ Fairness

-----------------------------------------------------------------------------
(* Properties.                                                             *)

MayCost(o) == Visible(o) \/ "server" \in sent[o]

(* However often the request is repeated, by however many workers, with    *)
(* replies lost and effects late, an order makes at most one key and at    *)
(* most one paid server.                                                   *)
PostedOnce == \A o \in Orders : prov[o].keys <= 1 /\ prov[o].servers <= 1

(* A server that exists, or may still appear, belongs to an order that     *)
(* holds the owner's slot: none is behind a rejected, removed or resolved  *)
(* order, and so the owner never has two.                                  *)
ServerAccounted ==
    /\ \A o \in Orders : MayCost(o) => HoldsSlot(o) /\ row[o].status # "provider_rejected"
    /\ \A o, p \in Orders : MayCost(o) /\ MayCost(p) => o = p

(* created_off is said only of the order's own server, whose creation has  *)
(* succeeded at the provider, whoever observed it in whatever order.       *)
CreatedOffProven ==
    \A o \in Orders :
       row[o].status = "created_off"
          => row[o].id = 1 /\ prov[o].servers = 1 /\ prov[o].action = "success"

(* A resolved order has neither key nor server left, nor one to come.      *)
ResolvedGone ==
    \A o \in Orders :
       row[o].resolved => ~MayCost(o) /\ prov[o].key # "here" /\ sent[o] = {}

(* A rejected order frees the owner's slot only if it left no SSH key in   *)
(* the project: record_hetzner_cloud_capacity_order_result accepts the     *)
(* rejection by a request whose row is older than the key's marker.        *)
RejectedLeavesNoKey ==
    \A o \in Orders :
       row[o].status = "provider_rejected" /\ ~HoldsSlot(o) => prov[o].key # "here"

(* While the owner repeats the request, an order leaves "creating", except *)
(* when its server was once recorded as running.                           *)
CreatingEnds ==
    \A o \in Orders :
       row[o].status = "creating" ~> row[o].status # "creating" \/ row[o].seen = "running"

(* "Creating ... operations remain reconciliable through replay of the     *)
(* same key": once nothing changes at the provider any more, replays take  *)
(* an order out of "creating".  A status recorded as running is sticky in  *)
(* record_hetzner_cloud_capacity_order_progress and refuses them all.      *)
OrdersSettle ==
    \A o \in Orders :
       <>[][prov'[o] = prov[o]]_prov
          => (row[o].status = "creating" ~> row[o].status # "creating")
=============================================================================
