---------------------------- MODULE VeniceCredit ----------------------------
(***************************************************************************)
(* Managed Venice credit: the wallet holds behind every model request.     *)
(*                                                                         *)
(* A request is carried by an edge process: the Cloudflare Worker, or a    *)
(* dashboard route (chat, Anthropic, Responses).  It has a hold made on    *)
(* the owner's wallet, talks to Venice, and then posts a settlement or a   *)
(* release to the dashboard, again and again until one is acknowledged.    *)
(* Every settlement is a job of database calls any of which may fail, have *)
(* its reply lost or be cut off.  The hourly sweep runs the same jobs from *)
(* the reconciliation items and from the holds that expired.               *)
(*                                                                         *)
(* Amounts are small integers; every hold reserves Reserved.  Identical    *)
(* open items of one request are one element of items: the sweep treats    *)
(* the second like an item whose hold is settled.                          *)
(***************************************************************************)
EXTENDS Integers, FiniteSets

CONSTANTS
    Requests,       \* references of model requests, each used once
    Route,          \* Requests -> "edge", "chat" or "responses"
    Calls,          \* dashboard invocations that settle or release a hold
    Sweepers,       \* runs of the hold sweep
    Wallet,         \* "card" or "token"
    Opening,        \* the wallet's balance at the start
    Reserved,       \* what one hold reserves
    Estimate,       \* holdEstimateMicroUsd: at most the hold
    Costs,          \* what an answered request may cost
    Sessions,       \* Stripe checkout sessions
    TopUp,          \* what one session credits
    SettleAttempts, \* SETTLE_ATTEMPTS of the Worker
    MaxFaults       \* bound: failed calls, lost replies and deaths

ASSUME JobAssumption ==
    /\ Calls \cap Sweepers = {}
    /\ "none" \notin Calls \cup Sweepers

ASSUME AmountAssumption ==
    /\ Reserved \in Nat \ {0} /\ Estimate \in 0..Reserved
    /\ Costs \subseteq Nat /\ Opening \in Nat /\ TopUp \in Nat

ASSUME BoundAssumption == SettleAttempts \in Nat \ {0} /\ MaxFaults \in Nat

ASSUME SetAssumption ==
    /\ IsFiniteSet(Requests)
    /\ Route \in [Requests -> {"edge", "chat", "responses"}]
    /\ Wallet \in {"card", "token"}

VARIABLES
    balance,    \* card ledger sum, or the value left in the token lots
    hold,       \* managed_venice_reservations
    overage,    \* Requests -> debited under "<reference>:overage"
    credited,   \* sessions with a stripe_topup ledger entry
    items,      \* open managed_venice_reconciliation_items
    key,        \* the proxy key: "active" or "paused"
    auth,       \* Requests -> the authorize call: none, sent, reserved, refused
    edge,       \* Requests -> the process carrying the request
    bill,       \* Requests -> what Venice did, and what it charged
    expired,    \* requests whose hold is past expires_at
    job,        \* Calls \cup Sweepers -> the settlement each is running
    faults      \* faults so far

wallet == <<balance, hold, overage, credited>>
request == <<auth, edge, bill>>
vars == <<balance, hold, overage, credited, items, key, auth, edge, bill,
          expired, job, faults>>

Jobs == Calls \cup Sweepers

RequestKinds == {"usage", "observed", "release", "unknown"}
SweepKinds == {"sweep", "expired"}
ItemKinds == {"capture", "release", "unknown", "overage"}
JobPCs == {"idle", "load", "capture", "overage", "record", "uncovered",
           "release", "file", "close", "ok", "failed"}
EdgePCs == {"idle", "authorizing", "sending", "posting", "waiting",
            "done", "gaveUp", "gone"}

Amount == Nat
Item == [req : Requests, kind : ItemKinds, cost : Amount]
NoJob == [pc |-> "idle"]
Job == [pc : JobPCs, req : Requests, kind : RequestKinds \cup SweepKinds,
        cost : Amount, short : BOOLEAN, from : ItemKinds]

TypeOK ==
    /\ balance \in Nat
    /\ hold \in [Requests -> [status : {"none", "active", "captured", "released"},
                              captured : 0..Reserved]]
    /\ overage \in [Requests -> Amount]
    /\ credited \subseteq Sessions
    /\ items \subseteq Item
    /\ key \in {"active", "paused"}
    /\ auth \in [Requests -> {"none", "sent", "reserved", "refused"}]
    /\ edge \in [Requests -> [pc : EdgePCs, want : RequestKinds \cup {"none"},
                              tries : 0..SettleAttempts, call : Calls \cup {"none"}]]
    /\ bill \in [Requests -> [venice : {"none", "refused", "lost", "answered"},
                              cost : Amount]]
    /\ expired \subseteq Requests
    /\ job \in [Jobs -> Job \cup {NoJob}]
    /\ faults \in 0..MaxFaults

Init ==
    /\ balance = Opening
    /\ hold = [r \in Requests |-> [status |-> "none", captured |-> 0]]
    /\ overage = [r \in Requests |-> 0]
    /\ credited = {}
    /\ items = {}
    /\ key = "active"
    /\ auth = [r \in Requests |-> "none"]
    /\ edge = [r \in Requests |-> [pc |-> "idle", want |-> "none", tries |-> 0,
                                   call |-> "none"]]
    /\ bill = [r \in Requests |-> [venice |-> "none", cost |-> 0]]
    /\ expired = {}
    /\ job = [j \in Jobs |-> NoJob]
    /\ faults = 0

-----------------------------------------------------------------------------
(* The wallet.                                                             *)

ActiveHolds == {r \in Requests : hold[r].status = "active"}

(* The balance left for a new hold, and the guard on a debit.  A card      *)
(* debit leaves every other active hold covered; a token debit only needs  *)
(* the lots to hold the amount.                                            *)
Available == balance - Reserved * Cardinality(ActiveHolds)

CanDebitUnheld(amount, own) == amount <= balance

CanDebit(amount, own) ==
    IF Wallet = "card"
      THEN amount <= balance - Reserved * Cardinality(ActiveHolds \ own)
      ELSE amount <= balance

(* A checkout webhook is delivered any number of times; the ledger entry   *)
(* is unique per session.  The key an uncovered overage paused is          *)
(* reactivated when the wallet is funded again.                            *)
GrantTopUp(x) ==
    /\ x \notin credited
    /\ credited' = credited \cup {x}
    /\ balance' = balance + TopUp
    /\ UNCHANGED <<hold, overage, items, key, request, expired, job, faults>>

Reactivate ==
    /\ key = "paused"
    /\ Available > 0
    /\ key' = "active"
    /\ UNCHANGED <<wallet, items, request, expired, job, faults>>

-----------------------------------------------------------------------------
(* The edge process of a request.                                          *)

Faulty == faults < MaxFaults /\ faults' = faults + 1
Fine == faults' = faults

MaxTries(r) == IF Route[r] = "edge" THEN SettleAttempts ELSE 1

EdgeTo(r, pc) == edge' = [edge EXCEPT ![r].pc = pc]
EdgeWants(r, want) == edge' = [edge EXCEPT ![r].pc = "posting", ![r].want = want]

(* The reference is chosen before authorize is called.                     *)
Start(r) ==
    /\ edge[r].pc = "idle"
    /\ EdgeTo(r, "authorizing")
    /\ auth' = [auth EXCEPT ![r] = "sent"]
    /\ UNCHANGED <<wallet, items, key, bill, expired, job, faults>>

(* Authorize reserves, under the balance guard of the insert; it may do so *)
(* after the edge has given up waiting for it.                             *)
AuthorizeReserve(r) ==
    /\ auth[r] = "sent"
    /\ key = "active"
    /\ hold[r].status = "none"
    /\ Reserved <= Available
    /\ hold' = [hold EXCEPT ![r].status = "active"]
    /\ auth' = [auth EXCEPT ![r] = "reserved"]
    /\ UNCHANGED <<balance, overage, credited, items, key, edge, bill, expired, job, faults>>

AuthorizeRefuse(r) ==
    /\ auth[r] = "sent"
    /\ key # "active" \/ Available < Reserved
    /\ auth' = [auth EXCEPT ![r] = "refused"]
    /\ UNCHANGED <<wallet, items, key, edge, bill, expired, job, faults>>

AuthorizeReply(r) ==
    /\ edge[r].pc = "authorizing"
    /\ \/ auth[r] = "reserved" /\ EdgeTo(r, "sending")
       \/ auth[r] = "refused" /\ EdgeTo(r, "done")
    /\ UNCHANGED <<wallet, items, key, auth, bill, expired, job, faults>>

(* The authorize reply is lost, or is a 5xx: the Worker releases by        *)
(* reference.  A dashboard route runs authorize itself: see EdgeDies.      *)
AuthorizeLost(r) ==
    /\ edge[r].pc = "authorizing"
    /\ Route[r] = "edge"
    /\ Faulty
    /\ EdgeWants(r, "release")
    /\ UNCHANGED <<wallet, items, key, auth, bill, expired, job>>

(* Venice answers 2xx, and its stream ends with the usage frame or without *)
(* it; the cost is the reported one, or the output read.                   *)
VeniceAnswers(r) ==
    /\ edge[r].pc = "sending"
    /\ \E want \in {"usage", "observed"}, cost \in Costs :
          /\ EdgeWants(r, want)
          /\ bill' = [bill EXCEPT ![r] = [venice |-> "answered", cost |-> cost]]
    /\ UNCHANGED <<wallet, items, key, auth, expired, job, faults>>

VeniceRefuses(r) ==
    /\ edge[r].pc = "sending"
    /\ EdgeWants(r, "release")
    /\ bill' = [bill EXCEPT ![r].venice = "refused"]
    /\ UNCHANGED <<wallet, items, key, auth, expired, job, faults>>

(* The request throws.  The Responses route files its outcome as unknown;  *)
(* the others take it for a request Venice did not run.                    *)
VeniceLost(r) ==
    /\ edge[r].pc = "sending"
    /\ Faulty
    /\ EdgeWants(r, IF Route[r] = "responses" THEN "unknown" ELSE "release")
    /\ bill' = [bill EXCEPT ![r].venice = "lost"]
    /\ UNCHANGED <<wallet, items, key, auth, expired, job>>

FirstStep(kind) ==
    CASE kind = "usage" -> "capture"
      [] kind = "unknown" -> "file"
      [] OTHER -> "load"

(* One attempt to settle or release: callSettle, or the route's own call.  *)
Post(r, c) ==
    /\ edge[r].pc = "posting"
    /\ edge[r].tries < MaxTries(r)
    /\ job[c] = NoJob
    /\ edge' = [edge EXCEPT ![r].pc = "waiting", ![r].tries = @ + 1, ![r].call = c]
    /\ job' = [job EXCEPT ![c] =
                 [pc |-> FirstStep(edge[r].want), req |-> r, kind |-> edge[r].want,
                  cost |-> bill[r].cost, short |-> FALSE, from |-> "capture"]]
    /\ UNCHANGED <<wallet, items, key, auth, bill, expired, faults>>

(* A 2xx ends the request; a 5xx is retried until the attempts run out.    *)
Reply(r) ==
    LET c == edge[r].call IN
    /\ edge[r].pc = "waiting"
    /\ job[c].pc \in {"ok", "failed"}
    /\ edge' = [edge EXCEPT ![r].pc = IF job[c].pc = "ok" THEN "done" ELSE "posting",
                            ![r].call = "none"]
    /\ job' = [job EXCEPT ![c] = NoJob]
    /\ UNCHANGED <<wallet, items, key, auth, bill, expired, faults>>

(* The Worker's connection breaks; the invocation goes on without it.      *)
ConnectionLost(r) ==
    /\ edge[r].pc = "waiting"
    /\ Route[r] = "edge"
    /\ Faulty
    /\ edge' = [edge EXCEPT ![r].pc = "posting", ![r].call = "none"]
    /\ UNCHANGED <<wallet, items, key, auth, bill, expired, job>>

GiveUp(r) ==
    /\ edge[r].pc = "posting"
    /\ edge[r].tries = MaxTries(r)
    /\ EdgeTo(r, "gaveUp")
    /\ UNCHANGED <<wallet, items, key, auth, bill, expired, job, faults>>

(* The platform stops the process.  A dashboard route takes its own        *)
(* settlement with it.                                                     *)
EdgeDies(r) ==
    /\ edge[r].pc \in {"authorizing", "sending", "posting", "waiting"}
    /\ Faulty
    /\ edge' = [edge EXCEPT ![r].pc = "gone", ![r].call = "none"]
    /\ job' = IF edge[r].pc = "waiting" /\ Route[r] # "edge"
                THEN [job EXCEPT ![edge[r].call] = NoJob] ELSE job
    /\ UNCHANGED <<wallet, items, key, auth, bill, expired>>

-----------------------------------------------------------------------------
(* Settlement jobs.  A job that ends is NoJob again.                       *)

At(j, pc) == job[j].pc = pc
WorksOn(j, r) == job[j] # NoJob /\ job[j].req = r
GoTo(j, pc) ==
    job' = [job EXCEPT ![j] = IF pc = "idle" THEN NoJob ELSE [@ EXCEPT !.pc = pc]]
ItemOf(j, kind) == [req |-> job[j].req, kind |-> kind, cost |-> job[j].cost]

(* Where a job goes when its settlement is complete, and when a call of it *)
(* throws: a request files an item, a sweep leaves the hold for a later    *)
(* run.                                                                    *)
Complete(kind) ==
    CASE kind = "sweep" -> "close"
      [] kind = "expired" -> "idle"
      [] OTHER -> "ok"
Thrown(kind) == IF kind \in SweepKinds THEN "idle" ELSE "file"

(* An item's reason decides what the sweep does with its hold.             *)
Decided(j) ==
    IF job[j].kind = "release" \/ job[j].from \in {"release", "unknown"}
      THEN "release" ELSE "capture"

(* The hold is read before it is released or charged.  A release by        *)
(* reference that finds no hold answers 5xx: authorize may still commit.   *)
Load(j) ==
    LET status == hold[job[j].req].status IN
    /\ At(j, "load")
    /\ GoTo(j, CASE status = "active" -> Decided(j)
                 [] status = "none" /\ job[j].kind = "release" -> "failed"
                 [] OTHER -> Complete(job[j].kind))
    /\ UNCHANGED <<wallet, items, key, request, expired, faults>>

(* The read throws.  A release by reference first looks for the owner, and *)
(* its failure there is a 5xx; a failure to read the hold found is filed.  *)
LoadFails(j) ==
    /\ At(j, "load")
    /\ Faulty
    /\ \/ hold[job[j].req].status # "none" /\ GoTo(j, Thrown(job[j].kind))
       \/ job[j].kind = "release" /\ GoTo(j, "failed")
    /\ UNCHANGED <<wallet, items, key, request, expired>>

CaptureAmountUncapped(j) == job[j].cost

CaptureAmount(j) == IF job[j].cost < Reserved THEN job[j].cost ELSE Reserved
OverageAmount(j) == job[j].cost - CaptureAmount(j)

AfterDebit(kind) == IF kind = "usage" THEN "record" ELSE Complete(kind)

CaptureCommitsTwice(j) ==
    LET r == job[j].req IN
    /\ At(j, "capture")
    /\ hold[r].status # "none"
    /\ CaptureAmount(j) > 0 => CanDebit(CaptureAmount(j), {r})
    /\ hold' = [hold EXCEPT ![r] = [status |-> "captured", captured |-> CaptureAmount(j)]]
    /\ balance' = balance - CaptureAmount(j)
    /\ \/ Fine /\ GoTo(j, IF OverageAmount(j) > 0 THEN "overage" ELSE AfterDebit(job[j].kind))
       \/ Faulty /\ GoTo(j, Thrown(job[j].kind))
    /\ UNCHANGED <<overage, credited, items, key, request, expired>>

(* capture_managed_venice_reservation: the debit and the end of the hold   *)
(* are one transaction.  Its reply may be lost.                            *)
CaptureCommits(j) ==
    LET r == job[j].req IN
    /\ At(j, "capture")
    /\ hold[r].status = "active"
    /\ CaptureAmount(j) > 0 => CanDebit(CaptureAmount(j), {r})
    /\ hold' = [hold EXCEPT ![r] = [status |-> "captured", captured |-> CaptureAmount(j)]]
    /\ balance' = balance - CaptureAmount(j)
    /\ \/ Fine /\ GoTo(j, IF OverageAmount(j) > 0 THEN "overage" ELSE AfterDebit(job[j].kind))
       \/ Faulty /\ GoTo(j, Thrown(job[j].kind))
    /\ UNCHANGED <<overage, credited, items, key, request, expired>>

CaptureFindsClosedCharges(j) ==
    /\ At(j, "capture")
    /\ hold[job[j].req].status \in {"captured", "released"}
    /\ GoTo(j, IF OverageAmount(j) > 0 THEN "overage" ELSE Complete(job[j].kind))
    /\ UNCHANGED <<wallet, items, key, request, expired, faults>>

(* captured=false: somebody else settled the hold; nothing moves.          *)
CaptureFindsClosed(j) ==
    /\ At(j, "capture")
    /\ hold[job[j].req].status \in {"captured", "released"}
    /\ GoTo(j, Complete(job[j].kind))
    /\ UNCHANGED <<wallet, items, key, request, expired, faults>>

CaptureThrows(j) ==
    /\ At(j, "capture")
    /\ \/ Fine /\ hold[job[j].req].status = "active"
               /\ CaptureAmount(j) > 0 /\ ~CanDebit(CaptureAmount(j), {job[j].req})
       \/ Faulty
    /\ GoTo(j, Thrown(job[j].kind))
    /\ UNCHANGED <<wallet, items, key, request, expired>>

(* debit_managed_venice_wallet, and the balance read after it, which may   *)
(* throw although the debit landed.  Only the capture of Venice's reported *)
(* usage lets the error out; elsewhere it is an overage to file.           *)
OverageThrown(kind) == IF kind = "usage" THEN "file" ELSE "uncovered"

OverageDebits(j) ==
    /\ At(j, "overage")
    /\ CanDebit(OverageAmount(j), {})
    /\ balance' = balance - OverageAmount(j)
    /\ overage' = [overage EXCEPT ![job[j].req] = @ + OverageAmount(j)]
    /\ \/ Fine /\ GoTo(j, AfterDebit(job[j].kind))
       \/ Faulty /\ GoTo(j, OverageThrown(job[j].kind))
    /\ UNCHANGED <<hold, credited, items, key, request, expired>>

OverageShort(j) ==
    /\ At(j, "overage")
    /\ ~CanDebit(OverageAmount(j), {})
    /\ job' = [job EXCEPT ![j].pc = IF job[j].kind = "usage" THEN "record" ELSE "uncovered",
                          ![j].short = TRUE]
    /\ UNCHANGED <<wallet, items, key, request, expired, faults>>

OverageFails(j) ==
    /\ At(j, "overage")
    /\ Faulty
    /\ GoTo(j, OverageThrown(job[j].kind))
    /\ UNCHANGED <<wallet, items, key, request, expired>>

(* The usage row and the financial event of an exact capture.              *)
Record(j) ==
    /\ At(j, "record")
    /\ \/ Fine /\ GoTo(j, IF job[j].short THEN "uncovered" ELSE Complete(job[j].kind))
       \/ Faulty /\ GoTo(j, Thrown(job[j].kind))
    /\ UNCHANGED <<wallet, items, key, request, expired>>

(* managed_venice_overage_uncovered: the item, then the pause of a key     *)
(* that is still active, only when the wallet was short.                   *)
FileUncovered(j) ==
    /\ At(j, "uncovered")
    /\ items' = items \cup {ItemOf(j, "overage")}
    /\ \/ Fine /\ key' = (IF job[j].short THEN "paused" ELSE key)
               /\ GoTo(j, Complete(job[j].kind))
       \/ Faulty /\ job[j].short /\ key' = key
                 /\ GoTo(j, IF job[j].kind = "usage" THEN "file" ELSE Complete(job[j].kind))
    /\ UNCHANGED <<wallet, request, expired>>

UncoveredFails(j) ==
    /\ At(j, "uncovered")
    /\ Faulty
    /\ GoTo(j, IF job[j].kind = "usage" THEN "file" ELSE Complete(job[j].kind))
    /\ UNCHANGED <<wallet, items, key, request, expired>>

(* releaseManagedVeniceReservation: a conditional update, so a capture     *)
(* that landed since the read stays.                                       *)
Release(j) ==
    LET r == job[j].req IN
    /\ At(j, "release")
    /\ hold' = IF hold[r].status = "active" THEN [hold EXCEPT ![r].status = "released"]
                                            ELSE hold
    /\ \/ Fine /\ GoTo(j, Complete(job[j].kind))
       \/ Faulty /\ GoTo(j, Thrown(job[j].kind))
    /\ UNCHANGED <<balance, overage, credited, items, key, request, expired>>

ReleaseFails(j) ==
    /\ At(j, "release")
    /\ Faulty
    /\ GoTo(j, Thrown(job[j].kind))
    /\ UNCHANGED <<wallet, items, key, request, expired>>

FiledKindEstimateReleased(kind) == IF kind \in {"release", "observed"} THEN "release"
                                   ELSE IF kind = "unknown" THEN kind ELSE "capture"

(* A request that could not settle leaves an open item with its number.    *)
FiledKind(kind) == IF kind \in {"release", "unknown"} THEN kind ELSE "capture"

File(j) ==
    /\ At(j, "file")
    /\ items' = items \cup {ItemOf(j, FiledKind(job[j].kind))}
    /\ \/ Fine /\ GoTo(j, "ok")
       \/ Faulty /\ GoTo(j, "failed")
    /\ UNCHANGED <<wallet, key, request, expired>>

FileFailsQuietly(j) ==
    /\ At(j, "file")
    /\ Faulty
    /\ GoTo(j, "ok")
    /\ UNCHANGED <<wallet, items, key, request, expired>>

FileFails(j) ==
    /\ At(j, "file")
    /\ Faulty
    /\ GoTo(j, "failed")
    /\ UNCHANGED <<wallet, items, key, request, expired>>

(* The answer of an invocation nobody waits for any more is dropped.       *)
AnswerDropped(c) ==
    /\ job[c].pc \in {"ok", "failed"}
    /\ \A r \in Requests : edge[r].call # c
    /\ GoTo(c, "idle")
    /\ UNCHANGED <<wallet, items, key, request, expired, faults>>

(* The platform cuts an invocation, or a sweep, off between two calls.     *)
JobDies(j) ==
    /\ job[j] # NoJob
    /\ \A r \in Requests : edge[r].call = j => Route[r] = "edge"
    /\ Faulty
    /\ GoTo(j, "idle")
    /\ edge' = [r \in Requests |->
                  IF edge[r].call = j THEN [edge[r] EXCEPT !.pc = "posting", !.call = "none"]
                                      ELSE edge[r]]
    /\ UNCHANGED <<wallet, items, key, auth, bill, expired>>

-----------------------------------------------------------------------------
(* The sweep.                                                              *)

SweepItemSkipsReleases(s, i) ==
    /\ job[s] = NoJob
    /\ i \in items /\ i.kind \notin {"overage", "release"}
    /\ job' = [job EXCEPT ![s] = [pc |-> "load", req |-> i.req, kind |-> "sweep",
                                  cost |-> i.cost, short |-> FALSE, from |-> i.kind]]
    /\ UNCHANGED <<wallet, items, key, request, expired, faults>>

(* Overage items are an operator's; the sweep takes the other reasons.     *)
SweepItem(s, i) ==
    /\ job[s] = NoJob
    /\ i \in items /\ i.kind # "overage"
    /\ job' = [job EXCEPT ![s] = [pc |-> "load", req |-> i.req, kind |-> "sweep",
                                  cost |-> i.cost, short |-> FALSE, from |-> i.kind]]
    /\ UNCHANGED <<wallet, items, key, request, expired, faults>>

CloseItem(s) ==
    /\ At(s, "close")
    /\ \/ Fine /\ items' = items \ {ItemOf(s, job[s].from)}
       \/ Faulty /\ items' = items
    /\ GoTo(s, "idle")
    /\ UNCHANGED <<wallet, key, request, expired>>

(* A chat hold lives a day, far longer than the request, its retries and   *)
(* any invocation made for it.                                             *)
HoldExpires(r) ==
    /\ hold[r].status = "active"
    /\ r \notin expired
    /\ edge[r].pc \in {"done", "gaveUp", "gone"}
    /\ ~\E c \in Calls : WorksOn(c, r)
    /\ expired' = expired \cup {r}
    /\ UNCHANGED <<wallet, items, key, request, job, faults>>

SweepExpiredAlways(s, r) ==
    /\ job[s] = NoJob
    /\ r \in expired
    /\ hold[r].status = "active"
    /\ job' = [job EXCEPT ![s] = [pc |-> "capture", req |-> r, kind |-> "expired",
                                  cost |-> Estimate, short |-> FALSE, from |-> "capture"]]
    /\ UNCHANGED <<wallet, items, key, request, expired, faults>>

(* An expired hold with no open item is charged its estimate.              *)
SweepExpired(s, r) ==
    /\ job[s] = NoJob
    /\ r \in expired
    /\ hold[r].status = "active"
    /\ \A i \in items : i.req # r
    /\ job' = [job EXCEPT ![s] = [pc |-> "capture", req |-> r, kind |-> "expired",
                                  cost |-> Estimate, short |-> FALSE, from |-> "capture"]]
    /\ UNCHANGED <<wallet, items, key, request, expired, faults>>

-----------------------------------------------------------------------------
EdgeProgress(r) ==
    \/ AuthorizeReserve(r) \/ AuthorizeRefuse(r) \/ AuthorizeReply(r)
    \/ VeniceAnswers(r) \/ VeniceRefuses(r)
    \/ \E c \in Calls : Post(r, c)
    \/ Reply(r) \/ GiveUp(r)

EdgeFault(r) ==
    AuthorizeLost(r) \/ VeniceLost(r) \/ ConnectionLost(r) \/ EdgeDies(r)

JobStep(j) ==
    \/ Load(j) \/ LoadFails(j)
    \/ CaptureCommits(j) \/ CaptureFindsClosed(j) \/ CaptureThrows(j)
    \/ OverageDebits(j) \/ OverageShort(j) \/ OverageFails(j)
    \/ Record(j) \/ FileUncovered(j) \/ UncoveredFails(j)
    \/ Release(j) \/ ReleaseFails(j)
    \/ File(j) \/ FileFails(j)

SweepStep(s) ==
    \/ \E i \in items : SweepItem(s, i)
    \/ CloseItem(s)
    \/ \E r \in Requests : SweepExpired(s, r)

Next ==
    \/ \E x \in Sessions : GrantTopUp(x)
    \/ Reactivate
    \/ \E r \in Requests : Start(r) \/ EdgeProgress(r) \/ EdgeFault(r) \/ HoldExpires(r)
    \/ \E j \in Jobs : JobStep(j) \/ JobDies(j)
    \/ \E c \in Calls : AnswerDropped(c)
    \/ \E s \in Sweepers : SweepStep(s)

Spec == Init /\ [][Next]_vars

(* What goes on by itself: invocations and the processes behind requests   *)
(* run, holds expire, and the hourly cron looks for open items and expired *)
(* holds.                                                                  *)
Work ==
    \/ \E s \in Sweepers : SweepStep(s)
    \/ \E j \in Jobs : JobStep(j)
    \/ \E r \in Requests : EdgeProgress(r) \/ HoldExpires(r)
    \/ \E c \in Calls : AnswerDropped(c)

(* Some of it is done as long as there is any; faults are finite           *)
(* (MaxFaults).                                                            *)
Fairness == WF_vars(Work)

FairSpec == Spec /\ Fairness

-----------------------------------------------------------------------------
(* Properties.                                                             *)

Charged(r) == hold[r].captured + overage[r]

(* Every active hold on a card wallet stays covered by its balance, while  *)
(* captures, overages of other requests and new holds race: the debit      *)
(* function's and the insert guard's promise.                              *)
HoldsCovered == Wallet = "card" => Available >= 0

(* A request is charged at most what it cost, in any number of attempts,   *)
(* lost replies and sweeps; a request with no recorded answer is charged   *)
(* nothing before its hold expires, and then at most the estimate.         *)
NeverOvercharged ==
    \A r \in Requests :
       Charged(r) <= IF r \in expired /\ bill[r].cost < Estimate THEN Estimate
                                                                  ELSE bill[r].cost

(* The hold of a request Venice answered is never released: a late release *)
(* of an earlier attempt or a release item cannot give the answer away.    *)
AnsweredKept ==
    \A r \in Requests : bill[r].venice = "answered" => hold[r].status # "released"

(* Once a release, or the filing of one, is acknowledged to the edge, no   *)
(* sweep and no late invocation charges the request.                       *)
ReleaseHonoured ==
    \A r \in Requests :
       edge[r].pc = "done" /\ edge[r].want \in {"release", "unknown"}
          => hold[r].status # "captured"

(* An acknowledged settlement is a captured hold or an open item: the edge *)
(* forgets the request only when its cost is on record.                    *)
SettlementRecorded ==
    \A r \in Requests :
       edge[r].pc = "done" /\ edge[r].want \in {"usage", "observed"}
          => \/ hold[r].status = "captured"
             \/ \E i \in items : i.req = r /\ i.kind = "capture"

(* What the capture's comment says of an overage: collected, or flagged,   *)
(* once the hold is captured and nobody is working on the request.         *)
OverageAccounted ==
    \A r \in Requests :
       /\ hold[r].status = "captured" /\ hold[r].captured = Reserved
       /\ bill[r].cost > Reserved /\ r \notin expired
       /\ ~\E j \in Jobs : WorksOn(j, r)
       /\ edge[r].pc = "done"
       => overage[r] > 0 \/ \E i \in items : i.req = r

(* "No hold is left active for good": the sweep captures or releases what  *)
(* requests, retries and lost replies leave behind, until no hold is open. *)
HoldsClose == []<>(\A r \in Requests : hold[r].status # "active")

(* The detailed system implements the ledger.                              *)
Ledger == INSTANCE CreditLedger WITH funds <- balance
ImplementsLedger == Ledger!Spec
=============================================================================
