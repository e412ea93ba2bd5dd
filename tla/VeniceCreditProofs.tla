------------------------- MODULE VeniceCreditProofs -------------------------
(***************************************************************************)
(* Proofs about VeniceCredit for any number of requests, settlement        *)
(* invocations, sweeps, retries and faults: the wallet covers its holds,   *)
(* nobody is charged more than the request cost, what was acknowledged to  *)
(* the edge is on record, and the whole system implements CreditLedger.    *)
(***************************************************************************)
EXTENDS VeniceCredit, FiniteSetTheorems, TLAPS

-----------------------------------------------------------------------------
(* The inductive invariant.                                                *)

Billed == {"usage", "observed"}
Unbilled == {"release", "unknown"}
Begun == {"idle", "authorizing", "sending"}
Over == {"done", "gaveUp", "gone"}

(* What an item, or the sweep that took it, may say of a request.          *)
Fits(want, kind) ==
    /\ kind \in {"capture", "overage"} => want \in Billed
    /\ kind \in Unbilled => want = kind

(* A release on record: done, or left to the sweep by an open item.        *)
Freed(r) ==
    \/ hold[r].status = "released"
    \/ hold[r].status = "active" /\ \E i \in items : i.req = r

(* A settlement on record.                                                 *)
Recorded(r) ==
    \/ hold[r].status = "captured"
    \/ \E i \in items : i.req = r /\ i.kind = "capture"

(* What the edge wants is what Venice did, and needs a hold except for a   *)
(* release after a lost authorize.                                         *)
EdgeGood(r) ==
    /\ edge[r].pc \in {"posting", "waiting", "gaveUp"} => edge[r].want \in RequestKinds
    /\ edge[r].pc \in Begun => edge[r].want = "none" /\ bill[r].venice = "none"
    /\ edge[r].pc = "sending" => hold[r].status # "none"
    /\ edge[r].want \in {"usage", "observed", "unknown"} => hold[r].status # "none"
    /\ edge[r].want \in Billed <=> bill[r].venice = "answered"
    /\ bill[r].venice # "answered" => bill[r].cost = 0
    /\ auth[r] = "reserved" => hold[r].status # "none"

(* A waiting edge has a running invocation of its own.                     *)
CallGood(r) ==
    /\ edge[r].pc # "waiting" => edge[r].call = "none"
    /\ edge[r].pc = "waiting" =>
          /\ edge[r].call \in Calls
          /\ job[edge[r].call] # NoJob
          /\ job[edge[r].call].req = r

(* A hold is captured for an answer or for its expiry, and released only   *)
(* for a request without an answer.                                        *)
HoldGood(r) ==
    /\ hold[r].status # "captured" => hold[r].captured = 0 /\ overage[r] = 0
    /\ overage[r] > 0 => hold[r].captured = Reserved
    /\ hold[r].status = "captured" => edge[r].want \in Billed \/ r \in expired
    /\ hold[r].status = "released" => edge[r].want \in Unbilled
    /\ r \in expired => edge[r].pc \in Over

(* A job carries the intent and the cost of its request; an expired hold   *)
(* is charged its estimate, when no invocation is left.                    *)
JobShape(j) == job[j] # NoJob =>
    LET r == job[j].req
        kind == job[j].kind IN
    /\ job[j].pc # "idle"
    /\ j \in Calls => /\ kind \in RequestKinds /\ kind = edge[r].want
                      /\ job[j].from = "capture" /\ job[j].cost = bill[r].cost
                      /\ r \notin expired
    /\ j \in Sweepers => kind \in SweepKinds
    /\ kind = "sweep" => /\ job[j].from # "overage" /\ Fits(edge[r].want, job[j].from)
                         /\ job[j].cost = bill[r].cost
    /\ kind = "expired" => /\ job[j].cost = Estimate /\ r \in expired
                           /\ job[j].pc = "capture"

(* Where a job stands follows from what it is for.                         *)
JobStage(j) == job[j] # NoJob =>
    LET want == edge[job[j].req].want
        kind == job[j].kind
        pc == job[j].pc IN
    /\ pc = "load" => kind \notin {"unknown", "usage"}
    /\ pc \in {"capture", "overage", "record", "uncovered"} /\ kind # "expired"
          => want \in Billed
    /\ pc = "release" => want \in Unbilled
    /\ pc = "record" => kind = "usage"
    /\ pc \in {"file", "ok", "failed"} => kind \in RequestKinds
    /\ pc = "close" => kind = "sweep"

(* What a job has done to the hold stays done.                             *)
JobHold(j) == job[j] # NoJob =>
    LET r == job[j].req
        pc == job[j].pc IN
    /\ job[j].kind # "release" \/ pc \notin {"load", "failed"} => hold[r].status # "none"
    /\ pc = "close" => hold[r].status \in {"captured", "released"}
    /\ pc \in {"overage", "record", "uncovered"} => hold[r].status = "captured"
    /\ pc = "overage" => /\ hold[r].captured = Reserved /\ overage[r] = 0
                         /\ job[j].cost > Reserved

(* An invocation answers 2xx only when its outcome is on record.           *)
JobAnswer(j) == job[j] # NoJob /\ job[j].pc = "ok" =>
    /\ job[j].kind \in Unbilled => Freed(job[j].req)
    /\ job[j].kind \in Billed => Recorded(job[j].req)

JobGood(j) == JobShape(j) /\ JobStage(j) /\ JobHold(j) /\ JobAnswer(j)

(* One job at most debits the overage of a request.                        *)
OverageOwned ==
    \A j, k \in Jobs :
       job[j].pc = "overage" /\ job[k].pc = "overage" /\ job[j].req = job[k].req => j = k

ItemGood(i) ==
    /\ Fits(edge[i.req].want, i.kind)
    /\ i.cost = bill[i.req].cost
    /\ hold[i.req].status # "none"

(* What was acknowledged to the edge is on record, and no sweep is about   *)
(* to charge a request whose release was.                                  *)
Expiring(j, r) == job[j] # NoJob /\ job[j].req = r /\ job[j].kind = "expired"

DoneGood(r) == edge[r].pc = "done" =>
    /\ edge[r].want \in Billed => Recorded(r)
    /\ edge[r].want \in Unbilled => Freed(r) /\ \A j \in Jobs : ~Expiring(j, r)

RequestsGood == \A r \in Requests : EdgeGood(r) /\ CallGood(r) /\ HoldGood(r) /\ DoneGood(r)
JobsGood == \A j \in Jobs : JobGood(j)
ItemsGood == \A i \in items : ItemGood(i)

IInv ==
    /\ TypeOK
    /\ HoldsCovered
    /\ NeverOvercharged
    /\ RequestsGood
    /\ JobsGood
    /\ OverageOwned
    /\ ItemsGood

-----------------------------------------------------------------------------
(* Typing and arithmetic.                                                  *)

HoldRow == [status : {"none", "active", "captured", "released"}, captured : 0..Reserved]
EdgeRow == [pc : EdgePCs, want : RequestKinds \cup {"none"}, tries : 0..SettleAttempts,
            call : Calls \cup {"none"}]
BillRow == [venice : {"none", "refused", "lost", "answered"}, cost : Amount]

(* The number of active holds is a number.                                 *)
LEMMA ActiveFinite ==
  IsFiniteSet(ActiveHolds) /\ Cardinality(ActiveHolds) \in Nat
BY SetAssumption, FS_Subset, FS_CardinalityType DEF ActiveHolds

LEMMA OthersFinite ==
  ASSUME NEW r
  PROVE  Cardinality(ActiveHolds \ {r}) \in Nat
BY ActiveFinite, FS_Difference, FS_CardinalityType

(* One hold more takes what it reserves out of what is available.          *)
LEMMA ReserveMore ==
  ASSUME NEW n \in Nat
  PROVE  Reserved * n \in Nat /\ Reserved * (n + 1) = Reserved * n + Reserved
BY AmountAssumption, SMT

LEMMA ReserveProduct ==
  ASSUME NEW n \in Nat
  PROVE  Reserved * n \in Nat
BY AmountAssumption, SMT

(* A debit the wallet accepts is within its balance.                       *)
LEMMA DebitWithin ==
  ASSUME TypeOK, NEW amount \in Nat, NEW r, CanDebit(amount, {r}) \/ CanDebit(amount, {})
  PROVE  amount <= balance
<1>1. ActiveHolds \ {} = ActiveHolds
  OBVIOUS
<1>2. Reserved * Cardinality(ActiveHolds \ {r}) \in Nat /\ Reserved * Cardinality(ActiveHolds) \in Nat
  BY ActiveFinite, OthersFinite, ReserveProduct
<1>3. balance \in Nat
  BY DEF TypeOK
<1> DEFINE a == Reserved * Cardinality(ActiveHolds \ {r})
           b == Reserved * Cardinality(ActiveHolds)
<1>4. (amount <= balance - a) \/ (amount <= balance - b) \/ (amount <= balance)
  BY <1>1 DEF CanDebit
<1>5. a \in Nat /\ b \in Nat
  BY <1>2
<1> HIDE DEF a, b
<1> QED
  BY <1>3, <1>4, <1>5

(* A step that neither moves money nor opens or closes a hold.             *)
LEMMA CoveredKept ==
  ASSUME HoldsCovered, UNCHANGED <<balance, hold>>
  PROVE  HoldsCovered'
<1>1. ActiveHolds' = ActiveHolds
  BY DEF ActiveHolds
<1> QED
  BY <1>1 DEF HoldsCovered, Available

-----------------------------------------------------------------------------
(* Effects of the small state changes.                                     *)

Others(j) == \A k \in Jobs : k # j => job'[k] = job[k]
JobTyped == job \in [Jobs -> Job \cup {NoJob}]
SameJob(j) ==
    /\ job'[j].req = job[j].req /\ job'[j].kind = job[j].kind
    /\ job'[j].cost = job[j].cost /\ job'[j].from = job[j].from

LEMMA BusyTyped ==
  ASSUME TypeOK, NEW j \in Jobs, job[j].pc # "idle" \/ job[j] # NoJob
  PROVE  /\ job[j] \in Job /\ job[j].req \in Requests /\ job[j].cost \in Nat
         /\ job[j] # NoJob
BY DEF TypeOK, Job, NoJob, Amount

LEMMA GoToEffect ==
  ASSUME TypeOK, NEW j \in Jobs, NEW pc \in JobPCs, job[j] # NoJob, GoTo(j, pc)
  PROVE  /\ JobTyped' /\ Others(j)
         /\ pc = "idle" => job'[j] = NoJob
         /\ pc # "idle" => job'[j] # NoJob /\ job'[j].pc = pc /\ SameJob(j) /\ job'[j].short = job[j].short
<1> DEFINE new == [job[j] EXCEPT !.pc = pc]
<1>1. job[j] \in Job
  BY BusyTyped
<1>2. /\ new \in Job /\ new.pc = pc /\ new.req = job[j].req /\ new.kind = job[j].kind
      /\ new.cost = job[j].cost /\ new.from = job[j].from /\ new.short = job[j].short
  BY <1>1 DEF Job
<1>3. job' = [job EXCEPT ![j] = IF pc = "idle" THEN NoJob ELSE new]
  BY DEF GoTo
<1> HIDE DEF new
<1>4. JobTyped' /\ Others(j) /\ job'[j] = (IF pc = "idle" THEN NoJob ELSE new)
  BY <1>2, <1>3 DEF TypeOK, JobTyped, Others
<1>5. NoJob.pc = "idle"
  BY DEF NoJob
<1> QED
  BY <1>2, <1>4, <1>5 DEF SameJob

-----------------------------------------------------------------------------
(* Steps of a job that leave the wallet and the requests alone.            *)

Quiet == UNCHANGED <<balance, hold, overage, credited, auth, edge, bill, expired>>

(* Such a step keeps the invariant when it keeps it for its own job, adds  *)
(* only sound items, ends no invocation an edge waits for and starts no    *)
(* overage and no charge of a released request.                            *)
LEMMA JobMove ==
  ASSUME IInv, NEW j \in Jobs, Quiet,
         faults' \in 0..MaxFaults, key' \in {"active", "paused"},
         items \subseteq items', items' \subseteq Item,
         \A i \in items' \ items : ItemGood(i),
         JobTyped', Others(j), JobGood(j)',
         job'[j].pc = "overage" => job[j].pc = "overage" /\ job'[j].req = job[j].req,
         \A r \in Requests : edge[r].call = j /\ edge[r].pc = "waiting"
            => job'[j] # NoJob /\ job'[j].req = r,
         \A r \in Requests : edge[r].pc = "done" /\ edge[r].want \in Unbilled
            => ~(job'[j] # NoJob /\ job'[j].req = r /\ job'[j].kind = "expired")
  PROVE  IInv'
<1>1. TypeOK'
  BY DEF IInv, TypeOK, JobTyped, Quiet
<1>2. HoldsCovered'
  BY CoveredKept DEF IInv, Quiet
<1>3. NeverOvercharged'
  BY DEF IInv, NeverOvercharged, Charged, Quiet
<1>4. \A r \in Requests : (Freed(r) => Freed(r)') /\ (Recorded(r) => Recorded(r)')
  BY DEF Freed, Recorded, Quiet
<1>5. RequestsGood'
  <2> SUFFICES ASSUME NEW r \in Requests
               PROVE  EdgeGood(r)' /\ CallGood(r)' /\ HoldGood(r)' /\ DoneGood(r)'
    BY DEF RequestsGood
  <2>1. EdgeGood(r) /\ CallGood(r) /\ HoldGood(r) /\ DoneGood(r)
    BY DEF IInv, RequestsGood
  <2>2. EdgeGood(r)' /\ HoldGood(r)'
    BY <2>1 DEF EdgeGood, HoldGood, Quiet
  <2>3. CallGood(r)'
    BY <2>1 DEF CallGood, Quiet, Others, Jobs
  <2>4. DoneGood(r)'
    <3>1. edge' = edge
      BY DEF Quiet
    <3>2. ASSUME edge[r].pc = "done", edge[r].want \in Unbilled, NEW k \in Jobs
          PROVE  ~Expiring(k, r)'
      <4>1. CASE k = j
        BY <4>1, <3>2 DEF Expiring
      <4>2. CASE k # j
        BY <4>2, <3>2, <2>1 DEF Expiring, DoneGood, Others
      <4> QED
        BY <4>1, <4>2
    <3> QED
      BY <2>1, <3>1, <3>2, <1>4 DEF DoneGood
  <2> QED
    BY <2>2, <2>3, <2>4
<1>6. JobsGood'
  <2> SUFFICES ASSUME NEW k \in Jobs, k # j
               PROVE  JobGood(k)'
    BY DEF JobsGood
  <2>1. JobGood(k) /\ job'[k] = job[k]
    BY DEF IInv, JobsGood, Others
  <2>2. JobShape(k)' /\ JobStage(k)' /\ JobHold(k)'
    BY <2>1 DEF JobGood, JobShape, JobStage, JobHold, Quiet
  <2>3. JobAnswer(k)'
    <3>1. job[k] # NoJob => job[k].req \in Requests
      BY BusyTyped DEF IInv
    <3> QED
      BY <2>1, <3>1, <1>4 DEF JobGood, JobAnswer
  <2> QED
    BY <2>2, <2>3 DEF JobGood
<1>7. OverageOwned'
  BY DEF IInv, OverageOwned, Others
<1>8. ItemsGood'
  <2> SUFFICES ASSUME NEW i \in items'
               PROVE  ItemGood(i)'
    BY DEF ItemsGood
  <2>1. ItemGood(i)
    BY DEF IInv, ItemsGood
  <2> QED
    BY <2>1 DEF ItemGood, Quiet
<1> QED
  BY <1>1, <1>2, <1>3, <1>5, <1>6, <1>7, <1>8 DEF IInv

(* What the invariant says of a running job and its request.               *)
LEMMA Known ==
  ASSUME IInv, NEW j \in Jobs, job[j].pc # "idle"
  PROVE  LET r == job[j].req IN
         /\ job[j] # NoJob /\ r \in Requests /\ job[j].cost \in Nat
         /\ job[j].kind \in RequestKinds \cup SweepKinds
         /\ job[j].from \in ItemKinds /\ job[j].short \in BOOLEAN
         /\ JobGood(j) /\ EdgeGood(r) /\ HoldGood(r)
         /\ hold[r].status \in {"none", "active", "captured", "released"}
         /\ hold[r].captured \in 0..Reserved /\ overage[r] \in Nat
         /\ bill[r].cost \in Nat
         /\ edge[r].want \in RequestKinds \cup {"none"}
<1>1. job[j] \in Job /\ job[j].req \in Requests /\ job[j].cost \in Nat /\ job[j] # NoJob
  BY BusyTyped DEF IInv
<1>2. JobGood(j) /\ EdgeGood(job[j].req) /\ HoldGood(job[j].req)
  BY <1>1 DEF IInv, JobsGood, RequestsGood
<1>3. /\ job[j].kind \in RequestKinds \cup SweepKinds
      /\ job[j].from \in ItemKinds /\ job[j].short \in BOOLEAN
  BY <1>1 DEF Job
<1>4. hold[job[j].req] \in HoldRow /\ edge[job[j].req] \in EdgeRow /\ overage[job[j].req] \in Nat
      /\ bill[job[j].req] \in BillRow
  BY <1>1 DEF IInv, TypeOK, HoldRow, EdgeRow, Amount, BillRow
<1> QED
  BY <1>1, <1>2, <1>3, <1>4 DEF HoldRow, EdgeRow, BillRow, Amount

(* Calls and sweeps are different processes.                               *)
LEMMA Sorts ==
  ASSUME NEW j \in Jobs
  PROVE  (j \in Calls \/ j \in Sweepers) /\ ~(j \in Calls /\ j \in Sweepers)
BY JobAssumption DEF Jobs

LEMMA StepOn ==
  ASSUME IInv, NEW j \in Jobs, job[j].pc # "idle", Quiet,
         faults' \in 0..MaxFaults, key' \in {"active", "paused"},
         items \subseteq items', items' \subseteq Item,
         \A i \in items' \ items : ItemGood(i),
         JobTyped', Others(j),
         job'[j] # NoJob =>
            /\ SameJob(j) /\ job'[j].pc \notin {"idle", "overage"} /\ job[j].kind # "expired"
            /\ JobStage(j)' /\ JobHold(j)' /\ JobAnswer(j)',
         job'[j] = NoJob =>
            job[j].kind \in SweepKinds \/ \A r \in Requests : edge[r].call # j
  PROVE  IInv'
<1>1. job[j] # NoJob /\ JobGood(j) /\ job[j].req \in Requests
  BY Known
<1>2. JobGood(j)'
  <2>1. CASE job'[j] = NoJob
    BY <2>1 DEF JobGood, JobShape, JobStage, JobHold, JobAnswer
  <2>2. CASE job'[j] # NoJob
    <3>1. JobShape(j)'
      BY <2>2, <1>1 DEF JobGood, JobShape, SameJob, Quiet
    <3> QED
      BY <3>1, <2>2 DEF JobGood
  <2> QED
    BY <2>1, <2>2
<1>3. NoJob.pc = "idle"
  BY DEF NoJob
<1>4. ASSUME NEW r \in Requests, edge[r].call = j, edge[r].pc = "waiting"
      PROVE  job'[j] # NoJob /\ job'[j].req = r
  <2>1. j \in Calls /\ job[j].req = r
    BY <1>4 DEF IInv, RequestsGood, CallGood
  <2>2. job[j].kind \notin SweepKinds
    BY <2>1, <1>1 DEF JobGood, JobShape, RequestKinds, SweepKinds
  <2> QED
    BY <2>1, <2>2, <1>4 DEF SameJob
<1>5. ASSUME NEW r \in Requests, edge[r].pc = "done", edge[r].want \in Unbilled
      PROVE  ~(job'[j] # NoJob /\ job'[j].req = r /\ job'[j].kind = "expired")
  BY DEF SameJob
<1> QED
  BY <1>2, <1>3, <1>4, <1>5, JobMove

LEMMA FaultTyped ==
  ASSUME IInv, Faulty \/ Fine
  PROVE  faults' \in 0..MaxFaults
BY BoundAssumption DEF IInv, TypeOK, Faulty, Fine

(* What a job's request wants, by the job's kind.                          *)
LEMMA Wants ==
  ASSUME IInv, NEW j \in Jobs, job[j].pc # "idle"
  PROVE  LET r == job[j].req IN
         /\ job[j].kind \in RequestKinds => job[j].kind = edge[r].want /\ r \notin expired
         /\ job[j].kind \in RequestKinds => j \in Calls
         /\ edge[r].want \in Billed => hold[r].status \notin {"none", "released"}
         /\ edge[r].want \in Unbilled /\ r \notin expired => hold[r].status # "captured"
         /\ job[j].kind # "expired" => job[j].cost = bill[r].cost
         /\ job[j].kind = "sweep" => edge[r].want \in Billed \cup Unbilled
         /\ job[j].kind = "sweep" /\ edge[r].want \in Billed => job[j].from = "capture"
         /\ job[j].kind = "sweep" /\ edge[r].want \in Unbilled => job[j].from \in Unbilled
BY Known, Sorts DEF JobGood, JobShape, EdgeGood, HoldGood, RequestKinds, SweepKinds, ItemKinds,
                    Billed, Unbilled, Fits

LEMMA LoadStep ==
  ASSUME IInv, NEW j \in Jobs, Load(j) \/ LoadFails(j)
  PROVE  IInv'
<1> DEFINE r == job[j].req
           kind == job[j].kind
           status == hold[r].status
           pc == CASE status = "active" -> Decided(j)
                   [] status = "none" /\ kind = "release" -> "failed"
                   [] OTHER -> Complete(kind)
<1>1. job[j].pc = "load" /\ job[j].pc # "idle"
  BY DEF Load, LoadFails, At
<1>2. Quiet /\ items' = items /\ key' = key /\ faults' \in 0..MaxFaults
  BY FaultTyped DEF Load, LoadFails, wallet, request, Quiet, Fine
<1>3. kind \in {"observed", "release", "sweep"}
  BY <1>1, Known DEF JobGood, JobShape, JobStage, RequestKinds, SweepKinds
<1>4. CASE Load(j)
  <2>1. GoTo(j, pc)
    BY <1>4 DEF Load
  <2>2. /\ pc \in {"release", "capture", "failed", "close", "ok"}
        /\ pc \in {"release", "capture"} => status = "active"
        /\ pc = "release" => edge[r].want \in Unbilled
        /\ pc = "capture" => edge[r].want \in Billed
        /\ pc = "failed" => kind = "release"
        /\ pc = "close" => kind = "sweep" /\ status \in {"captured", "released"}
        /\ pc = "ok" => /\ kind \in {"observed", "release"}
                        /\ status = (IF kind = "release" THEN "released" ELSE "captured")
    <3>1. status = "active" => pc = Decided(j)
      OBVIOUS
    <3>2. status = "active" => /\ pc \in {"release", "capture"}
                               /\ pc = "release" => edge[r].want \in Unbilled
                               /\ pc = "capture" => edge[r].want \in Billed
      BY <3>1, <1>1, <1>3, Wants, Known
         DEF Decided, RequestKinds, SweepKinds, Unbilled, Billed, ItemKinds, JobGood, JobShape
    <3>3. status = "none" => kind = "release"
      BY <1>1, Known DEF JobGood, JobHold
    <3>4. status = "none" => pc = "failed" /\ kind = "release"
      BY <3>3
    <3>5. status \notin {"active", "none"} => pc = Complete(kind)
      OBVIOUS
    <3>6. status \notin {"active", "none"} =>
             /\ pc \in {"close", "ok"} /\ status \in {"captured", "released"}
             /\ pc = "close" => kind = "sweep"
             /\ pc = "ok" => /\ kind \in {"observed", "release"}
                             /\ status = (IF kind = "release" THEN "released" ELSE "captured")
      <4>1. status \in {"none", "active", "captured", "released"}
        BY <1>1, Known
      <4>2. kind = "sweep" => Complete(kind) = "close"
        BY DEF Complete
      <4>3. kind \in {"observed", "release"} => Complete(kind) = "ok"
        BY DEF Complete
      <4>4. kind = "release" => status # "captured"
        BY <1>1, Wants DEF RequestKinds, Unbilled
      <4>5. kind = "observed" => status # "released"
        BY <1>1, Wants DEF RequestKinds, Billed
      <4> QED
        BY <3>5, <4>1, <4>2, <4>3, <4>4, <4>5, <1>3
    <3> HIDE DEF pc, kind, status
    <3> QED
      BY <3>2, <3>4, <3>6
  <2>3. pc \in JobPCs /\ pc # "idle"
    BY <2>2 DEF JobPCs
  <2>4. /\ JobTyped' /\ Others(j) /\ job'[j] # NoJob /\ job'[j].pc = pc /\ SameJob(j)
    BY <2>1, <2>3, <1>1, GoToEffect, Known DEF IInv
  <2> HIDE DEF pc
  <2>5. JobStage(j)'
    BY <2>2, <2>4, <1>2, <1>3 DEF JobStage, SameJob, Quiet, RequestKinds
  <2>6. JobHold(j)'
    BY <2>2, <2>4, <1>2, <1>3 DEF JobHold, SameJob, Quiet
  <2>7. JobAnswer(j)'
    BY <2>2, <2>4, <1>2, <1>3 DEF JobAnswer, SameJob, Quiet, Freed, Recorded, Billed, Unbilled
  <2> QED
    BY <1>1, <1>2, <1>3, <2>2, <2>4, <2>5, <2>6, <2>7, StepOn DEF IInv, TypeOK
<1>5. CASE LoadFails(j)
  <2>1. PICK to \in {"file", "idle", "failed"} :
           /\ GoTo(j, to)
           /\ to = "file" => kind \in RequestKinds /\ status # "none"
           /\ to = "idle" => kind \in SweepKinds
           /\ to = "failed" => kind = "release"
    BY <1>5, <1>3 DEF LoadFails, Thrown, SweepKinds, RequestKinds
  <2>2. /\ JobTyped' /\ Others(j)
        /\ to = "idle" => job'[j] = NoJob
        /\ to # "idle" => job'[j] # NoJob /\ job'[j].pc = to /\ SameJob(j)
    BY <2>1, <1>1, GoToEffect, Known DEF IInv, JobPCs
  <2>3. ASSUME to # "idle" PROVE JobStage(j)' /\ JobHold(j)' /\ JobAnswer(j)'
    BY <2>1, <2>2, <2>3, <1>2 DEF JobStage, JobHold, JobAnswer, SameJob, Quiet, RequestKinds
  <2> QED
    BY <1>1, <1>2, <1>3, <2>1, <2>2, <2>3, StepOn DEF IInv, TypeOK
<1> QED
  BY <1>4, <1>5

QuietStep ==
    /\ Quiet
    /\ faults' \in 0..MaxFaults /\ key' \in {"active", "paused"}
    /\ items \subseteq items' /\ items' \subseteq Item
    /\ \A i \in items' \ items : ItemGood(i)

LEMMA QuietPlain ==
  ASSUME IInv, UNCHANGED <<wallet, items, key, request, expired>>, Faulty \/ Fine
  PROVE  QuietStep
BY FaultTyped DEF QuietStep, Quiet, wallet, request, IInv, TypeOK

LEMMA Throws ==
  ASSUME IInv, NEW j \in Jobs, job[j].pc \notin {"idle", "load", "failed"}, QuietStep,
         GoTo(j, Thrown(job[j].kind))
  PROVE  IInv'
<1> DEFINE to == Thrown(job[j].kind)
<1>1. /\ to \in {"idle", "file"} /\ to \in JobPCs
      /\ to = "idle" => job[j].kind \in SweepKinds
      /\ to = "file" => job[j].kind \in RequestKinds /\ job[j].kind # "expired"
  BY Known DEF Thrown, JobPCs, SweepKinds, RequestKinds
<1>2. GoTo(j, to)
  OBVIOUS
<1> HIDE DEF to
<1>3. /\ JobTyped' /\ Others(j)
      /\ to = "idle" => job'[j] = NoJob
      /\ to # "idle" => job'[j] # NoJob /\ job'[j].pc = to /\ SameJob(j)
  BY <1>1, <1>2, GoToEffect, Known DEF IInv
<1>4. ASSUME to = "file" PROVE JobStage(j)' /\ JobHold(j)' /\ JobAnswer(j)'
  <2>1. hold[job[j].req].status # "none"
    BY Known DEF JobGood, JobHold
  <2> QED
    BY <1>1, <1>3, <1>4, <2>1 DEF JobStage, JobHold, JobAnswer, SameJob, QuietStep, Quiet
<1> QED
  BY <1>1, <1>3, <1>4, StepOn DEF QuietStep

(* A settlement that is complete: the hold is closed the way the request   *)
(* wanted.                                                                 *)
LEMMA Completes ==
  ASSUME IInv, NEW j \in Jobs, job[j].pc # "idle", QuietStep,
         hold[job[j].req].status \in {"captured", "released"},
         GoTo(j, Complete(job[j].kind))
  PROVE  IInv'
<1> DEFINE kind == job[j].kind
           to == Complete(kind)
<1>1. /\ kind = "sweep" => to = "close"
      /\ kind = "expired" => to = "idle"
      /\ kind \notin SweepKinds => to = "ok"
  BY DEF Complete, SweepKinds
<1>2. GoTo(j, to) /\ kind \in RequestKinds \cup SweepKinds /\ to \in JobPCs
  BY <1>1, Known DEF SweepKinds, RequestKinds, JobPCs
<1> HIDE DEF to
<1>3. /\ JobTyped' /\ Others(j)
      /\ to = "idle" => job'[j] = NoJob
      /\ to # "idle" => job'[j] # NoJob /\ job'[j].pc = to /\ SameJob(j)
  BY <1>2, GoToEffect, Known DEF IInv
<1>4. ASSUME to # "idle" PROVE JobStage(j)' /\ JobHold(j)' /\ JobAnswer(j)'
  <2>1. JobStage(j)'
    BY <1>1, <1>2, <1>3, <1>4 DEF JobStage, SameJob, SweepKinds, RequestKinds
  <2>2. JobHold(j)'
    BY <1>1, <1>2, <1>3, <1>4 DEF JobHold, SameJob, SweepKinds, RequestKinds, QuietStep, Quiet
  <2>3. kind \in Unbilled => hold[job[j].req].status = "released"
    BY Wants DEF RequestKinds, Unbilled
  <2>4. kind \in Billed => hold[job[j].req].status = "captured"
    BY Wants DEF RequestKinds, Billed
  <2>5. JobAnswer(j)'
    BY <2>3, <2>4, <1>3, <1>4 DEF JobAnswer, SameJob, QuietStep, Quiet, Freed, Recorded
  <2> QED
    BY <2>1, <2>2, <2>5
<1>5. to = "idle" => kind = "expired"
  BY <1>1, <1>2 DEF SweepKinds, RequestKinds
<1>6. to # "idle" => kind # "expired" /\ to # "overage"
  BY <1>1, <1>2 DEF SweepKinds, RequestKinds
<1> HIDE DEF kind
<1> QED
  BY <1>3, <1>4, <1>5, <1>6, StepOn DEF QuietStep, SweepKinds, kind

LEMMA CaptureQuietStep ==
  ASSUME IInv, NEW j \in Jobs, CaptureFindsClosed(j) \/ CaptureThrows(j)
  PROVE  IInv'
<1>1. job[j].pc = "capture"
  BY DEF CaptureFindsClosed, CaptureThrows, At
<1>2. CASE CaptureFindsClosed(j)
  <2>1. QuietStep
    BY <1>2, QuietPlain DEF CaptureFindsClosed, Fine
  <2> QED
    BY <1>1, <1>2, <2>1, Completes DEF CaptureFindsClosed
<1>3. CASE CaptureThrows(j)
  <2>1. QuietStep
    BY <1>3, QuietPlain DEF CaptureThrows
  <2> QED
    BY <1>1, <1>3, <2>1, Throws DEF CaptureThrows
<1> QED
  BY <1>2, <1>3

LEMMA ReleaseFailsStep ==
  ASSUME IInv, NEW j \in Jobs, ReleaseFails(j)
  PROVE  IInv'
<1>1. QuietStep
  BY QuietPlain DEF ReleaseFails
<1> QED
  BY <1>1, Throws DEF ReleaseFails, At

(* After the capture: on to the record, the overage item or the filing.    *)
LEMMA Proceeds ==
  ASSUME IInv, NEW j \in Jobs, job[j].pc \in {"overage", "record", "uncovered"}, QuietStep,
         JobTyped', Others(j), job'[j] # NoJob, SameJob(j),
         \/ job'[j].pc = "record" /\ job[j].kind = "usage"
         \/ job'[j].pc = "uncovered"
         \/ job'[j].pc = "file" /\ job[j].kind = "usage"
  PROVE  IInv'
<1>1. JobGood(j)
  BY Known
<1>2. job[j].kind # "expired"
  BY <1>1, Known DEF JobGood, JobShape
<1>3. JobStage(j)' /\ JobHold(j)' /\ JobAnswer(j)'
  BY <1>1, <1>2, Known DEF JobGood, JobStage, JobHold, JobAnswer, SameJob, QuietStep, Quiet, RequestKinds
<1> QED
  BY <1>2, <1>3, StepOn DEF QuietStep

LEMMA OverageQuietStep ==
  ASSUME IInv, NEW j \in Jobs, OverageShort(j) \/ OverageFails(j)
  PROVE  IInv'
<1>1. job[j].pc = "overage"
  BY DEF OverageShort, OverageFails, At
<1>2. CASE OverageShort(j)
  <2> DEFINE to == IF job[j].kind = "usage" THEN "record" ELSE "uncovered"
             new == [job[j] EXCEPT !.pc = to, !.short = TRUE]
  <2>1. QuietStep
    BY <1>2, QuietPlain DEF OverageShort, Fine
  <2>2. job[j] \in Job
    BY <1>1, BusyTyped DEF IInv
  <2>3. /\ new \in Job /\ new.pc = to /\ new.req = job[j].req /\ new.kind = job[j].kind
        /\ new.cost = job[j].cost /\ new.from = job[j].from
    BY <2>2 DEF Job, JobPCs
  <2>4. job' = [job EXCEPT ![j] = new]
    BY <1>2 DEF OverageShort
  <2> HIDE DEF new
  <2>5. JobTyped' /\ Others(j) /\ job'[j] = new
    BY <2>3, <2>4 DEF IInv, TypeOK, JobTyped, Others
  <2>6. job'[j] # NoJob /\ SameJob(j)
    BY <2>3, <2>5 DEF NoJob, SameJob
  <2> QED
    BY <1>1, <2>1, <2>3, <2>5, <2>6, Proceeds
<1>3. CASE OverageFails(j)
  <2> DEFINE to == OverageThrown(job[j].kind)
  <2>1. QuietStep
    BY <1>3, QuietPlain DEF OverageFails
  <2>2. to \in JobPCs /\ to # "idle" /\ (to = "uncovered" \/ (to = "file" /\ job[j].kind = "usage"))
    BY DEF OverageThrown, JobPCs
  <2>3. GoTo(j, to)
    BY <1>3 DEF OverageFails
  <2> HIDE DEF to
  <2>4. JobTyped' /\ Others(j) /\ job'[j] # NoJob /\ job'[j].pc = to /\ SameJob(j)
    BY <2>2, <2>3, <1>1, GoToEffect, Known DEF IInv
  <2> QED
    BY <1>1, <2>1, <2>2, <2>4, Proceeds
<1> QED
  BY <1>2, <1>3

(* The item a job files says what its request wants and cost.              *)
LEMMA FiledGood ==
  ASSUME IInv, NEW j \in Jobs, NEW k \in ItemKinds, job[j].pc # "idle",
         job[j].kind # "expired", Fits(edge[job[j].req].want, k),
         hold[job[j].req].status # "none"
  PROVE  /\ ItemOf(j, k) \in Item /\ ItemOf(j, k).req = job[j].req
         /\ ItemOf(j, k).kind = k /\ ItemGood(ItemOf(j, k))
<1>1. job[j].req \in Requests /\ job[j].cost \in Nat /\ job[j].cost = bill[job[j].req].cost
  BY Known, Wants
<1> QED
  BY <1>1 DEF ItemOf, Item, ItemGood, Amount

LEMMA QuietFiles ==
  ASSUME IInv, NEW i \in Item, ItemGood(i), items' = items \cup {i},
         key' \in {"active", "paused"}, UNCHANGED <<wallet, request, expired>>, Faulty \/ Fine
  PROVE  QuietStep
BY FaultTyped DEF QuietStep, Quiet, wallet, request, IInv, TypeOK

LEMMA RecordStep ==
  ASSUME IInv, NEW j \in Jobs, Record(j)
  PROVE  IInv'
<1>1. job[j].pc = "record" /\ QuietStep
  BY QuietPlain DEF Record, At
<1>2. hold[job[j].req].status = "captured"
  BY <1>1, Known DEF JobGood, JobHold
<1>3. CASE GoTo(j, "uncovered")
  <2>1. JobTyped' /\ Others(j) /\ job'[j] # NoJob /\ job'[j].pc = "uncovered" /\ SameJob(j)
    BY <1>1, <1>3, GoToEffect, Known DEF IInv, JobPCs
  <2> QED
    BY <1>1, <2>1, Proceeds
<1>4. CASE GoTo(j, Complete(job[j].kind))
  BY <1>1, <1>2, <1>4, Completes
<1>5. CASE GoTo(j, Thrown(job[j].kind))
  BY <1>1, <1>5, Throws
<1> QED
  BY <1>3, <1>4, <1>5 DEF Record

LEMMA UncoveredStep ==
  ASSUME IInv, NEW j \in Jobs, FileUncovered(j) \/ UncoveredFails(j)
  PROVE  IInv'
<1>1. job[j].pc = "uncovered"
  BY DEF FileUncovered, UncoveredFails, At
<1>2. /\ hold[job[j].req].status = "captured" /\ job[j].kind # "expired"
      /\ edge[job[j].req].want \in Billed
  BY <1>1, Known DEF JobGood, JobHold, JobShape, JobStage
<1>3. QuietStep
  <2>1. CASE UncoveredFails(j)
    BY <2>1, QuietPlain DEF UncoveredFails
  <2>2. CASE FileUncovered(j)
    <3>1. ItemOf(j, "overage") \in Item /\ ItemGood(ItemOf(j, "overage"))
      BY <1>1, <1>2, FiledGood DEF ItemKinds, Fits, Unbilled
    <3>2. key' \in {"active", "paused"} /\ (Faulty \/ Fine)
      BY <2>2 DEF FileUncovered, IInv, TypeOK
    <3> QED
      BY <2>2, <3>1, <3>2, QuietFiles DEF FileUncovered
  <2> QED
    BY <2>1, <2>2
<1>4. CASE GoTo(j, Complete(job[j].kind))
  BY <1>1, <1>2, <1>3, <1>4, Completes
<1>5. CASE GoTo(j, "file") /\ job[j].kind = "usage"
  <2>1. JobTyped' /\ Others(j) /\ job'[j] # NoJob /\ job'[j].pc = "file" /\ SameJob(j)
    BY <1>1, <1>5, GoToEffect, Known DEF IInv, JobPCs
  <2> QED
    BY <1>1, <1>3, <1>5, <2>1, Proceeds
<1> QED
  BY <1>4, <1>5 DEF FileUncovered, UncoveredFails

LEMMA FileStep ==
  ASSUME IInv, NEW j \in Jobs, File(j) \/ FileFails(j)
  PROVE  IInv'
<1> DEFINE r == job[j].req
           kind == job[j].kind
           filed == ItemOf(j, FiledKind(kind))
<1>1. job[j].pc = "file"
  BY DEF File, FileFails, At
<1>2. /\ hold[r].status # "none" /\ kind \in RequestKinds /\ kind # "expired"
      /\ kind = edge[r].want /\ r \in Requests
      /\ kind \in Unbilled => hold[r].status \in {"active", "released"}
  BY <1>1, Known, Wants DEF JobGood, JobHold, JobStage, RequestKinds, Unbilled
<1>3. /\ filed \in Item /\ filed.req = r /\ filed.kind = FiledKind(kind) /\ ItemGood(filed)
      /\ kind \in Billed => filed.kind = "capture"
  <2>1. FiledKind(kind) \in ItemKinds /\ Fits(edge[r].want, FiledKind(kind))
        /\ (kind \in Billed => FiledKind(kind) = "capture")
    BY <1>2 DEF FiledKind, ItemKinds, Fits, RequestKinds, Billed, Unbilled
  <2> QED
    BY <2>1, <1>1, <1>2, FiledGood
<1> HIDE DEF filed
<1>4. QuietStep
  <2>1. CASE FileFails(j)
    BY <2>1, QuietPlain DEF FileFails
  <2>2. CASE File(j)
    <3>1. key' \in {"active", "paused"} /\ (Faulty \/ Fine) /\ items' = items \cup {filed}
      BY <2>2 DEF File, IInv, TypeOK, filed
    <3> QED
      BY <2>2, <3>1, <1>3, QuietFiles DEF File
  <2> QED
    BY <2>1, <2>2
<1>5. PICK to \in {"ok", "failed"} : GoTo(j, to) /\ (to = "ok" => items' = items \cup {filed})
  BY DEF File, FileFails, filed
<1>6. JobTyped' /\ Others(j) /\ job'[j] # NoJob /\ job'[j].pc = to /\ SameJob(j)
  BY <1>1, <1>5, GoToEffect, Known DEF IInv, JobPCs
<1>7. JobStage(j)' /\ JobHold(j)'
  BY <1>2, <1>4, <1>6 DEF JobStage, JobHold, SameJob, QuietStep, Quiet
<1>8. JobAnswer(j)'
  <2>1. (to = "ok" /\ kind \in Unbilled) => Freed(r)'
    BY <1>2, <1>3, <1>4, <1>5, <1>6 DEF Freed, QuietStep, Quiet, SameJob
  <2>2. (to = "ok" /\ kind \in Billed) => Recorded(r)'
    BY <1>2, <1>3, <1>4, <1>5, <1>6 DEF Recorded, QuietStep, Quiet, SameJob
  <2> QED
    BY <2>1, <2>2, <1>6 DEF JobAnswer, SameJob
<1> QED
  BY <1>1, <1>2, <1>4, <1>5, <1>6, <1>7, <1>8, StepOn DEF QuietStep

LEMMA AnswerDroppedStep ==
  ASSUME IInv, NEW c \in Calls, AnswerDropped(c)
  PROVE  IInv'
<1>1. c \in Jobs /\ job[c].pc # "idle"
  BY DEF Jobs, AnswerDropped
<1>2. QuietStep
  BY QuietPlain DEF AnswerDropped, Fine
<1>3. JobTyped' /\ Others(c) /\ job'[c] = NoJob
  BY <1>1, GoToEffect, Known DEF IInv, JobPCs, AnswerDropped
<1> QED
  BY <1>1, <1>2, <1>3, StepOn DEF QuietStep, AnswerDropped

(* A sweep takes an item or an expired hold.                               *)
LEMMA SweepStarts ==
  ASSUME IInv, NEW s \in Sweepers, NEW b \in Job, job[s] = NoJob, job' = [job EXCEPT ![s] = b],
         UNCHANGED <<wallet, items, key, request, expired, faults>>,
         b.pc \in {"load", "capture"}, JobGood(s)',
         b.kind = "expired" => ~(edge[b.req].pc = "done" /\ edge[b.req].want \in Unbilled)
  PROVE  IInv'
<1>1. s \in Jobs /\ s \notin Calls
  BY JobAssumption DEF Jobs
<1>2. QuietStep
  BY QuietPlain DEF Fine
<1>3. JobTyped' /\ Others(s) /\ job'[s] = b
  BY <1>1 DEF IInv, TypeOK, JobTyped, Others
<1>4. \A r \in Requests : edge[r].pc = "waiting" => edge[r].call # s
  BY <1>1 DEF IInv, RequestsGood, CallGood
<1> QED
  BY <1>1, <1>2, <1>3, <1>4, JobMove DEF QuietStep

LEMMA SweepItemStep ==
  ASSUME IInv, NEW s \in Sweepers, NEW i \in items, SweepItem(s, i)
  PROVE  IInv'
<1> DEFINE b == [pc |-> "load", req |-> i.req, kind |-> "sweep",
                 cost |-> i.cost, short |-> FALSE, from |-> i.kind]
<1>1. i \in Item /\ ItemGood(i) /\ i.kind # "overage"
  BY DEF IInv, TypeOK, ItemsGood, SweepItem
<1>2. b \in Job /\ b.pc = "load" /\ b.req = i.req /\ b.kind = "sweep" /\ b.cost = i.cost /\ b.from = i.kind
  BY <1>1 DEF Job, Item, JobPCs, SweepKinds
<1>3. job' = [job EXCEPT ![s] = b] /\ job[s] = NoJob
      /\ UNCHANGED <<wallet, items, key, request, expired, faults>>
  BY DEF SweepItem
<1> HIDE DEF b
<1>4. s \in Jobs /\ s \notin Calls /\ job'[s] = b
  BY <1>3, JobAssumption DEF Jobs, IInv, TypeOK
<1>5. Quiet
  BY <1>3 DEF Quiet, wallet, request
<1>6. JobShape(s)' /\ JobStage(s)' /\ JobHold(s)' /\ JobAnswer(s)'
  BY <1>1, <1>2, <1>4, <1>5 DEF JobShape, JobStage, JobHold, JobAnswer, ItemGood, SweepKinds, Quiet
<1>7. JobGood(s)'
  BY <1>6 DEF JobGood
<1> QED
  BY <1>2, <1>3, <1>7, SweepStarts

LEMMA SweepExpiredStep ==
  ASSUME IInv, NEW s \in Sweepers, NEW r \in Requests, SweepExpired(s, r)
  PROVE  IInv'
<1> DEFINE b == [pc |-> "capture", req |-> r, kind |-> "expired",
                 cost |-> Estimate, short |-> FALSE, from |-> "capture"]
<1>2. b \in Job /\ b.pc = "capture" /\ b.req = r /\ b.kind = "expired" /\ b.cost = Estimate
  BY AmountAssumption DEF Job, JobPCs, SweepKinds, ItemKinds, Amount
<1>3. job' = [job EXCEPT ![s] = b] /\ job[s] = NoJob
      /\ UNCHANGED <<wallet, items, key, request, expired, faults>>
  BY DEF SweepExpired
<1> HIDE DEF b
<1>4. s \in Jobs /\ s \notin Calls /\ job'[s] = b
  BY <1>3, JobAssumption DEF Jobs, IInv, TypeOK
<1>5. Quiet
  BY <1>3 DEF Quiet, wallet, request
<1>6. r \in expired /\ hold[r].status = "active" /\ \A i \in items : i.req # r
  BY DEF SweepExpired
<1>7. JobShape(s)' /\ JobStage(s)' /\ JobHold(s)' /\ JobAnswer(s)'
  BY <1>2, <1>4, <1>5, <1>6 DEF JobShape, JobStage, JobHold, JobAnswer, SweepKinds, Quiet
<1>8. JobGood(s)'
  BY <1>7 DEF JobGood
<1>9. ~(edge[r].pc = "done" /\ edge[r].want \in Unbilled)
  BY <1>6 DEF IInv, RequestsGood, DoneGood, Freed
<1> QED
  BY <1>2, <1>3, <1>8, <1>9, SweepStarts

-----------------------------------------------------------------------------
(* Steps that move money or close a hold.                                  *)

OtherHolds(r) == \A q \in Requests : q # r => hold'[q] = hold[q]

(* Closing a hold leaves one hold fewer to cover.                          *)
LEMMA OneLess ==
  ASSUME NEW r \in Requests, hold[r].status = "active",
         hold'[r].status # "active", OtherHolds(r)
  PROVE  /\ ActiveHolds' = ActiveHolds \ {r}
         /\ Cardinality(ActiveHolds) = Cardinality(ActiveHolds \ {r}) + 1
<1>1. ActiveHolds' = ActiveHolds \ {r}
  BY DEF ActiveHolds, OtherHolds
<1>2. r \in ActiveHolds
  BY DEF ActiveHolds
<1>3. Cardinality(ActiveHolds \ {r}) = Cardinality(ActiveHolds) - 1
  BY <1>2, ActiveFinite, FS_RemoveElement
<1> QED
  BY <1>1, <1>3, ActiveFinite

LEMMA CloseCovered ==
  ASSUME TypeOK, HoldsCovered, NEW r \in Requests, hold[r].status = "active",
         hold'[r].status # "active", OtherHolds(r), NEW amount \in Nat,
         amount > 0 => CanDebit(amount, {r}), balance' = balance - amount
  PROVE  HoldsCovered'
<1> DEFINE n == Cardinality(ActiveHolds \ {r})
<1>1. /\ ActiveHolds' = ActiveHolds \ {r} /\ Cardinality(ActiveHolds) = n + 1 /\ n \in Nat
  BY OneLess, OthersFinite
<1>2. Cardinality(ActiveHolds)' = n
  BY <1>1
<1>3. balance \in Nat /\ Reserved \in Nat
  BY AmountAssumption DEF TypeOK
<1>4. Wallet = "card" => balance - Reserved * (n + 1) >= 0
  BY <1>1 DEF HoldsCovered, Available
<1>5. Wallet = "card" /\ amount > 0 => amount <= balance - Reserved * n
  BY DEF CanDebit
<1> HIDE DEF n
<1>6. Wallet = "card" => balance' - Reserved * n >= 0
  <2>1. Reserved * n \in Nat /\ Reserved * (n + 1) = Reserved * n + Reserved
    BY <1>1, ReserveMore
  <2> QED
    BY <2>1, <1>3, <1>4, <1>5
<1> QED
  BY <1>2, <1>6 DEF HoldsCovered, Available

(* Others' view of a hold that closes for what its request wants.          *)
LEMMA HoldCloses ==
  ASSUME IInv, NEW j \in Jobs, job[j].pc # "idle",
         NEW r, r = job[j].req, hold[r].status = "active",
         UNCHANGED <<overage, credited, items, key, auth, edge, bill, expired>>,
         faults' \in 0..MaxFaults, balance' \in Nat, HoldsCovered',
         hold' \in [Requests -> HoldRow], OtherHolds(r),
         \/ /\ hold'[r].status = "captured"
            /\ edge[r].want \in Billed \/ job[j].kind = "expired"
         \/ /\ hold'[r].status = "released" /\ hold'[r].captured = 0
            /\ edge[r].want \in Unbilled,
         hold'[r].captured <= IF r \in expired /\ bill[r].cost < Estimate
                                THEN Estimate ELSE bill[r].cost,
         JobTyped', Others(j), JobGood(j)', job'[j] # NoJob => SameJob(j),
         job'[j] = NoJob => job[j].kind \in SweepKinds
  PROVE  IInv'
<1>1. /\ r \in Requests /\ job[j] # NoJob /\ JobGood(j) /\ EdgeGood(r) /\ HoldGood(r)
      /\ CallGood(r) /\ DoneGood(r) /\ hold'[r].status # "active" /\ hold'[r].status # "none"
  BY Known DEF IInv, RequestsGood
<1>2. /\ job[j].kind \in SweepKinds => j \notin Calls
      /\ job[j].kind = "expired" => r \in expired
      /\ j \in Calls => job[j].kind \in RequestKinds
  BY <1>1 DEF JobGood, JobShape, RequestKinds, SweepKinds
<1>3. TypeOK'
  BY DEF IInv, TypeOK, HoldRow, JobTyped
<1>4. NeverOvercharged'
  <2> SUFFICES ASSUME NEW q \in Requests
               PROVE  Charged(q)' <= IF q \in expired /\ bill[q].cost < Estimate
                                       THEN Estimate ELSE bill[q].cost
    BY DEF NeverOvercharged
  <2>1. CASE q # r
    BY <2>1 DEF IInv, NeverOvercharged, Charged, OtherHolds
  <2>2. CASE q = r
    <3>1. overage[r] = 0 /\ hold'[r].captured \in Nat
      BY <1>1, AmountAssumption DEF HoldGood, HoldRow
    <3>2. Charged(q)' = hold'[r].captured
      BY <2>2, <3>1 DEF Charged
    <3> QED
      BY <2>2, <3>2
  <2> QED
    BY <2>1, <2>2
<1>5. ASSUME NEW q \in Requests
      PROVE  EdgeGood(q)' /\ CallGood(q)' /\ HoldGood(q)'
  <2>1. EdgeGood(q) /\ CallGood(q) /\ HoldGood(q)
    BY DEF IInv, RequestsGood
  <2>2. EdgeGood(q)'
    BY <1>1, <2>1 DEF EdgeGood, OtherHolds
  <2>3. CallGood(q)'
    BY <1>2, <2>1 DEF CallGood, Others, SameJob, Jobs, SweepKinds, RequestKinds
  <2>4. HoldGood(q)'
    BY <1>1, <1>2, <2>1 DEF HoldGood, OtherHolds
  <2> QED
    BY <2>2, <2>3, <2>4
<1>6. ASSUME NEW q \in Requests, Recorded(q), edge[q].want \in Billed
      PROVE  Recorded(q)'
  BY <1>1, <1>6 DEF Recorded, OtherHolds
<1>7. ASSUME NEW q \in Requests, Freed(q), edge[q].want \in Unbilled,
             q = r => job[j].kind # "expired"
      PROVE  Freed(q)'
  BY <1>1, <1>7 DEF Freed, OtherHolds, Billed, Unbilled
<1>8. RequestsGood'
  <2> SUFFICES ASSUME NEW q \in Requests
               PROVE  DoneGood(q)'
    BY <1>5 DEF RequestsGood
  <2>1. DoneGood(q)
    BY DEF IInv, RequestsGood
  <2>2. ASSUME edge[q].pc = "done", edge[q].want \in Unbilled, NEW k \in Jobs
        PROVE  ~Expiring(k, q)'
    BY <2>1, <2>2, <1>1 DEF DoneGood, Expiring, Others, SameJob
  <2>3. ASSUME edge[q].pc = "done", edge[q].want \in Unbilled
        PROVE  Freed(q)'
    <3>1. q = r => job[j].kind # "expired"
      BY <2>1, <2>3, <1>1 DEF DoneGood, Expiring
    <3> QED
      BY <3>1, <2>1, <2>3, <1>7 DEF DoneGood
  <2> QED
    BY <2>1, <2>2, <2>3, <1>6 DEF DoneGood
<1>9. ASSUME NEW k \in Jobs, k # j
      PROVE  JobGood(k)'
  <2>1. JobGood(k) /\ job'[k] = job[k]
    BY <1>9 DEF IInv, JobsGood, Others
  <2>2. JobShape(k)' /\ JobStage(k)'
    BY <2>1 DEF JobGood, JobShape, JobStage
  <2>3. job[k] # NoJob => job[k].req \in Requests
    BY BusyTyped DEF IInv
  <2>4. JobHold(k)'
    BY <2>1, <2>3, <1>1 DEF JobGood, JobHold, OtherHolds
  <2>5. JobAnswer(k)'
    <3> SUFFICES ASSUME job[k] # NoJob, job[k].pc = "ok"
                 PROVE  /\ job[k].kind \in Unbilled => Freed(job[k].req)'
                        /\ job[k].kind \in Billed => Recorded(job[k].req)'
      BY <2>1 DEF JobAnswer, Freed, Recorded
    <3> DEFINE q == job[k].req
    <3>1. job[k].pc # "idle"
      OBVIOUS
    <3>2. job[k].kind \in RequestKinds => job[k].kind = edge[q].want /\ q \notin expired
      BY <3>1, Wants
    <3>3. q = r /\ job[k].kind \in RequestKinds => job[j].kind # "expired"
      BY <3>2, <1>2
    <3>4. /\ job[k].kind \in Unbilled => Freed(q)
          /\ job[k].kind \in Billed => Recorded(q)
      BY <2>1 DEF JobGood, JobAnswer
    <3>5. job[k].req' = q /\ q \in Requests
      BY <2>1, <2>3
    <3> QED
      BY <3>2, <3>3, <3>4, <3>5, <1>6, <1>7 DEF RequestKinds, Billed, Unbilled, Freed, Recorded
  <2> QED
    BY <2>2, <2>4, <2>5 DEF JobGood
<1>10. JobsGood'
  BY <1>9 DEF JobsGood
<1>11. OverageOwned'
  <2> SUFFICES ASSUME NEW a \in Jobs, NEW b \in Jobs, job'[a].pc = "overage",
                      job'[b].pc = "overage", job'[a].req = job'[b].req, a # b
               PROVE  FALSE
    BY DEF OverageOwned
  <2>1. \A k \in Jobs : job[k].pc = "overage" => job[k].req # r
    <3> SUFFICES ASSUME NEW k \in Jobs, job[k].pc = "overage", job[k].req = r
                 PROVE  FALSE
      OBVIOUS
    <3>1. JobGood(k) /\ job[k] # NoJob
      BY Known
    <3> QED
      BY <3>1, <1>1 DEF JobGood, JobHold
  <2>2. NoJob.pc = "idle"
    BY DEF NoJob
  <2>3. a # j \/ b # j
    OBVIOUS
  <2> QED
    BY <2>1, <2>2, <2>3 DEF IInv, OverageOwned, Others, SameJob
<1>12. ItemsGood'
  <2> SUFFICES ASSUME NEW i \in items
               PROVE  ItemGood(i)'
    BY DEF ItemsGood
  <2>1. ItemGood(i) /\ i.req \in Requests
    BY DEF IInv, ItemsGood, TypeOK, Item
  <2> QED
    BY <2>1, <1>1 DEF ItemGood, OtherHolds
<1> QED
  BY <1>3, <1>4, <1>8, <1>10, <1>11, <1>12 DEF IInv

LEMMA CaptureBounds ==
  ASSUME IInv, NEW j \in Jobs, job[j].pc # "idle"
  PROVE  /\ CaptureAmount(j) \in 0..Reserved /\ CaptureAmount(j) <= job[j].cost
         /\ OverageAmount(j) \in Nat /\ OverageAmount(j) = job[j].cost - CaptureAmount(j)
         /\ OverageAmount(j) > 0 => CaptureAmount(j) = Reserved /\ job[j].cost > Reserved
BY Known, AmountAssumption DEF CaptureAmount, OverageAmount

LEMMA CaptureCommitsStep ==
  ASSUME IInv, NEW j \in Jobs, CaptureCommits(j)
  PROVE  IInv'
<1> DEFINE r == job[j].req
           kind == job[j].kind
           amount == CaptureAmount(j)
           row == [status |-> "captured", captured |-> amount]
<1>1. /\ job[j].pc = "capture" /\ hold[r].status = "active"
      /\ amount > 0 => CanDebit(amount, {r})
      /\ hold' = [hold EXCEPT ![r] = row] /\ balance' = balance - amount
      /\ UNCHANGED <<overage, credited, items, key, auth, edge, bill, expired>>
  BY DEF CaptureCommits, At, request
<1>2. /\ r \in Requests /\ JobGood(j) /\ HoldGood(r) /\ kind \in RequestKinds \cup SweepKinds
      /\ bill[r].cost \in Nat /\ job[j].cost \in Nat /\ job[j] # NoJob
  BY <1>1, Known
<1>3. /\ amount \in 0..Reserved /\ amount \in Nat /\ amount <= job[j].cost
      /\ OverageAmount(j) > 0 => amount = Reserved /\ job[j].cost > Reserved
  BY <1>1, CaptureBounds, AmountAssumption
<1>4. row \in HoldRow /\ row.status = "captured" /\ row.captured = amount
  BY <1>3 DEF HoldRow
<1> HIDE DEF row, amount
<1>5. /\ hold' \in [Requests -> HoldRow] /\ OtherHolds(r)
      /\ hold'[r].status = "captured" /\ hold'[r].captured = amount
  BY <1>1, <1>2, <1>4 DEF IInv, TypeOK, HoldRow, OtherHolds
<1>6. balance' \in Nat
  <2>1. TypeOK /\ balance \in Nat
    BY DEF IInv, TypeOK
  <2>2. CASE amount > 0
    <3>1. amount <= balance
      BY <1>1, <1>3, <2>1, <2>2, DebitWithin
    <3> QED
      BY <1>1, <1>3, <2>1, <3>1
  <2>3. CASE ~(amount > 0)
    BY <1>1, <1>3, <2>1, <2>3
  <2> QED
    BY <2>2, <2>3
<1>7. HoldsCovered'
  BY <1>1, <1>2, <1>3, <1>5, CloseCovered DEF IInv
<1>8. /\ edge[r].want \in Billed \/ kind = "expired"
      /\ kind = "expired" => job[j].cost = Estimate /\ r \in expired
      /\ kind # "expired" => job[j].cost = bill[r].cost
  BY <1>1, <1>2, Wants DEF JobGood, JobShape, JobStage
<1>9. hold'[r].captured <= IF r \in expired /\ bill[r].cost < Estimate
                             THEN Estimate ELSE bill[r].cost
  BY <1>2, <1>3, <1>5, <1>8, AmountAssumption
<1>10. faults' \in 0..MaxFaults
  BY FaultTyped DEF CaptureCommits
<1>11. PICK to \in JobPCs :
          /\ GoTo(j, to)
          /\ \/ to = "overage" /\ OverageAmount(j) > 0
             \/ to = "record" /\ kind = "usage"
             \/ to = "close" /\ kind = "sweep"
             \/ to = "ok" /\ kind \in {"observed", "release", "unknown"}
             \/ to = "file" /\ kind \in RequestKinds
             \/ to = "idle" /\ kind \in SweepKinds
  <2>1. \/ GoTo(j, "overage") /\ OverageAmount(j) > 0
        \/ GoTo(j, AfterDebit(kind))
        \/ GoTo(j, Thrown(kind))
    BY DEF CaptureCommits
  <2>2. /\ kind = "usage" => AfterDebit(kind) = "record"
        /\ kind = "sweep" => AfterDebit(kind) = "close"
        /\ kind = "expired" => AfterDebit(kind) = "idle"
        /\ kind \in {"observed", "release", "unknown"} => AfterDebit(kind) = "ok"
    BY DEF AfterDebit, Complete
  <2>3. /\ kind \in SweepKinds => Thrown(kind) = "idle"
        /\ kind \notin SweepKinds => Thrown(kind) = "file"
    BY DEF Thrown
  <2> HIDE DEF kind
  <2> QED
    BY <1>2, <2>1, <2>2, <2>3 DEF JobPCs, RequestKinds, SweepKinds
<1>12. /\ JobTyped' /\ Others(j)
       /\ to = "idle" => job'[j] = NoJob
       /\ to # "idle" => job'[j] # NoJob /\ job'[j].pc = to /\ SameJob(j)
  BY <1>11, <1>2, GoToEffect DEF IInv
<1>13. to # "idle" => kind # "expired"
  BY <1>3, <1>8, <1>11, AmountAssumption DEF RequestKinds
<1>14. JobGood(j)'
  <2>1. CASE to = "idle"
    BY <2>1, <1>12 DEF JobGood, JobShape, JobStage, JobHold, JobAnswer
  <2>2. CASE to # "idle"
    <3>1. JobShape(j)'
      BY <2>2, <1>1, <1>2, <1>12, <1>13 DEF JobGood, JobShape, SameJob
    <3>2. JobStage(j)'
      BY <2>2, <1>1, <1>8, <1>11, <1>12, <1>13 DEF JobStage, SameJob, RequestKinds
    <3>3. overage[r] = 0
      BY <1>1, <1>2 DEF HoldGood
    <3>4. JobHold(j)'
      BY <2>2, <3>3, <1>1, <1>3, <1>5, <1>11, <1>12 DEF JobHold, SameJob
    <3>5. kind \in RequestKinds => kind \in Billed
      BY <1>1, <1>8, <1>13, <2>2, Wants DEF RequestKinds
    <3>6. JobAnswer(j)'
      BY <2>2, <3>5, <1>5, <1>11, <1>12 DEF JobAnswer, SameJob, Recorded, RequestKinds, Billed, Unbilled
    <3> QED
      BY <3>1, <3>2, <3>4, <3>6 DEF JobGood
  <2> QED
    BY <2>1, <2>2
<1>15. job'[j] = NoJob => kind \in SweepKinds
  BY <1>11, <1>12
<1>16. job'[j] # NoJob => SameJob(j)
  BY <1>12
<1> QED
  BY <1>1, <1>5, <1>6, <1>7, <1>8, <1>9, <1>10, <1>12, <1>14, <1>15, <1>16, HoldCloses

LEMMA ReleaseStep ==
  ASSUME IInv, NEW j \in Jobs, Release(j)
  PROVE  IInv'
<1> DEFINE r == job[j].req
           kind == job[j].kind
           row == [hold[r] EXCEPT !.status = "released"]
<1>1. /\ job[j].pc = "release" /\ balance' = balance
      /\ UNCHANGED <<overage, credited, items, key, auth, edge, bill, expired>>
      /\ Faulty \/ Fine
      /\ GoTo(j, Complete(kind)) \/ GoTo(j, Thrown(kind))
  BY DEF Release, At, request
<1>2. /\ r \in Requests /\ JobGood(j) /\ HoldGood(r) /\ kind \in RequestKinds \cup SweepKinds
      /\ bill[r].cost \in Nat /\ job[j] # NoJob /\ edge[r].want \in Unbilled
      /\ hold[r].status \in {"active", "captured", "released"}
  BY <1>1, Known DEF JobGood, JobStage, JobHold
<1>3. CASE hold[r].status # "active"
  <2>1. hold' = hold
    BY <1>3 DEF Release
  <2>2. QuietStep
    BY <1>1, <2>1, QuietPlain DEF wallet, request
  <2> QED
    BY <1>1, <1>2, <1>3, <2>2, Completes, Throws
<1>4. CASE hold[r].status = "active"
  <2>1. hold' = [hold EXCEPT ![r] = row]
    BY <1>4 DEF Release
  <2>2. row \in HoldRow /\ row.status = "released" /\ row.captured = 0
    BY <1>2, <1>4 DEF IInv, TypeOK, HoldRow, HoldGood
  <2> HIDE DEF row
  <2>3. /\ hold' \in [Requests -> HoldRow] /\ OtherHolds(r)
        /\ hold'[r].status = "released" /\ hold'[r].captured = 0
    BY <1>2, <2>1, <2>2 DEF IInv, TypeOK, HoldRow, OtherHolds
  <2>4. balance \in Nat /\ balance' = balance - 0
    BY <1>1 DEF IInv, TypeOK
  <2>5. HoldsCovered'
    <3>1. 0 \in Nat /\ (0 > 0 => CanDebit(0, {r})) /\ hold'[r].status # "active"
      BY <2>3
    <3>2. TypeOK /\ HoldsCovered
      BY DEF IInv
    <3> QED
      BY <1>2, <1>4, <2>3, <2>4, <3>1, <3>2, CloseCovered
  <2>6. faults' \in 0..MaxFaults
    BY <1>1, FaultTyped
  <2>7. /\ kind # "expired"
        /\ kind \in RequestKinds => kind = edge[r].want
    BY <1>1, <1>2, Wants DEF JobGood, JobShape
  <2>8. PICK to \in JobPCs :
          /\ GoTo(j, to)
          /\ \/ to = "close" /\ kind = "sweep"
             \/ to = "ok" /\ kind \in Unbilled
             \/ to = "file" /\ kind \in RequestKinds
             \/ to = "idle" /\ kind \in SweepKinds
    <3>1. /\ kind = "sweep" => Complete(kind) = "close"
          /\ kind \in RequestKinds => Complete(kind) = "ok"
          /\ kind \in SweepKinds => Thrown(kind) = "idle"
          /\ kind \notin SweepKinds => Thrown(kind) = "file"
      BY DEF Complete, Thrown, RequestKinds
    <3> HIDE DEF kind
    <3> QED
      BY <1>1, <1>2, <2>7, <3>1 DEF JobPCs, RequestKinds, SweepKinds, Unbilled
  <2>9. /\ JobTyped' /\ Others(j)
        /\ to = "idle" => job'[j] = NoJob
        /\ to # "idle" => job'[j] # NoJob /\ job'[j].pc = to /\ SameJob(j)
    BY <2>8, <1>2, GoToEffect DEF IInv
  <2>10. JobGood(j)'
    <3>1. CASE to = "idle"
      BY <3>1, <2>9 DEF JobGood, JobShape, JobStage, JobHold, JobAnswer
    <3>2. CASE to # "idle"
      <4>1. JobShape(j)'
        BY <3>2, <1>1, <1>2, <2>7, <2>9 DEF JobGood, JobShape, SameJob
      <4>2. JobStage(j)' /\ JobHold(j)'
        BY <3>2, <1>1, <2>3, <2>8, <2>9 DEF JobStage, JobHold, SameJob, Unbilled, RequestKinds
      <4>3. JobAnswer(j)'
        BY <3>2, <2>3, <2>8, <2>9 DEF JobAnswer, SameJob, Freed, Billed, Unbilled
      <4> QED
        BY <4>1, <4>2, <4>3 DEF JobGood
    <3> QED
      BY <3>1, <3>2
  <2>11. /\ job'[j] = NoJob => kind \in SweepKinds
         /\ job'[j] # NoJob => SameJob(j)
    BY <2>8, <2>9
  <2>12. hold'[r].captured <= IF r \in expired /\ bill[r].cost < Estimate
                                THEN Estimate ELSE bill[r].cost
    BY <1>2, <2>3, AmountAssumption
  <2>13. balance' \in Nat
    BY <2>4
  <2> QED
    BY <1>1, <1>2, <1>4, <2>3, <2>5, <2>6, <2>9, <2>10, <2>11, <2>12, <2>13, HoldCloses
<1> QED
  BY <1>3, <1>4

LEMMA OverageDebitsStep ==
  ASSUME IInv, NEW j \in Jobs, OverageDebits(j)
  PROVE  IInv'
<1> DEFINE r == job[j].req
           kind == job[j].kind
           amount == OverageAmount(j)
<1>1. /\ job[j].pc = "overage" /\ CanDebit(amount, {}) /\ balance' = balance - amount
      /\ overage' = [overage EXCEPT ![r] = @ + amount]
      /\ UNCHANGED <<hold, credited, items, key, auth, edge, bill, expired>>
      /\ Faulty \/ Fine
      /\ GoTo(j, AfterDebit(kind)) \/ GoTo(j, OverageThrown(kind))
  BY DEF OverageDebits, At, request
<1>2. /\ r \in Requests /\ JobGood(j) /\ EdgeGood(r) /\ HoldGood(r)
      /\ kind \in RequestKinds \cup SweepKinds
      /\ job[j].cost \in Nat /\ bill[r].cost \in Nat /\ job[j] # NoJob /\ overage[r] \in Nat
  BY <1>1, Known
<1>3. /\ hold[r].status = "captured" /\ hold[r].captured = Reserved /\ overage[r] = 0
      /\ job[j].cost > Reserved /\ kind # "expired" /\ edge[r].want \in Billed
      /\ job[j].cost = bill[r].cost
  BY <1>1, <1>2, Wants DEF JobGood, JobShape, JobStage, JobHold
<1>4. amount \in Nat /\ amount > 0 /\ amount = job[j].cost - Reserved
  BY <1>2, <1>3, AmountAssumption DEF OverageAmount, CaptureAmount
<1> HIDE DEF amount
<1>5. /\ overage' \in [Requests -> Nat] /\ overage'[r] = amount
      /\ \A q \in Requests : q # r => overage'[q] = overage[q]
  BY <1>1, <1>2, <1>3, <1>4 DEF IInv, TypeOK, Amount
<1>6. balance' \in Nat
  <2>1. TypeOK /\ balance \in Nat
    BY DEF IInv, TypeOK
  <2>2. amount <= balance
    BY <1>1, <1>4, <2>1, DebitWithin
  <2> QED
    BY <1>1, <1>4, <2>1, <2>2
<1>7. HoldsCovered'
  <2> DEFINE n == Cardinality(ActiveHolds)
  <2>1. n \in Nat /\ Cardinality(ActiveHolds)' = n
    BY <1>1, ActiveFinite DEF ActiveHolds
  <2>2. ActiveHolds \ {} = ActiveHolds
    OBVIOUS
  <2>3. Wallet = "card" => amount <= balance - Reserved * n
    BY <1>1, <2>2 DEF CanDebit
  <2>4. balance \in Nat
    BY DEF IInv, TypeOK
  <2>5. Reserved * n \in Nat
    BY <2>1, ReserveProduct
  <2> HIDE DEF n
  <2>6. Wallet = "card" => balance' - Reserved * n >= 0
    BY <1>1, <1>4, <2>3, <2>4, <2>5
  <2> QED
    BY <2>1, <2>6 DEF HoldsCovered, Available
<1>8. NeverOvercharged'
  <2> SUFFICES ASSUME NEW q \in Requests
               PROVE  Charged(q)' <= IF q \in expired /\ bill[q].cost < Estimate
                                       THEN Estimate ELSE bill[q].cost
    BY <1>1 DEF NeverOvercharged
  <2>1. CASE q # r
    BY <2>1, <1>1, <1>5 DEF IInv, NeverOvercharged, Charged
  <2>2. CASE q = r
    <3>1. Charged(q)' = Reserved + amount
      BY <2>2, <1>1, <1>3, <1>5 DEF Charged
    <3>2. Charged(q)' = bill[q].cost
      BY <2>2, <3>1, <1>2, <1>3, <1>4, AmountAssumption
    <3> QED
      BY <2>2, <3>2, <1>2, AmountAssumption
  <2> QED
    BY <2>1, <2>2
<1>9. PICK to \in JobPCs :
         /\ GoTo(j, to)
         /\ \/ to = "record" /\ kind = "usage"
            \/ to = "close" /\ kind = "sweep"
            \/ to = "ok" /\ kind \in RequestKinds
            \/ to = "file" /\ kind = "usage"
            \/ to = "uncovered"
  <2>1. /\ kind = "usage" => AfterDebit(kind) = "record"
        /\ kind = "sweep" => AfterDebit(kind) = "close"
        /\ kind \in {"observed", "release", "unknown"} => AfterDebit(kind) = "ok"
        /\ kind = "usage" => OverageThrown(kind) = "file"
        /\ kind # "usage" => OverageThrown(kind) = "uncovered"
    BY DEF AfterDebit, Complete, OverageThrown
  <2> HIDE DEF kind
  <2> QED
    BY <1>1, <1>2, <1>3, <2>1 DEF JobPCs, RequestKinds, SweepKinds
<1>10. JobTyped' /\ Others(j) /\ job'[j] # NoJob /\ job'[j].pc = to /\ SameJob(j)
  BY <1>9, <1>2, GoToEffect DEF IInv
<1>11. TypeOK'
  <2>1. faults' \in 0..MaxFaults
    BY <1>1, FaultTyped
  <2> QED
    BY <1>1, <1>5, <1>6, <1>10, <2>1 DEF IInv, TypeOK, JobTyped, Amount
<1>12. \A q \in Requests : (Freed(q) => Freed(q)') /\ (Recorded(q) => Recorded(q)')
  BY <1>1 DEF Freed, Recorded
<1>13. RequestsGood'
  <2> SUFFICES ASSUME NEW q \in Requests
               PROVE  EdgeGood(q)' /\ CallGood(q)' /\ HoldGood(q)' /\ DoneGood(q)'
    BY DEF RequestsGood
  <2>1. EdgeGood(q) /\ CallGood(q) /\ HoldGood(q) /\ DoneGood(q)
    BY DEF IInv, RequestsGood
  <2>2. EdgeGood(q)'
    BY <2>1, <1>1 DEF EdgeGood
  <2>3. HoldGood(q)'
    BY <2>1, <1>1, <1>3, <1>5 DEF HoldGood
  <2>4. CallGood(q)'
    BY <2>1, <1>1, <1>10 DEF CallGood, Others, SameJob, Jobs
  <2>5. ASSUME NEW k \in Jobs, Expiring(k, q)'
        PROVE  Expiring(k, q)
    BY <2>5, <1>2, <1>10 DEF Expiring, Others, SameJob
  <2>6. DoneGood(q)'
    BY <2>1, <2>5, <1>1, <1>12 DEF DoneGood
  <2> QED
    BY <2>2, <2>3, <2>4, <2>6
<1>14. JobsGood'
  <2> SUFFICES ASSUME NEW k \in Jobs
               PROVE  JobGood(k)'
    BY DEF JobsGood
  <2>1. CASE k # j
    <3>1. JobGood(k) /\ job'[k] = job[k] /\ (job[k] # NoJob => job[k].req \in Requests)
      BY <2>1, <1>10, BusyTyped DEF IInv, JobsGood, Others
    <3>2. JobShape(k)' /\ JobStage(k)'
      BY <3>1, <1>1 DEF JobGood, JobShape, JobStage
    <3>3. job[k].pc = "overage" => job[k].req # r
      BY <2>1, <1>1 DEF IInv, OverageOwned
    <3>4. JobHold(k)'
      BY <3>1, <3>3, <1>1, <1>5 DEF JobGood, JobHold
    <3>5. JobAnswer(k)'
      BY <3>1, <1>12 DEF JobGood, JobAnswer
    <3> QED
      BY <3>2, <3>4, <3>5 DEF JobGood
  <2>2. CASE k = j
    <3>1. JobShape(j)'
      BY <1>1, <1>2, <1>3, <1>9, <1>10 DEF JobGood, JobShape, SameJob
    <3>2. JobStage(j)' /\ JobHold(j)'
      BY <1>1, <1>3, <1>9, <1>10 DEF JobStage, JobHold, SameJob, RequestKinds
    <3>3. kind \in RequestKinds => kind \in Billed
      BY <1>1, <1>3, Wants
    <3>4. JobAnswer(j)'
      BY <3>3, <1>1, <1>3, <1>9, <1>10 DEF JobAnswer, SameJob, Recorded, Billed, Unbilled
    <3> QED
      BY <2>2, <3>1, <3>2, <3>4 DEF JobGood
  <2> QED
    BY <2>1, <2>2
<1>15. OverageOwned'
  BY <1>9, <1>10 DEF IInv, OverageOwned, Others, JobPCs
<1>16. ItemsGood'
  BY <1>1 DEF IInv, ItemsGood, ItemGood
<1> QED
  BY <1>7, <1>8, <1>11, <1>13, <1>14, <1>15, <1>16 DEF IInv

(* The sweep closes an item only once its hold is closed.                  *)
LEMMA CloseItemStep ==
  ASSUME IInv, NEW s \in Sweepers, CloseItem(s)
  PROVE  IInv'
<1> DEFINE r == job[s].req
<1>1. /\ job[s].pc = "close" /\ s \in Jobs /\ GoTo(s, "idle") /\ items' \subseteq items
      /\ \A i \in items : i.req # r => i \in items'
      /\ UNCHANGED <<balance, hold, overage, credited, key, auth, edge, bill, expired>>
      /\ Faulty \/ Fine
  BY DEF CloseItem, At, Jobs, ItemOf, wallet, request
<1>2. r \in Requests /\ hold[r].status \in {"captured", "released"} /\ job[s] # NoJob
  BY <1>1, Known DEF JobGood, JobHold
<1>3. JobTyped' /\ Others(s) /\ job'[s] = NoJob
  BY <1>1, <1>2, GoToEffect DEF IInv, JobPCs
<1>4. TypeOK'
  <2>1. faults' \in 0..MaxFaults
    BY <1>1, FaultTyped
  <2> QED
    BY <1>1, <1>3, <2>1 DEF IInv, TypeOK, JobTyped
<1>5. HoldsCovered' /\ NeverOvercharged'
  BY <1>1, CoveredKept DEF IInv, NeverOvercharged, Charged
<1>6. ASSUME NEW q \in Requests
      PROVE  /\ Freed(q) /\ edge[q].want \in Unbilled /\ (q = r => hold[r].status # "captured") => Freed(q)'
             /\ Recorded(q) /\ edge[q].want \in Billed => Recorded(q)'
  <2>1. HoldGood(q)
    BY DEF IInv, RequestsGood
  <2>2. CASE q # r
    BY <2>2, <1>1 DEF Freed, Recorded
  <2>3. CASE q = r
    BY <2>1, <2>3, <1>1, <1>2 DEF Freed, Recorded, HoldGood, Billed, Unbilled
  <2> QED
    BY <2>2, <2>3
<1>7. RequestsGood'
  <2> SUFFICES ASSUME NEW q \in Requests
               PROVE  EdgeGood(q)' /\ CallGood(q)' /\ HoldGood(q)' /\ DoneGood(q)'
    BY DEF RequestsGood
  <2>1. EdgeGood(q) /\ CallGood(q) /\ HoldGood(q) /\ DoneGood(q)
    BY DEF IInv, RequestsGood
  <2>2. EdgeGood(q)' /\ HoldGood(q)'
    BY <2>1, <1>1 DEF EdgeGood, HoldGood
  <2>3. CallGood(q)'
    BY <2>1, <1>1, <1>3, JobAssumption DEF CallGood, Others, Jobs
  <2>4. ASSUME NEW k \in Jobs, Expiring(k, q)'
        PROVE  Expiring(k, q)
    BY <2>4, <1>3 DEF Expiring, Others
  <2>5. (Freed(q) /\ q = r) => hold[r].status # "captured"
    BY DEF Freed
  <2>6. DoneGood(q)'
    BY <2>1, <2>4, <2>5, <1>1, <1>6 DEF DoneGood
  <2> QED
    BY <2>2, <2>3, <2>6
<1>8. JobsGood'
  <2> SUFFICES ASSUME NEW k \in Jobs
               PROVE  JobGood(k)'
    BY DEF JobsGood
  <2>1. CASE k = s
    BY <2>1, <1>3 DEF JobGood, JobShape, JobStage, JobHold, JobAnswer
  <2>2. CASE k # s
    <3>1. JobGood(k) /\ job'[k] = job[k] /\ (job[k] # NoJob => job[k].req \in Requests)
      BY <2>2, <1>3, BusyTyped DEF IInv, JobsGood, Others
    <3>2. JobShape(k)' /\ JobStage(k)' /\ JobHold(k)'
      BY <3>1, <1>1 DEF JobGood, JobShape, JobStage, JobHold
    <3>3. job[k] # NoJob /\ job[k].pc = "ok" /\ job[k].kind \in RequestKinds
             => job[k].kind = edge[job[k].req].want
      BY Wants
    <3>4. Freed(job[k].req) => hold[job[k].req].status # "captured"
      BY DEF Freed
    <3>5. JobAnswer(k)'
      BY <3>1, <3>3, <3>4, <1>6 DEF JobGood, JobAnswer, RequestKinds, Billed, Unbilled
    <3> QED
      BY <3>2, <3>5 DEF JobGood
  <2> QED
    BY <2>1, <2>2
<1>9. OverageOwned'
  BY <1>3 DEF IInv, OverageOwned, Others, NoJob
<1>10. ItemsGood'
  BY <1>1 DEF IInv, ItemsGood, ItemGood
<1> QED
  BY <1>4, <1>5, <1>7, <1>8, <1>9, <1>10 DEF IInv

-----------------------------------------------------------------------------
(* Steps of the edge.                                                      *)

(* Before the edge knows what it wants nobody works for its request.       *)
LEMMA NobodyYet ==
  ASSUME IInv, NEW r \in Requests, edge[r].pc \in Begun
  PROVE  /\ edge[r].want = "none" /\ r \notin expired
         /\ \A j \in Jobs : job[j] # NoJob => job[j].req # r
         /\ \A i \in items : i.req # r
         /\ hold[r].status \in {"none", "active"} /\ Charged(r) = 0
<1>1. EdgeGood(r) /\ HoldGood(r) /\ hold[r] \in HoldRow
  BY DEF IInv, RequestsGood, TypeOK, HoldRow
<1>2. edge[r].want = "none"
  BY <1>1 DEF EdgeGood
<1>3. r \notin expired
  BY <1>1 DEF HoldGood, Begun, Over
<1>4. hold[r].status \in {"none", "active"} /\ Charged(r) = 0
  BY <1>1, <1>2, <1>3 DEF HoldGood, HoldRow, Charged, Billed, Unbilled
<1>5. ASSUME NEW j \in Jobs, job[j] # NoJob, job[j].req = r
      PROVE  FALSE
  <2>1. JobGood(j) /\ job[j] \in Job
    BY <1>5, BusyTyped DEF IInv, JobsGood
  <2>2. job[j].pc # "idle" /\ job[j].kind \in RequestKinds \cup SweepKinds
    BY <1>5, <2>1 DEF JobGood, JobShape, Job
  <2> QED
    BY <1>2, <1>3, <1>5, <2>1, <2>2, Wants
       DEF JobGood, JobShape, RequestKinds, SweepKinds, Billed, Unbilled
<1>6. ASSUME NEW i \in items, i.req = r
      PROVE  FALSE
  BY <1>2, <1>6 DEF IInv, ItemsGood, ItemGood, TypeOK, Item, ItemKinds, Fits, Billed, Unbilled
<1> QED
  BY <1>2, <1>3, <1>4, <1>5, <1>6

OtherRequests(r) ==
    \A q \in Requests : q # r => edge'[q] = edge[q] /\ bill'[q] = bill[q] /\ auth'[q] = auth[q]

LEMMA EdgeMove ==
  ASSUME IInv, NEW r \in Requests,
         UNCHANGED <<balance, hold, overage, credited, items, key, expired, job>>,
         faults' \in 0..MaxFaults,
         auth' \in [Requests -> {"none", "sent", "reserved", "refused"}],
         edge' \in [Requests -> EdgeRow], bill' \in [Requests -> BillRow],
         OtherRequests(r),
         EdgeGood(r)', CallGood(r)', DoneGood(r)',
         \/ edge[r].pc \in Begun /\ (bill[r].cost <= bill'[r].cost)
         \/ /\ edge'[r].want = edge[r].want /\ bill'[r] = bill[r]
            /\ r \in expired => edge'[r].pc \in Over
  PROVE  IInv'
<1>1. TypeOK'
  BY DEF IInv, TypeOK, EdgeRow, BillRow
<1>2. HoldsCovered'
  BY CoveredKept DEF IInv
<1>3. NeverOvercharged'
  <2> SUFFICES ASSUME NEW q \in Requests
               PROVE  Charged(q)' <= IF q \in expired /\ bill'[q].cost < Estimate
                                       THEN Estimate ELSE bill'[q].cost
    BY DEF NeverOvercharged
  <2>1. Charged(q)' = Charged(q)
    BY DEF Charged
  <2>2. CASE bill'[q] = bill[q]
    BY <2>1, <2>2 DEF IInv, NeverOvercharged
  <2>3. CASE q = r /\ edge[r].pc \in Begun
    <3>1. Charged(q) = 0 /\ q \notin expired
      BY <2>3, NobodyYet
    <3>2. bill'[q].cost \in Nat
      BY DEF BillRow, Amount
    <3> QED
      BY <2>1, <3>1, <3>2
  <2> QED
    BY <2>2, <2>3 DEF OtherRequests
<1>4. HoldGood(r)'
  <2>1. HoldGood(r)
    BY DEF IInv, RequestsGood
  <2>2. CASE edge[r].pc \in Begun
    BY <2>1, <2>2, NobodyYet DEF HoldGood
  <2>3. CASE edge'[r].want = edge[r].want /\ (r \in expired => edge'[r].pc \in Over)
    BY <2>1, <2>3 DEF HoldGood
  <2> QED
    BY <2>2, <2>3
<1>5. RequestsGood'
  <2> SUFFICES ASSUME NEW q \in Requests, q # r
               PROVE  EdgeGood(q)' /\ CallGood(q)' /\ HoldGood(q)' /\ DoneGood(q)'
    BY <1>4 DEF RequestsGood
  <2>1. /\ EdgeGood(q) /\ CallGood(q) /\ HoldGood(q) /\ DoneGood(q)
        /\ edge'[q] = edge[q] /\ bill'[q] = bill[q] /\ auth'[q] = auth[q]
    BY DEF IInv, RequestsGood, OtherRequests
  <2> QED
    BY <2>1 DEF EdgeGood, CallGood, HoldGood, DoneGood, Freed, Recorded, Expiring
<1>6. ASSUME NEW q \in Requests, q # r \/ edge[r].pc \notin Begun
      PROVE  edge'[q].want = edge[q].want /\ bill'[q] = bill[q]
  BY <1>6 DEF OtherRequests
<1>7. JobsGood'
  <2> SUFFICES ASSUME NEW k \in Jobs, job[k] # NoJob
               PROVE  JobGood(k)'
    BY DEF JobsGood, JobGood, JobShape, JobStage, JobHold, JobAnswer
  <2>1. JobGood(k) /\ job[k].req \in Requests
    BY BusyTyped DEF IInv, JobsGood
  <2>2. edge'[job[k].req].want = edge[job[k].req].want /\ bill'[job[k].req] = bill[job[k].req]
    BY <2>1, <1>6, NobodyYet
  <2> QED
    BY <2>1, <2>2 DEF JobGood, JobShape, JobStage, JobHold, JobAnswer, Freed, Recorded
<1>8. OverageOwned'
  BY DEF IInv, OverageOwned
<1>9. ItemsGood'
  <2> SUFFICES ASSUME NEW i \in items
               PROVE  ItemGood(i)'
    BY DEF ItemsGood
  <2>1. ItemGood(i) /\ i.req \in Requests
    BY DEF IInv, ItemsGood, TypeOK, Item
  <2>2. edge'[i.req].want = edge[i.req].want /\ bill'[i.req] = bill[i.req]
    BY <2>1, <1>6, NobodyYet
  <2> QED
    BY <2>1, <2>2 DEF ItemGood
<1> QED
  BY <1>1, <1>2, <1>3, <1>5, <1>7, <1>8, <1>9 DEF IInv

(* What a change of one edge record does.                                  *)
LEMMA EdgeToEffect ==
  ASSUME TypeOK, NEW r \in Requests, NEW pc \in EdgePCs, EdgeTo(r, pc)
  PROVE  /\ edge' \in [Requests -> EdgeRow] /\ \A q \in Requests : q # r => edge'[q] = edge[q]
         /\ edge'[r].pc = pc /\ edge'[r].want = edge[r].want /\ edge'[r].call = edge[r].call
<1> DEFINE new == [edge[r] EXCEPT !.pc = pc]
<1>1. edge \in [Requests -> EdgeRow] /\ edge[r] \in EdgeRow
  BY DEF TypeOK, EdgeRow
<1>2. /\ new \in EdgeRow /\ new.pc = pc /\ new.want = edge[r].want /\ new.call = edge[r].call
  BY <1>1 DEF EdgeRow
<1>3. edge' = [edge EXCEPT ![r] = new]
  BY DEF EdgeTo
<1> HIDE DEF new
<1> QED
  BY <1>1, <1>2, <1>3

LEMMA EdgeWantsEffect ==
  ASSUME TypeOK, NEW r \in Requests, NEW want \in RequestKinds, EdgeWants(r, want)
  PROVE  /\ edge' \in [Requests -> EdgeRow] /\ \A q \in Requests : q # r => edge'[q] = edge[q]
         /\ edge'[r].pc = "posting" /\ edge'[r].want = want /\ edge'[r].call = edge[r].call
<1> DEFINE new == [edge[r] EXCEPT !.pc = "posting", !.want = want]
<1>1. /\ new \in EdgeRow /\ new.pc = "posting" /\ new.want = want /\ new.call = edge[r].call
  <2>1. edge[r] \in EdgeRow /\ want \in RequestKinds \cup {"none"} /\ "posting" \in EdgePCs
    BY DEF TypeOK, EdgeRow, EdgePCs
  <2> QED
    BY <2>1 DEF EdgeRow
<1>2. edge' = [edge EXCEPT ![r] = new]
  BY DEF EdgeWants
<1> HIDE DEF new
<1> QED
  BY <1>1, <1>2 DEF TypeOK, EdgeRow

(* What the invariant says of a request.                                   *)
LEMMA KnownEdge ==
  ASSUME IInv, NEW r \in Requests
  PROVE  /\ TypeOK /\ EdgeGood(r) /\ CallGood(r) /\ HoldGood(r) /\ DoneGood(r)
         /\ edge[r] \in EdgeRow /\ bill[r] \in BillRow /\ bill[r].cost \in Nat
         /\ edge \in [Requests -> EdgeRow] /\ bill \in [Requests -> BillRow]
         /\ auth \in [Requests -> {"none", "sent", "reserved", "refused"}]
BY DEF IInv, RequestsGood, TypeOK, EdgeRow, BillRow, Amount

LEMMA StartStep ==
  ASSUME IInv, NEW r \in Requests, Start(r)
  PROVE  IInv'
<1>1. /\ edge[r].pc = "idle" /\ edge[r].pc \in Begun /\ EdgeTo(r, "authorizing")
      /\ auth' = [auth EXCEPT ![r] = "sent"]
      /\ UNCHANGED <<balance, hold, overage, credited, items, key, expired, job>>
      /\ bill' = bill /\ Fine
  BY DEF Start, wallet, Begun, Fine
<1>2. /\ edge' \in [Requests -> EdgeRow] /\ \A q \in Requests : q # r => edge'[q] = edge[q]
      /\ edge'[r].pc = "authorizing" /\ edge'[r].want = edge[r].want /\ edge'[r].call = edge[r].call
  BY <1>1, EdgeToEffect, KnownEdge DEF EdgePCs
<1>3. /\ auth' \in [Requests -> {"none", "sent", "reserved", "refused"}]
      /\ OtherRequests(r) /\ auth'[r] = "sent"
  BY <1>1, <1>2, KnownEdge DEF OtherRequests
<1>4. EdgeGood(r)' /\ CallGood(r)' /\ DoneGood(r)'
  BY <1>1, <1>2, <1>3, KnownEdge DEF EdgeGood, CallGood, DoneGood, Begun, Billed
<1>5. faults' \in 0..MaxFaults /\ bill' \in [Requests -> BillRow] /\ bill[r].cost <= bill'[r].cost
  BY <1>1, FaultTyped, KnownEdge
<1> QED
  BY <1>1, <1>2, <1>3, <1>4, <1>5, EdgeMove

LEMMA AuthorizeRefuseStep ==
  ASSUME IInv, NEW r \in Requests, AuthorizeRefuse(r)
  PROVE  IInv'
<1>1. /\ auth' = [auth EXCEPT ![r] = "refused"] /\ edge' = edge
      /\ UNCHANGED <<balance, hold, overage, credited, items, key, expired, job>>
      /\ bill' = bill /\ Fine
  BY DEF AuthorizeRefuse, wallet, Fine
<1>2. /\ auth' \in [Requests -> {"none", "sent", "reserved", "refused"}]
      /\ OtherRequests(r) /\ auth'[r] = "refused"
  BY <1>1, KnownEdge DEF OtherRequests
<1>3. EdgeGood(r)' /\ CallGood(r)' /\ DoneGood(r)'
  BY <1>1, <1>2, KnownEdge DEF EdgeGood, CallGood, DoneGood, Freed, Recorded, Expiring
<1>4. /\ faults' \in 0..MaxFaults /\ bill' \in [Requests -> BillRow]
      /\ edge' \in [Requests -> EdgeRow]
      /\ r \in expired => edge'[r].pc \in Over
  BY <1>1, FaultTyped, KnownEdge DEF HoldGood
<1> QED
  BY <1>1, <1>2, <1>3, <1>4, EdgeMove

LEMMA AuthorizeReplyStep ==
  ASSUME IInv, NEW r \in Requests, AuthorizeReply(r)
  PROVE  IInv'
<1>1. /\ edge[r].pc = "authorizing" /\ edge[r].pc \in Begun
      /\ UNCHANGED <<balance, hold, overage, credited, items, key, expired, job>>
      /\ bill' = bill /\ auth' = auth /\ Fine
  BY DEF AuthorizeReply, wallet, Begun, Fine
<1>2. PICK to \in {"sending", "done"} :
         EdgeTo(r, to) /\ (to = "sending" => auth[r] = "reserved")
  BY DEF AuthorizeReply
<1>3. /\ edge' \in [Requests -> EdgeRow] /\ \A q \in Requests : q # r => edge'[q] = edge[q]
      /\ edge'[r].pc = to /\ edge'[r].want = edge[r].want /\ edge'[r].call = edge[r].call
  BY <1>2, EdgeToEffect, KnownEdge DEF EdgePCs
<1>4. OtherRequests(r)
  BY <1>1, <1>3 DEF OtherRequests
<1>5. EdgeGood(r)' /\ CallGood(r)' /\ DoneGood(r)'
  BY <1>1, <1>2, <1>3, KnownEdge DEF EdgeGood, CallGood, DoneGood, Begun, Billed, Unbilled
<1>6. /\ faults' \in 0..MaxFaults /\ bill' \in [Requests -> BillRow] /\ bill[r].cost <= bill'[r].cost
      /\ auth' \in [Requests -> {"none", "sent", "reserved", "refused"}]
  BY <1>1, FaultTyped, KnownEdge
<1> QED
  BY <1>1, <1>3, <1>4, <1>5, <1>6, EdgeMove

(* The edge learns what it wants: after a lost authorize, or from what     *)
(* Venice did.                                                             *)
LEMMA WantsMove ==
  ASSUME IInv, NEW r \in Requests, NEW want \in RequestKinds, NEW b \in BillRow,
         edge[r].pc \in Begun, edge[r].pc # "sending" => want = "release",
         EdgeWants(r, want), bill' = [bill EXCEPT ![r] = b],
         want \in Billed <=> b.venice = "answered",
         b.venice # "answered" => b.cost = 0,
         UNCHANGED <<wallet, items, key, auth, expired, job>>, Faulty \/ Fine
  PROVE  IInv'
<1>1. /\ edge' \in [Requests -> EdgeRow] /\ \A q \in Requests : q # r => edge'[q] = edge[q]
      /\ edge'[r].pc = "posting" /\ edge'[r].want = want /\ edge'[r].call = edge[r].call
  BY EdgeWantsEffect, KnownEdge
<1>2. /\ UNCHANGED <<balance, hold, overage, credited, items, key, expired, job>>
      /\ auth' = auth
  BY DEF wallet
<1>3. bill' \in [Requests -> BillRow] /\ bill'[r] = b /\ \A q \in Requests : q # r => bill'[q] = bill[q]
  BY KnownEdge
<1>4. OtherRequests(r)
  BY <1>1, <1>2, <1>3 DEF OtherRequests
<1>5. EdgeGood(r)'
  BY <1>1, <1>2, <1>3, KnownEdge DEF EdgeGood, Begun, Billed
<1>6. CallGood(r)' /\ DoneGood(r)'
  BY <1>1, KnownEdge DEF CallGood, DoneGood, Begun
<1>7. faults' \in 0..MaxFaults
  BY FaultTyped
<1>8. bill[r].cost <= bill'[r].cost
  <2>1. bill[r].cost = 0
    BY KnownEdge DEF EdgeGood
  <2>2. b.cost \in Nat
    BY DEF BillRow, Amount
  <2> QED
    BY <1>3, <2>1, <2>2
<1> QED
  BY <1>1, <1>2, <1>3, <1>4, <1>5, <1>6, <1>7, <1>8, KnownEdge, EdgeMove

LEMMA LearnsStep ==
  ASSUME IInv, NEW r \in Requests,
         AuthorizeLost(r) \/ VeniceAnswers(r) \/ VeniceRefuses(r) \/ VeniceLost(r)
  PROVE  IInv'
<1>1. bill[r] \in BillRow /\ bill \in [Requests -> BillRow]
  BY KnownEdge
<1>2. CASE AuthorizeLost(r)
  <2>1. bill' = [bill EXCEPT ![r] = bill[r]]
    BY <1>1, <1>2 DEF AuthorizeLost
  <2>2. /\ edge[r].pc = "authorizing" /\ EdgeWants(r, "release") /\ Faulty
        /\ UNCHANGED <<wallet, items, key, auth, expired, job>>
    BY <1>2 DEF AuthorizeLost
  <2>3. bill[r].venice = "none" /\ (bill[r].venice # "answered" => bill[r].cost = 0)
    BY <2>2, KnownEdge DEF EdgeGood, Begun
  <2> QED
    BY <1>1, <2>1, <2>2, <2>3, WantsMove DEF Begun, RequestKinds, Billed
<1>3. CASE VeniceAnswers(r)
  <2>1. PICK want \in {"usage", "observed"}, cost \in Costs :
           /\ EdgeWants(r, want)
           /\ bill' = [bill EXCEPT ![r] = [venice |-> "answered", cost |-> cost]]
    BY <1>3 DEF VeniceAnswers
  <2> DEFINE b == [venice |-> "answered", cost |-> cost]
  <2>2. b \in BillRow /\ b.venice = "answered"
    BY AmountAssumption DEF BillRow, Amount
  <2>3. bill' = [bill EXCEPT ![r] = b]
    BY <2>1
  <2> HIDE DEF b
  <2>4. edge[r].pc = "sending" /\ Fine /\ UNCHANGED <<wallet, items, key, auth, expired, job>>
    BY <1>3 DEF VeniceAnswers, Fine
  <2> QED
    BY <2>1, <2>2, <2>3, <2>4, WantsMove DEF Begun, RequestKinds, Billed
<1>4. CASE VeniceRefuses(r) \/ VeniceLost(r)
  <2>1. PICK v \in {"refused", "lost"}, want \in {"release", "unknown"} :
           /\ EdgeWants(r, want)
           /\ bill' = [bill EXCEPT ![r].venice = v]
    BY <1>4 DEF VeniceRefuses, VeniceLost
  <2> DEFINE b == [bill[r] EXCEPT !.venice = v]
  <2>2. b \in BillRow /\ b.venice = v /\ b.cost = bill[r].cost
    BY <1>1 DEF BillRow
  <2>3. bill' = [bill EXCEPT ![r] = b]
    BY <2>1
  <2> HIDE DEF b
  <2>4. /\ edge[r].pc = "sending" /\ (Faulty \/ Fine)
        /\ UNCHANGED <<wallet, items, key, auth, expired, job>>
    BY <1>4 DEF VeniceRefuses, VeniceLost, Fine
  <2>5. bill[r].cost = 0
    BY <2>4, KnownEdge DEF EdgeGood, Begun
  <2>6. edge[r].pc \in Begun /\ want \in RequestKinds /\ want \notin Billed /\ b.venice # "answered"
    BY <2>1, <2>2, <2>4 DEF Begun, RequestKinds, Billed
  <2> QED
    BY <2>1, <2>2, <2>3, <2>4, <2>5, <2>6, WantsMove
<1> QED
  BY <1>2, <1>3, <1>4

(* Steps that change an edge and the invocation it waits for.              *)
LEMMA EdgeJobMove ==
  ASSUME IInv, NEW c \in Jobs,
         UNCHANGED <<balance, hold, overage, credited, items, key, auth, bill, expired>>,
         faults' \in 0..MaxFaults, edge' \in [Requests -> EdgeRow],
         \A q \in Requests : /\ edge'[q].want = edge[q].want
                             /\ q \in expired => edge'[q].pc \in Over
                             /\ edge'[q].pc \in Begun => edge'[q] = edge[q]
                             /\ edge'[q].pc \in {"posting", "waiting", "gaveUp"}
                                   => edge[q].pc \in {"posting", "waiting", "gaveUp"}
                             /\ CallGood(q)' /\ DoneGood(q)',
         JobTyped', Others(c), JobGood(c)', job'[c].pc # "overage"
  PROVE  IInv'
<1>1. TypeOK'
  BY DEF IInv, TypeOK, EdgeRow, JobTyped
<1>2. HoldsCovered' /\ NeverOvercharged'
  BY CoveredKept DEF IInv, NeverOvercharged, Charged
<1>3. RequestsGood'
  <2> SUFFICES ASSUME NEW q \in Requests
               PROVE  EdgeGood(q)' /\ HoldGood(q)'
    BY DEF RequestsGood
  <2>1. EdgeGood(q) /\ HoldGood(q)
    BY DEF IInv, RequestsGood
  <2>2. HoldGood(q)'
    BY <2>1 DEF HoldGood
  <2>3. EdgeGood(q)'
    <3>1. edge'[q].pc \in Begun \/ edge'[q].pc \notin Begun
      OBVIOUS
    <3>2. edge'[q].want = edge[q].want /\ "sending" \in Begun
      BY DEF Begun
    <3> QED
      BY <2>1, <3>1, <3>2 DEF EdgeGood
  <2> QED
    BY <2>2, <2>3
<1>4. JobsGood'
  <2> SUFFICES ASSUME NEW k \in Jobs, k # c
               PROVE  JobGood(k)'
    BY DEF JobsGood
  <2>1. JobGood(k) /\ job'[k] = job[k] /\ (job[k] # NoJob => job[k].req \in Requests)
    BY BusyTyped DEF IInv, JobsGood, Others
  <2>2. job[k] # NoJob => edge'[job[k].req].want = edge[job[k].req].want
    BY <2>1
  <2> QED
    BY <2>1, <2>2 DEF JobGood, JobShape, JobStage, JobHold, JobAnswer, Freed, Recorded
<1>5. OverageOwned'
  BY DEF IInv, OverageOwned, Others
<1>6. ItemsGood'
  <2> SUFFICES ASSUME NEW i \in items
               PROVE  ItemGood(i)'
    BY DEF ItemsGood
  <2>1. ItemGood(i) /\ i.req \in Requests
    BY DEF IInv, ItemsGood, TypeOK, Item
  <2> QED
    BY <2>1 DEF ItemGood
<1> QED
  BY <1>1, <1>2, <1>3, <1>4, <1>5, <1>6 DEF IInv

(* An edge that has nothing to say about a step keeps its own parts.       *)
LEMMA OtherEdge ==
  ASSUME IInv, NEW c \in Jobs, NEW q \in Requests, Others(c), edge'[q] = edge[q],
         UNCHANGED <<hold, items>>, edge[q].call # c,
         job'[c] = NoJob \/ job'[c].kind # "expired"
  PROVE  CallGood(q)' /\ DoneGood(q)'
<1>1. CallGood(q) /\ DoneGood(q)
  BY DEF IInv, RequestsGood
<1>2. CallGood(q)'
  BY <1>1 DEF CallGood, Others, Jobs
<1>3. ASSUME NEW k \in Jobs, Expiring(k, q)'
      PROVE  Expiring(k, q)
  BY <1>3 DEF Expiring, Others
<1>4. DoneGood(q)'
  BY <1>1, <1>3 DEF DoneGood, Freed, Recorded
<1> QED
  BY <1>2, <1>4

LEMMA PostStep ==
  ASSUME IInv, NEW r \in Requests, NEW c \in Calls, Post(r, c)
  PROVE  IInv'
<1> DEFINE want == edge[r].want
           new == [edge[r] EXCEPT !.pc = "waiting", !.tries = @ + 1, !.call = c]
           b == [pc |-> FirstStep(want), req |-> r, kind |-> want,
                 cost |-> bill[r].cost, short |-> FALSE, from |-> "capture"]
<1>1. /\ edge[r].pc = "posting" /\ edge[r].tries < MaxTries(r) /\ job[c] = NoJob
      /\ edge' = [edge EXCEPT ![r] = new] /\ job' = [job EXCEPT ![c] = b]
      /\ UNCHANGED <<balance, hold, overage, credited, items, key, auth, bill, expired>> /\ Fine
  BY DEF Post, wallet, Fine
<1>2. /\ edge[r] \in EdgeRow /\ bill[r].cost \in Nat /\ want \in RequestKinds /\ EdgeGood(r)
      /\ c \in Jobs /\ HoldGood(r) /\ edge \in [Requests -> EdgeRow]
  BY <1>1, KnownEdge DEF EdgeGood, Jobs
<1>3. /\ new \in EdgeRow /\ new.pc = "waiting" /\ new.want = want /\ new.call = c
  <2>1. edge[r].tries + 1 \in 0..SettleAttempts
    BY <1>1, <1>2, BoundAssumption DEF EdgeRow, MaxTries
  <2>2. "waiting" \in EdgePCs
    BY DEF EdgePCs
  <2> QED
    BY <1>2, <2>1, <2>2 DEF EdgeRow
<1>4. /\ FirstStep(want) \in {"capture", "file", "load"}
      /\ FirstStep(want) = "capture" => want = "usage"
      /\ FirstStep(want) = "load" => want \in {"observed", "release"}
      /\ FirstStep(want) = "file" => want = "unknown"
  <2>1. /\ want = "usage" => FirstStep(want) = "capture"
        /\ want = "unknown" => FirstStep(want) = "file"
        /\ want \notin {"usage", "unknown"} => FirstStep(want) = "load"
    BY DEF FirstStep
  <2> HIDE DEF want
  <2> QED
    BY <1>2, <2>1 DEF RequestKinds
<1>5. /\ b \in Job /\ b.pc = FirstStep(want) /\ b.req = r /\ b.kind = want
      /\ b.cost = bill[r].cost /\ b.from = "capture"
  <2>1. FirstStep(want) \in JobPCs /\ want \in RequestKinds \cup SweepKinds /\ "capture" \in ItemKinds
    BY <1>2, <1>4 DEF JobPCs, ItemKinds
  <2> QED
    BY <1>2, <2>1 DEF Job, Amount
<1> HIDE DEF new, b
<1>6. /\ edge' \in [Requests -> EdgeRow] /\ edge'[r] = new
      /\ \A q \in Requests : q # r => edge'[q] = edge[q]
  BY <1>1, <1>2, <1>3
<1>7. JobTyped' /\ Others(c) /\ job'[c] = b
  BY <1>1, <1>2, <1>5 DEF IInv, TypeOK, JobTyped, Others
<1>8. r \notin expired
  BY <1>1, <1>2 DEF HoldGood, Over
<1>9. b # NoJob /\ b.pc # "overage" /\ b.kind # "expired" /\ c \notin Sweepers
  BY <1>2, <1>4, <1>5, JobAssumption DEF NoJob, RequestKinds
<1>10. JobGood(c)'
  <2>1. edge'[r].want = want
    BY <1>3, <1>6
  <2>2. JobShape(c)'
    BY <2>1, <1>1, <1>2, <1>4, <1>5, <1>7, <1>8, <1>9 DEF JobShape, RequestKinds
  <2>3. JobStage(c)'
    BY <2>1, <1>2, <1>4, <1>5, <1>7 DEF JobStage, RequestKinds, Billed
  <2>4. JobHold(c)'
    BY <1>1, <1>2, <1>4, <1>5, <1>7 DEF JobHold, EdgeGood, RequestKinds
  <2>5. JobAnswer(c)'
    BY <1>4, <1>5, <1>7 DEF JobAnswer
  <2> QED
    BY <2>2, <2>3, <2>4, <2>5 DEF JobGood
<1>11. ASSUME NEW q \in Requests
       PROVE  /\ edge'[q].want = edge[q].want /\ (q \in expired => edge'[q].pc \in Over)
              /\ edge'[q].pc \in Begun => edge'[q] = edge[q]
              /\ edge'[q].pc \in {"posting", "waiting", "gaveUp"}
                    => edge[q].pc \in {"posting", "waiting", "gaveUp"}
              /\ CallGood(q)' /\ DoneGood(q)'
  <2>1. CASE q = r
    BY <2>1, <1>1, <1>3, <1>5, <1>6, <1>7, <1>8, <1>9 DEF Begun, CallGood, DoneGood
  <2>2. CASE q # r
    <3>1. edge[q].call # c
      BY <1>1, KnownEdge, JobAssumption DEF CallGood
    <3>2. CallGood(q)' /\ DoneGood(q)'
      BY <2>2, <3>1, <1>1, <1>2, <1>5, <1>6, <1>7, <1>9, OtherEdge
    <3> QED
      BY <2>2, <3>2, <1>6, KnownEdge DEF HoldGood
  <2> QED
    BY <2>1, <2>2
<1>12. faults' \in 0..MaxFaults
  BY <1>1, FaultTyped
<1> QED
  BY <1>1, <1>2, <1>5, <1>6, <1>7, <1>9, <1>10, <1>11, <1>12, EdgeJobMove

(* An invocation that ends, with the edges that waited for it moved on.    *)
LEMMA CallEnds ==
  ASSUME IInv, NEW c \in Jobs, job[c] # NoJob, JobTyped', Others(c), job'[c] = NoJob,
         UNCHANGED <<balance, hold, overage, credited, items, key, auth, bill, expired>>,
         faults' \in 0..MaxFaults, edge' \in [Requests -> EdgeRow],
         \A q \in Requests : edge[q].call # c => edge'[q] = edge[q],
         \A q \in Requests : edge[q].call = c =>
            /\ edge'[q].want = edge[q].want /\ edge'[q].call = "none"
            /\ edge'[q].pc \in {"posting", "gone", "done"}
            /\ edge'[q].pc = "done" => job[c].pc = "ok"
  PROVE  IInv'
<1>1. JobGood(c)' /\ job'[c].pc # "overage"
  BY DEF JobGood, JobShape, JobStage, JobHold, JobAnswer, NoJob
<1>2. ASSUME NEW q \in Requests
      PROVE  /\ edge'[q].want = edge[q].want /\ (q \in expired => edge'[q].pc \in Over)
             /\ edge'[q].pc \in Begun => edge'[q] = edge[q]
             /\ edge'[q].pc \in {"posting", "waiting", "gaveUp"}
                   => edge[q].pc \in {"posting", "waiting", "gaveUp"}
             /\ CallGood(q)' /\ DoneGood(q)'
  <2>1. CASE edge[q].call # c
    <3>1. CallGood(q)' /\ DoneGood(q)'
      BY <2>1, OtherEdge
    <3> QED
      BY <2>1, <3>1, KnownEdge DEF HoldGood
  <2>2. CASE edge[q].call = c
    <3>1. edge[q].pc = "waiting" /\ job[c].req = q /\ job[c].pc # "idle" /\ c \in Calls
      BY <2>2, KnownEdge, JobAssumption DEF CallGood, Jobs, IInv, JobsGood, JobGood, JobShape
    <3>2. q \notin expired
      BY <3>1, KnownEdge DEF HoldGood, Over
    <3>3. CallGood(q)'
      BY <2>2 DEF CallGood
    <3>4. DoneGood(q)'
      <4> SUFFICES ASSUME edge'[q].pc = "done"
                   PROVE  /\ edge'[q].want \in Billed => Recorded(q)'
                          /\ edge'[q].want \in Unbilled =>
                                Freed(q)' /\ \A j \in Jobs : ~Expiring(j, q)'
        BY DEF DoneGood
      <4>1. job[c].pc = "ok" /\ edge'[q].want = edge[q].want /\ JobGood(c)
        BY <2>2 DEF IInv, JobsGood
      <4>2. job[c].kind = edge[q].want
        BY <3>1, <4>1 DEF JobGood, JobShape
      <4>3. /\ edge[q].want \in Billed => Recorded(q)
            /\ edge[q].want \in Unbilled => Freed(q)
        BY <3>1, <4>1, <4>2 DEF JobGood, JobAnswer
      <4>4. ASSUME NEW j \in Jobs, Expiring(j, q)'
            PROVE  FALSE
        <5>1. job[j] # NoJob /\ job[j].req = q /\ job[j].kind = "expired" /\ JobGood(j)
          BY <4>4 DEF Expiring, Others, IInv, JobsGood
        <5> QED
          BY <5>1, <3>2 DEF JobGood, JobShape
      <4> QED
        BY <4>1, <4>3, <4>4 DEF Freed, Recorded
    <3> QED
      BY <2>2, <3>1, <3>2, <3>3, <3>4 DEF Begun
  <2> QED
    BY <2>1, <2>2
<1> QED
  BY <1>1, <1>2, EdgeJobMove

LEMMA ReplyStep ==
  ASSUME IInv, NEW r \in Requests, Reply(r)
  PROVE  IInv'
<1> DEFINE c == edge[r].call
           to == IF job[c].pc = "ok" THEN "done" ELSE "posting"
           new == [edge[r] EXCEPT !.pc = to, !.call = "none"]
<1>1. /\ edge[r].pc = "waiting" /\ job[c].pc \in {"ok", "failed"}
      /\ edge' = [edge EXCEPT ![r] = new] /\ job' = [job EXCEPT ![c] = NoJob]
      /\ UNCHANGED <<balance, hold, overage, credited, items, key, auth, bill, expired>> /\ Fine
  BY DEF Reply, wallet, Fine
<1>2. /\ edge[r] \in EdgeRow /\ edge \in [Requests -> EdgeRow] /\ c \in Calls /\ c \in Jobs
      /\ job[c] # NoJob /\ job[c].req = r
  BY <1>1, KnownEdge DEF CallGood, Jobs
<1>3. new \in EdgeRow /\ new.pc = to /\ new.want = edge[r].want /\ new.call = "none"
  BY <1>2 DEF EdgeRow, EdgePCs
<1> HIDE DEF new
<1>4. /\ edge' \in [Requests -> EdgeRow] /\ edge'[r] = new
      /\ \A q \in Requests : q # r => edge'[q] = edge[q]
  BY <1>1, <1>2, <1>3
<1>5. JobTyped' /\ Others(c) /\ job'[c] = NoJob
  BY <1>1, <1>2 DEF IInv, TypeOK, JobTyped, Others
<1>6. \A q \in Requests : edge[q].call = c => q = r
  BY <1>2, KnownEdge, JobAssumption DEF CallGood, Jobs
<1>7. faults' \in 0..MaxFaults
  BY <1>1, FaultTyped
<1>8. \A q \in Requests : edge[q].call # c => edge'[q] = edge[q]
  BY <1>4
<1>9. \A q \in Requests : edge[q].call = c =>
            /\ edge'[q].want = edge[q].want /\ edge'[q].call = "none"
            /\ edge'[q].pc \in {"posting", "gone", "done"}
            /\ edge'[q].pc = "done" => job[c].pc = "ok"
  BY <1>3, <1>4, <1>6
<1> HIDE DEF c
<1> QED
  BY <1>1, <1>2, <1>4, <1>5, <1>7, <1>8, <1>9, CallEnds

LEMMA JobDiesStep ==
  ASSUME IInv, NEW j \in Jobs, JobDies(j)
  PROVE  IInv'
<1>1. /\ job[j] # NoJob /\ GoTo(j, "idle") /\ Faulty
      /\ edge' = [r \in Requests |->
                  IF edge[r].call = j THEN [edge[r] EXCEPT !.pc = "posting", !.call = "none"]
                                      ELSE edge[r]]
      /\ UNCHANGED <<balance, hold, overage, credited, items, key, auth, bill, expired>>
  BY DEF JobDies, wallet
<1>2. JobTyped' /\ Others(j) /\ job'[j] = NoJob
  BY <1>1, GoToEffect DEF IInv, JobPCs
<1>3. ASSUME NEW q \in Requests
      PROVE  /\ edge'[q] \in EdgeRow
             /\ edge[q].call # j => edge'[q] = edge[q]
             /\ edge[q].call = j => /\ edge'[q].want = edge[q].want /\ edge'[q].call = "none"
                                    /\ edge'[q].pc = "posting"
  <2> DEFINE new == [edge[q] EXCEPT !.pc = "posting", !.call = "none"]
  <2>1. edge[q] \in EdgeRow
    BY KnownEdge
  <2>2. new \in EdgeRow /\ new.want = edge[q].want /\ new.call = "none" /\ new.pc = "posting"
    BY <2>1 DEF EdgeRow, EdgePCs
  <2>3. edge'[q] = IF edge[q].call = j THEN new ELSE edge[q]
    BY <1>1
  <2> HIDE DEF new
  <2> QED
    BY <2>1, <2>2, <2>3
<1>4. edge' \in [Requests -> EdgeRow]
  BY <1>1, <1>3
<1>5. faults' \in 0..MaxFaults
  BY <1>1, FaultTyped
<1> QED
  BY <1>1, <1>2, <1>3, <1>4, <1>5, CallEnds

LEMMA LeavesStep ==
  ASSUME IInv, NEW r \in Requests, ConnectionLost(r) \/ GiveUp(r) \/ EdgeDies(r)
  PROVE  IInv'
<1>1. /\ UNCHANGED <<balance, hold, overage, credited, items, key, auth, bill, expired>>
      /\ Faulty \/ Fine
      /\ edge[r].pc \in {"authorizing", "sending", "posting", "waiting"}
  BY DEF ConnectionLost, GiveUp, EdgeDies, wallet, Fine
<1>2. edge[r] \in EdgeRow /\ edge \in [Requests -> EdgeRow] /\ bill \in [Requests -> BillRow]
      /\ auth \in [Requests -> {"none", "sent", "reserved", "refused"}] /\ bill[r].cost \in Nat
  BY KnownEdge
<1>3. PICK new \in EdgeRow :
         /\ edge' = [edge EXCEPT ![r] = new] /\ new.want = edge[r].want /\ new.call = "none"
         /\ \/ new.pc = "posting" /\ edge[r].pc = "waiting"
            \/ new.pc = "gaveUp" /\ edge[r].pc = "posting"
            \/ new.pc = "gone"
  <2>1. CASE ConnectionLost(r)
    <3> DEFINE n == [edge[r] EXCEPT !.pc = "posting", !.call = "none"]
    <3>1. n \in EdgeRow /\ n.want = edge[r].want /\ n.call = "none" /\ n.pc = "posting"
      BY <1>2 DEF EdgeRow, EdgePCs
    <3>2. edge' = [edge EXCEPT ![r] = n] /\ edge[r].pc = "waiting"
      BY <2>1 DEF ConnectionLost
    <3> HIDE DEF n
    <3> QED
      BY <3>1, <3>2
  <2>2. CASE GiveUp(r)
    <3> DEFINE n == [edge[r] EXCEPT !.pc = "gaveUp"]
    <3>1. n \in EdgeRow /\ n.want = edge[r].want /\ n.call = edge[r].call /\ n.pc = "gaveUp"
      BY <1>2 DEF EdgeRow, EdgePCs
    <3>2. edge' = [edge EXCEPT ![r] = n] /\ edge[r].pc = "posting"
      BY <2>2 DEF GiveUp, EdgeTo
    <3>3. edge[r].call = "none"
      BY <3>2, KnownEdge DEF CallGood
    <3> HIDE DEF n
    <3> QED
      BY <3>1, <3>2, <3>3
  <2>3. CASE EdgeDies(r)
    <3> DEFINE n == [edge[r] EXCEPT !.pc = "gone", !.call = "none"]
    <3>1. n \in EdgeRow /\ n.want = edge[r].want /\ n.call = "none" /\ n.pc = "gone"
      BY <1>2 DEF EdgeRow, EdgePCs
    <3>2. edge' = [edge EXCEPT ![r] = n]
      BY <2>3 DEF EdgeDies
    <3> HIDE DEF n
    <3> QED
      BY <3>1, <3>2
  <2> QED
    BY <2>1, <2>2, <2>3
<1>4. /\ edge' \in [Requests -> EdgeRow] /\ edge'[r] = new
      /\ \A q \in Requests : q # r => edge'[q] = edge[q]
  BY <1>2, <1>3
<1>5. faults' \in 0..MaxFaults
  BY <1>1, FaultTyped
<1>6. CASE job' = job
  <2>1. OtherRequests(r)
    BY <1>1, <1>4 DEF OtherRequests
  <2>2. EdgeGood(r)'
    BY <1>1, <1>3, <1>4, KnownEdge DEF EdgeGood, Begun
  <2>3. CallGood(r)' /\ DoneGood(r)'
    BY <1>3, <1>4 DEF CallGood, DoneGood
  <2>4. edge'[r].want = edge[r].want /\ bill'[r] = bill[r] /\ r \notin expired
    BY <1>1, <1>3, <1>4, KnownEdge DEF HoldGood, Over
  <2> QED
    BY <1>1, <1>2, <1>4, <1>5, <1>6, <2>1, <2>2, <2>3, <2>4, EdgeMove
<1>7. CASE job' # job
  <2> DEFINE c == edge[r].call
  <2>1. edge[r].pc = "waiting" /\ job' = [job EXCEPT ![c] = NoJob] /\ new.pc = "gone"
    <3>1. EdgeDies(r)
      BY <1>7 DEF ConnectionLost, GiveUp
    <3>2. edge'[r].pc = "gone"
      BY <1>2, <3>1 DEF EdgeDies, EdgeRow
    <3> QED
      BY <1>4, <1>7, <3>1, <3>2 DEF EdgeDies
  <2>2. c \in Jobs /\ job[c] # NoJob /\ job[c].req = r
    BY <2>1, KnownEdge DEF CallGood, Jobs
  <2>3. JobTyped' /\ Others(c) /\ job'[c] = NoJob
    BY <2>1, <2>2 DEF IInv, TypeOK, JobTyped, Others
  <2>4. \A q \in Requests : edge[q].call = c => q = r
    BY <2>2, KnownEdge, JobAssumption DEF CallGood, Jobs
  <2>5. \A q \in Requests : edge[q].call # c => edge'[q] = edge[q]
    BY <1>4
  <2>6. \A q \in Requests : edge[q].call = c =>
            /\ edge'[q].want = edge[q].want /\ edge'[q].call = "none"
            /\ edge'[q].pc \in {"posting", "gone", "done"}
            /\ edge'[q].pc = "done" => job[c].pc = "ok"
    BY <1>3, <1>4, <2>1, <2>4
  <2> HIDE DEF c
  <2> QED
    BY <1>1, <1>4, <1>5, <2>2, <2>3, <2>5, <2>6, CallEnds
<1> QED
  BY <1>6, <1>7

-----------------------------------------------------------------------------
(* Steps of the wallet on its own.                                         *)

LEMMA GrantTopUpStep ==
  ASSUME IInv, NEW x \in Sessions, GrantTopUp(x)
  PROVE  IInv'
<1>1. /\ credited' = credited \cup {x} /\ balance' = balance + TopUp
      /\ UNCHANGED <<hold, overage, items, key, auth, edge, bill, expired, job, faults>>
  BY DEF GrantTopUp, request
<1>2. TypeOK'
  BY <1>1, AmountAssumption DEF IInv, TypeOK
<1>3. HoldsCovered'
  <2> DEFINE n == Cardinality(ActiveHolds)
  <2>1. n \in Nat /\ Cardinality(ActiveHolds)' = n
    BY <1>1, ActiveFinite DEF ActiveHolds
  <2>2. Wallet = "card" => balance - Reserved * n >= 0
    BY DEF IInv, HoldsCovered, Available
  <2>3. balance \in Nat /\ TopUp \in Nat /\ Reserved * n \in Nat
    BY <2>1, AmountAssumption, ReserveProduct DEF IInv, TypeOK
  <2> HIDE DEF n
  <2>4. Wallet = "card" => balance' - Reserved * n >= 0
    BY <1>1, <2>2, <2>3
  <2> QED
    BY <2>1, <2>4 DEF HoldsCovered, Available
<1>4. NeverOvercharged' /\ OverageOwned' /\ ItemsGood'
  BY <1>1 DEF IInv, NeverOvercharged, Charged, OverageOwned, ItemsGood, ItemGood
<1>5. RequestsGood'
  BY <1>1 DEF IInv, RequestsGood, EdgeGood, CallGood, HoldGood, DoneGood, Freed, Recorded, Expiring
<1>6. JobsGood'
  BY <1>1 DEF IInv, JobsGood, JobGood, JobShape, JobStage, JobHold, JobAnswer, Freed, Recorded
<1> QED
  BY <1>2, <1>3, <1>4, <1>5, <1>6 DEF IInv

LEMMA KeyOnly ==
  ASSUME IInv, key' \in {"active", "paused"},
         UNCHANGED <<balance, hold, overage, credited, items, auth, edge, bill, expired, job, faults>>
  PROVE  IInv'
<1>1. TypeOK'
  BY DEF IInv, TypeOK
<1>2. HoldsCovered'
  BY CoveredKept DEF IInv
<1>3. NeverOvercharged' /\ OverageOwned' /\ ItemsGood'
  BY DEF IInv, NeverOvercharged, Charged, OverageOwned, ItemsGood, ItemGood
<1>4. RequestsGood'
  BY DEF IInv, RequestsGood, EdgeGood, CallGood, HoldGood, DoneGood, Freed, Recorded, Expiring
<1>5. JobsGood'
  BY DEF IInv, JobsGood, JobGood, JobShape, JobStage, JobHold, JobAnswer, Freed, Recorded
<1> QED
  BY <1>1, <1>2, <1>3, <1>4, <1>5 DEF IInv

LEMMA HoldExpiresStep ==
  ASSUME IInv, NEW r \in Requests, HoldExpires(r)
  PROVE  IInv'
<1>1. /\ hold[r].status = "active" /\ edge[r].pc \in Over
      /\ \A c \in Calls : job[c] = NoJob \/ job[c].req # r
      /\ expired' = expired \cup {r}
      /\ UNCHANGED <<balance, hold, overage, credited, items, key, auth, edge, bill, job, faults>>
  BY DEF HoldExpires, Over, WorksOn, wallet, request
<1>2. TypeOK'
  BY <1>1 DEF IInv, TypeOK
<1>3. HoldsCovered'
  BY <1>1, CoveredKept DEF IInv
<1>4. NeverOvercharged'
  <2> SUFFICES ASSUME NEW q \in Requests
               PROVE  Charged(q) <= IF q \in expired' /\ bill[q].cost < Estimate
                                      THEN Estimate ELSE bill[q].cost
    BY <1>1 DEF NeverOvercharged, Charged
  <2>1. CASE q # r
    BY <2>1, <1>1 DEF IInv, NeverOvercharged
  <2>2. CASE q = r
    <3>1. Charged(q) = 0 /\ bill[q].cost \in Nat
      BY <2>2, <1>1, KnownEdge DEF HoldGood, Charged
    <3> QED
      BY <3>1, AmountAssumption
  <2> QED
    BY <2>1, <2>2
<1>5. OverageOwned' /\ ItemsGood'
  BY <1>1 DEF IInv, OverageOwned, ItemsGood, ItemGood
<1>6. RequestsGood'
  <2> SUFFICES ASSUME NEW q \in Requests
               PROVE  EdgeGood(q)' /\ CallGood(q)' /\ HoldGood(q)' /\ DoneGood(q)'
    BY DEF RequestsGood
  <2>1. EdgeGood(q) /\ CallGood(q) /\ HoldGood(q) /\ DoneGood(q)
    BY DEF IInv, RequestsGood
  <2> QED
    BY <1>1, <2>1 DEF EdgeGood, CallGood, HoldGood, DoneGood, Freed, Recorded, Expiring
<1>7. JobsGood'
  <2> SUFFICES ASSUME NEW k \in Jobs
               PROVE  JobGood(k)'
    BY DEF JobsGood
  <2>1. JobGood(k)
    BY DEF IInv, JobsGood
  <2>2. JobShape(k)'
    BY <1>1, <2>1 DEF JobGood, JobShape
  <2> QED
    BY <1>1, <2>1, <2>2 DEF JobGood, JobStage, JobHold, JobAnswer, Freed, Recorded
<1> QED
  BY <1>2, <1>3, <1>4, <1>5, <1>6, <1>7 DEF IInv

(* The insert's balance guard covers the hold it makes.                    *)
LEMMA AuthorizeReserveStep ==
  ASSUME IInv, NEW r \in Requests, AuthorizeReserve(r)
  PROVE  IInv'
<1> DEFINE row == [hold[r] EXCEPT !.status = "active"]
<1>1. /\ hold[r].status = "none" /\ Reserved <= Available
      /\ hold' = [hold EXCEPT ![r] = row] /\ auth' = [auth EXCEPT ![r] = "reserved"]
      /\ UNCHANGED <<balance, overage, credited, items, key, edge, bill, expired, job, faults>>
  BY DEF AuthorizeReserve
<1>2. row \in HoldRow /\ row.status = "active" /\ row.captured = hold[r].captured
  BY DEF IInv, TypeOK, HoldRow
<1> HIDE DEF row
<1>3. /\ hold' \in [Requests -> HoldRow] /\ OtherHolds(r) /\ hold'[r].status = "active"
      /\ hold'[r].captured = hold[r].captured
  BY <1>1, <1>2 DEF IInv, TypeOK, HoldRow, OtherHolds
<1>4. TypeOK'
  BY <1>1, <1>3 DEF IInv, TypeOK, HoldRow
<1>5. HoldsCovered'
  <2> DEFINE n == Cardinality(ActiveHolds)
  <2>1. ActiveHolds' = ActiveHolds \cup {r} /\ r \notin ActiveHolds
    BY <1>1, <1>3 DEF ActiveHolds, OtherHolds
  <2>2. n \in Nat /\ Cardinality(ActiveHolds)' = n + 1
    BY <2>1, ActiveFinite, FS_AddElement
  <2>3. Reserved <= balance - Reserved * n
    BY <1>1 DEF Available
  <2>4. balance \in Nat /\ Reserved \in Nat /\ Reserved * n \in Nat
        /\ Reserved * (n + 1) = Reserved * n + Reserved
    BY <2>2, AmountAssumption, ReserveMore DEF IInv, TypeOK
  <2> HIDE DEF n
  <2>5. balance' - Reserved * (n + 1) >= 0
    BY <1>1, <2>3, <2>4
  <2> QED
    BY <2>2, <2>5 DEF HoldsCovered, Available
<1>6. NeverOvercharged'
  BY <1>1, <1>3 DEF IInv, NeverOvercharged, Charged, OtherHolds
<1>7. OverageOwned'
  BY <1>1 DEF IInv, OverageOwned
<1>8. ASSUME NEW q \in Requests, hold[q].status # "none"
      PROVE  hold'[q] = hold[q]
  BY <1>8, <1>1 DEF OtherHolds, IInv, TypeOK
<1>9. ItemsGood'
  BY <1>1, <1>8 DEF IInv, ItemsGood, ItemGood, TypeOK, Item
<1>10. RequestsGood'
  <2> SUFFICES ASSUME NEW q \in Requests
               PROVE  EdgeGood(q)' /\ CallGood(q)' /\ HoldGood(q)' /\ DoneGood(q)'
    BY DEF RequestsGood
  <2>1. EdgeGood(q) /\ CallGood(q) /\ HoldGood(q) /\ DoneGood(q)
    BY DEF IInv, RequestsGood
  <2>2. CASE q # r
    <3>1. hold'[q] = hold[q] /\ auth'[q] = auth[q]
      BY <2>2, <1>1, <1>3, KnownEdge DEF OtherHolds
    <3> QED
      BY <2>1, <3>1, <1>1 DEF EdgeGood, CallGood, HoldGood, DoneGood, Freed, Recorded, Expiring
  <2>3. CASE q = r
    <3>1. EdgeGood(q)' /\ CallGood(q)' /\ HoldGood(q)'
      BY <2>1, <2>3, <1>1, <1>3 DEF EdgeGood, CallGood, HoldGood
    <3>2. DoneGood(q)'
      BY <2>1, <2>3, <1>1, <1>3 DEF DoneGood, Freed, Recorded, Expiring
    <3> QED
      BY <3>1, <3>2
  <2> QED
    BY <2>2, <2>3
<1>11. JobsGood'
  <2> SUFFICES ASSUME NEW k \in Jobs, job[k] # NoJob
               PROVE  JobGood(k)'
    BY <1>1 DEF JobsGood, JobGood, JobShape, JobStage, JobHold, JobAnswer
  <2> DEFINE q == job[k].req
  <2>1. JobGood(k) /\ q \in Requests
    BY BusyTyped DEF IInv, JobsGood
  <2>2. JobShape(k)' /\ JobStage(k)'
    BY <1>1, <2>1 DEF JobGood, JobShape, JobStage
  <2>3. hold'[q] = hold[q] \/ (hold[q].status = "none" /\ hold'[q].status = "active")
    BY <2>1, <1>1, <1>3, <1>8 DEF OtherHolds
  <2>4. JobHold(k)'
    BY <1>1, <2>1, <2>3 DEF JobGood, JobHold
  <2>5. JobAnswer(k)'
    BY <1>1, <2>1, <2>3 DEF JobGood, JobAnswer, Freed, Recorded
  <2> QED
    BY <2>2, <2>4, <2>5 DEF JobGood
<1> QED
  BY <1>4, <1>5, <1>6, <1>7, <1>9, <1>10, <1>11 DEF IInv

-----------------------------------------------------------------------------
(* The invariant holds.                                                    *)

LEMMA InitGood == Init => IInv
<1> SUFFICES ASSUME Init
             PROVE  IInv
  OBVIOUS
<1>1. TypeOK
  BY AmountAssumption, BoundAssumption
     DEF Init, TypeOK, Amount, EdgePCs, JobPCs, NoJob
<1>2. /\ \A r \in Requests : /\ hold[r].status = "none" /\ hold[r].captured = 0 /\ overage[r] = 0
                             /\ edge[r].pc = "idle" /\ edge[r].want = "none"
                             /\ edge[r].call = "none" /\ auth[r] = "none"
                             /\ bill[r].venice = "none" /\ bill[r].cost = 0
      /\ \A j \in Jobs : job[j] = NoJob
      /\ items = {} /\ expired = {} /\ balance = Opening
  BY DEF Init
<1>3. HoldsCovered
  <2>1. ActiveHolds = {}
    BY <1>2 DEF ActiveHolds
  <2>2. Cardinality(ActiveHolds) = 0
    BY <2>1, FS_EmptySet
  <2> QED
    BY <1>2, <2>2, AmountAssumption DEF HoldsCovered, Available
<1>4. NeverOvercharged
  BY <1>2, AmountAssumption DEF NeverOvercharged, Charged
<1>5. RequestsGood
  BY <1>2, AmountAssumption DEF RequestsGood, EdgeGood, CallGood, HoldGood, DoneGood, Begun, Billed
<1>6. JobsGood /\ OverageOwned /\ ItemsGood
  BY <1>2 DEF JobsGood, JobGood, JobShape, JobStage, JobHold, JobAnswer, OverageOwned, ItemsGood, NoJob
<1> QED
  BY <1>1, <1>3, <1>4, <1>5, <1>6 DEF IInv

LEMMA JobStepGood ==
  ASSUME IInv, NEW j \in Jobs, JobStep(j)
  PROVE  IInv'
BY LoadStep, CaptureCommitsStep, CaptureQuietStep, OverageDebitsStep, OverageQuietStep, RecordStep,
   UncoveredStep, ReleaseStep, ReleaseFailsStep, FileStep DEF JobStep

LEMMA EdgeStepGood ==
  ASSUME IInv, NEW r \in Requests, Start(r) \/ EdgeProgress(r) \/ EdgeFault(r) \/ HoldExpires(r)
  PROVE  IInv'
BY StartStep, AuthorizeReserveStep, AuthorizeRefuseStep, AuthorizeReplyStep, LearnsStep, PostStep,
   ReplyStep, LeavesStep, HoldExpiresStep DEF EdgeProgress, EdgeFault

LEMMA NextGood ==
  ASSUME IInv, [Next]_vars
  PROVE  IInv'
<1>1. CASE UNCHANGED vars
  BY <1>1, KeyOnly DEF vars, IInv, TypeOK
<1>2. CASE Reactivate
  BY <1>2, KeyOnly DEF Reactivate, wallet, request
<1>3. ASSUME NEW s \in Sweepers, SweepStep(s)
      PROVE  IInv'
  BY <1>3, SweepItemStep, CloseItemStep, SweepExpiredStep DEF SweepStep
<1> QED
  BY <1>1, <1>2, <1>3, GrantTopUpStep, EdgeStepGood, JobStepGood, JobDiesStep, AnswerDroppedStep
     DEF Next

(* The inductive invariant holds of every reachable state.                 *)
THEOREM Invariance == Spec => []IInv
<1>1. Init => IInv
  BY InitGood
<1>2. IInv /\ [Next]_vars => IInv'
  BY NextGood
<1> QED
  BY <1>1, <1>2, PTL DEF Spec

(* Every variable keeps its type: no balance below zero, no settlement     *)
(* beyond its attempts, no job without a request.                          *)
THEOREM TypeCorrect == Spec => []TypeOK
<1>1. IInv => TypeOK
  BY DEF IInv
<1> QED
  BY <1>1, Invariance, PTL

(* The debit's and the reservation insert's guards keep every active hold  *)
(* of a card wallet covered, whatever races with them.                     *)
THEOREM HoldsStayCovered == Spec => []HoldsCovered
<1>1. IInv => HoldsCovered
  BY DEF IInv
<1> QED
  BY <1>1, Invariance, PTL

(* Retries, lost replies, late invocations and sweeps never charge a       *)
(* request more than its cost, or the estimate of an expired hold.         *)
THEOREM ChargesBounded == Spec => []NeverOvercharged
<1>1. IInv => NeverOvercharged
  BY DEF IInv
<1> QED
  BY <1>1, Invariance, PTL

(* releaseManagedVeniceReservation never runs on the hold of a request     *)
(* Venice answered.                                                        *)
THEOREM AnswersKept == Spec => []AnsweredKept
<1>1. IInv => AnsweredKept
  <2> SUFFICES ASSUME IInv, NEW r \in Requests, bill[r].venice = "answered"
               PROVE  hold[r].status # "released"
    BY DEF AnsweredKept
  <2> QED
    BY KnownEdge DEF EdgeGood, HoldGood, Billed, Unbilled
<1> QED
  BY <1>1, Invariance, PTL

(* A release the dashboard acknowledged, done or filed, is never charged.  *)
THEOREM ReleasesHonoured == Spec => []ReleaseHonoured
<1>1. IInv => ReleaseHonoured
  <2> SUFFICES ASSUME IInv, NEW r \in Requests, edge[r].pc = "done",
                      edge[r].want \in {"release", "unknown"}
               PROVE  hold[r].status # "captured"
    BY DEF ReleaseHonoured
  <2> QED
    BY KnownEdge DEF DoneGood, Freed, Unbilled
<1> QED
  BY <1>1, Invariance, PTL

(* A settlement the dashboard acknowledged is captured or on an open item. *)
THEOREM SettlementsRecorded == Spec => []SettlementRecorded
<1>1. IInv => SettlementRecorded
  <2> SUFFICES ASSUME IInv, NEW r \in Requests, edge[r].pc = "done",
                      edge[r].want \in {"usage", "observed"}
               PROVE  \/ hold[r].status = "captured"
                      \/ \E i \in items : i.req = r /\ i.kind = "capture"
    BY DEF SettlementRecorded
  <2> QED
    BY KnownEdge DEF DoneGood, Recorded, Billed
<1> QED
  BY <1>1, Invariance, PTL

-----------------------------------------------------------------------------
(* The refinement.                                                         *)

LEMMA ReserveOpens ==
  ASSUME IInv, NEW r \in Requests, AuthorizeReserve(r)
  PROVE  Ledger!Open(r)
<1> DEFINE n == Cardinality(ActiveHolds)
<1>1. /\ Reserved <= balance - Reserved * n /\ n \in Nat /\ Reserved * n \in Nat
      /\ balance \in Nat /\ Reserved \in Nat
  BY ActiveFinite, ReserveProduct, AmountAssumption DEF AuthorizeReserve, Available, IInv, TypeOK
<1> HIDE DEF n
<1>2. Reserved <= balance
  BY <1>1
<1> QED
  BY <1>2 DEF AuthorizeReserve, Ledger!Open

LEMMA CommitCaptures ==
  ASSUME IInv, NEW j \in Jobs, CaptureCommits(j)
  PROVE  job[j].req \in Requests /\ Ledger!Capture(job[j].req)
<1> DEFINE r == job[j].req
           amount == CaptureAmount(j)
<1>1. /\ job[j].pc = "capture" /\ hold[r].status = "active" /\ amount > 0 => CanDebit(amount, {r})
  BY DEF CaptureCommits, At
<1>2. job[j].pc # "idle"
  BY DEF CaptureCommits, At
<1>3. r \in Requests /\ amount \in 0..Reserved /\ amount \in Nat
  BY <1>2, Known, CaptureBounds, AmountAssumption
<1>4. amount <= balance
  <2>1. TypeOK /\ balance \in Nat
    BY DEF IInv, TypeOK
  <2>2. CASE amount > 0
    <3>1. CanDebit(amount, {r})
      BY <2>2 DEF CaptureCommits
    <3> QED
      BY <1>3, <2>1, <3>1, DebitWithin
  <2>3. CASE ~(amount > 0)
    BY <1>3, <2>1, <2>3
  <2> QED
    BY <2>2, <2>3
<1>5. /\ hold' = [hold EXCEPT ![r] = [status |-> "captured", captured |-> amount]]
      /\ balance' = balance - amount /\ hold[r].status = "active"
      /\ UNCHANGED <<overage, credited>>
  BY DEF CaptureCommits
<1> HIDE DEF amount
<1> QED
  BY <1>3, <1>4, <1>5 DEF Ledger!Capture

LEMMA ReleaseReleases ==
  ASSUME IInv, NEW j \in Jobs, Release(j)
  PROVE  /\ job[j].req \in Requests
         /\ Ledger!Release(job[j].req) \/ UNCHANGED <<balance, hold, overage, credited>>
<1>1. job[j].req \in Requests
  BY Known DEF Release, At
<1> QED
  BY <1>1 DEF Release, Ledger!Release

LEMMA DebitDebits ==
  ASSUME IInv, NEW j \in Jobs, OverageDebits(j)
  PROVE  job[j].req \in Requests /\ Ledger!DebitOverage(job[j].req)
<1> DEFINE r == job[j].req
           amount == OverageAmount(j)
<1>1. job[j].pc = "overage"
  BY DEF OverageDebits, At
<1>2. /\ r \in Requests /\ hold[r].status = "captured" /\ hold[r].captured = Reserved
      /\ overage[r] = 0 /\ job[j].cost > Reserved /\ job[j].cost \in Nat
  BY <1>1, Known DEF JobGood, JobHold
<1>3. amount \in Nat /\ amount >= 1
  BY <1>2, AmountAssumption DEF OverageAmount, CaptureAmount
<1>4. amount <= balance /\ balance \in Nat
  <2>1. TypeOK /\ balance \in Nat /\ CanDebit(amount, {})
    BY DEF IInv, TypeOK, OverageDebits
  <2> QED
    BY <1>3, <2>1, DebitWithin
<1>5. /\ overage' = [overage EXCEPT ![r] = @ + amount] /\ balance' = balance - amount
      /\ UNCHANGED <<hold, credited>>
  BY DEF OverageDebits
<1> HIDE DEF amount
<1>6. overage' = [overage EXCEPT ![r] = amount]
  <2>1. overage[r] + amount = amount
    BY <1>2, <1>3
  <2> QED
    BY <1>5, <2>1
<1>7. amount \in 1..balance
  BY <1>3, <1>4
<1> QED
  BY <1>2, <1>5, <1>6, <1>7 DEF Ledger!DebitOverage

Unmoved == UNCHANGED <<balance, hold, overage, credited>>

LEMMA JobStepMaps ==
  ASSUME IInv, NEW j \in Jobs, JobStep(j)
  PROVE  Ledger!Next \/ Unmoved
<1>1. CASE CaptureCommits(j)
  BY <1>1, CommitCaptures DEF Ledger!Next
<1>2. CASE Release(j)
  BY <1>2, ReleaseReleases DEF Ledger!Next, Unmoved
<1>3. CASE OverageDebits(j)
  BY <1>3, DebitDebits DEF Ledger!Next
<1>4. CASE Load(j) \/ LoadFails(j) \/ CaptureFindsClosed(j) \/ CaptureThrows(j)
  BY <1>4 DEF Load, LoadFails, CaptureFindsClosed, CaptureThrows, wallet, Unmoved
<1>5. CASE OverageShort(j) \/ OverageFails(j) \/ Record(j) \/ FileUncovered(j) \/ UncoveredFails(j)
  BY <1>5 DEF OverageShort, OverageFails, Record, FileUncovered, UncoveredFails, wallet, Unmoved
<1>6. CASE ReleaseFails(j) \/ File(j) \/ FileFails(j)
  BY <1>6 DEF ReleaseFails, File, FileFails, wallet, Unmoved
<1> QED
  BY <1>1, <1>2, <1>3, <1>4, <1>5, <1>6 DEF JobStep

LEMMA EdgeStepMaps ==
  ASSUME IInv, NEW r \in Requests, Start(r) \/ EdgeProgress(r) \/ EdgeFault(r) \/ HoldExpires(r)
  PROVE  Ledger!Next \/ Unmoved
<1>1. CASE AuthorizeReserve(r)
  BY <1>1, ReserveOpens DEF Ledger!Next
<1>2. CASE Start(r) \/ AuthorizeRefuse(r) \/ AuthorizeReply(r) \/ VeniceAnswers(r) \/ VeniceRefuses(r)
  BY <1>2 DEF Start, AuthorizeRefuse, AuthorizeReply, VeniceAnswers, VeniceRefuses, wallet, Unmoved
<1>3. ASSUME NEW c \in Calls, Post(r, c)
      PROVE  Unmoved
  BY <1>3 DEF Post, wallet, Unmoved
<1>4. CASE Reply(r) \/ GiveUp(r) \/ HoldExpires(r)
  BY <1>4 DEF Reply, GiveUp, HoldExpires, wallet, Unmoved
<1>5. CASE EdgeFault(r)
  BY <1>5 DEF EdgeFault, AuthorizeLost, VeniceLost, ConnectionLost, EdgeDies, wallet, Unmoved
<1> QED
  BY <1>1, <1>2, <1>3, <1>4, <1>5 DEF EdgeProgress

LEMMA NextMaps ==
  ASSUME IInv, [Next]_vars
  PROVE  [Ledger!Next]_(Ledger!ledgerVars)
<1>1. CASE UNCHANGED vars
  BY <1>1 DEF vars, Ledger!ledgerVars
<1>2. ASSUME NEW x \in Sessions, GrantTopUp(x)
      PROVE  Ledger!Next
  BY <1>2 DEF GrantTopUp, Ledger!Next, Ledger!Credit
<1>3. Reactivate => Unmoved
  BY DEF Reactivate, wallet, Unmoved
<1>4. ASSUME NEW j \in Jobs, JobDies(j)
      PROVE  Unmoved
  BY <1>4 DEF JobDies, wallet, Unmoved
<1>5. ASSUME NEW c \in Calls, AnswerDropped(c)
      PROVE  Unmoved
  BY <1>5 DEF AnswerDropped, wallet, Unmoved
<1>6. ASSUME NEW s \in Sweepers, SweepStep(s)
      PROVE  Unmoved
  BY <1>6 DEF SweepStep, SweepItem, CloseItem, SweepExpired, wallet, Unmoved
<1>7. Unmoved => [Ledger!Next]_(Ledger!ledgerVars)
  BY DEF Unmoved, Ledger!ledgerVars
<1> QED
  BY <1>1, <1>2, <1>3, <1>4, <1>5, <1>6, <1>7, JobStepMaps, EdgeStepMaps DEF Next

(* The Worker, the routes, the dashboard's settlements and the sweep       *)
(* together implement the ledger: every step of theirs is a step of the    *)
(* wallet's specification or leaves the wallet alone.                      *)
THEOREM LedgerImplemented == Spec => ImplementsLedger
<1>1. Init => Ledger!Init
  BY DEF Init, Ledger!Init
<1>2. IInv /\ [Next]_vars => [Ledger!Next]_(Ledger!ledgerVars)
  BY NextMaps
<1> QED
  BY <1>1, <1>2, Invariance, PTL DEF Spec, ImplementsLedger, Ledger!Spec
=============================================================================
