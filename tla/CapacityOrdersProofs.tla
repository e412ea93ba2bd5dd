------------------------ MODULE CapacityOrdersProofs ------------------------
(***************************************************************************)
(* Proofs about CapacityOrders for any number of orders, workers and       *)
(* faults: an order never makes a second key or server, and every server   *)
(* that exists or may appear is behind the one order that holds the        *)
(* owner's slot.                                                           *)
(***************************************************************************)
EXTENDS CapacityOrders, TLAPS

WorkerTyped == worker \in [Workers -> Worker \cup {NoWorker}]

LEMMA InitTyped == Init => TypeOK
BY OrderAssumption DEF Init, TypeOK, Row, Statuses, Seen, Actions, Worker, NoWorker, NoResolver

Others(w) == \A v \in Workers : v # w => worker'[v] = worker[v]
OtherRows(o) == \A p \in Orders : p # o => row'[p] = row[p]
RowBecomes(o, status, key, srv, id) ==
    /\ row'[o].status = status /\ row'[o].key = key /\ row'[o].srv = srv /\ row'[o].id = id
    /\ row'[o].resolved = row[o].resolved
WorkerBecomes(w, pc) ==
    /\ worker'[w].pc = pc /\ worker'[w].o = worker[w].o
    /\ worker'[w].id = worker[w].id /\ worker'[w].action = worker[w].action

(* A worker that is not idle has all its locals.                           *)
LEMMA BusyTyped ==
  ASSUME TypeOK, NEW w \in Workers, worker[w].pc # "idle"
  PROVE  worker[w] \in Worker /\ worker[w].o \in Orders
BY DEF TypeOK, Worker, NoWorker

LEMMA GoToEffect ==
  ASSUME TypeOK, NEW w \in Workers, NEW pc \in WorkerPCs, worker[w].pc # "idle", GoTo(w, pc)
  PROVE  /\ WorkerTyped' /\ Others(w) /\ worker'[w].pc = pc
         /\ pc # "idle" => WorkerBecomes(w, pc)
<1> DEFINE new == [worker[w] EXCEPT !.pc = pc]
<1>1. worker[w] \in Worker
  BY BusyTyped
<1>2. /\ new \in Worker /\ new.pc = pc /\ new.o = worker[w].o
      /\ new.id = worker[w].id /\ new.action = worker[w].action
  BY <1>1 DEF Worker
<1>3. worker' = [worker EXCEPT ![w] = IF pc = "idle" THEN NoWorker ELSE new]
  BY DEF GoTo
<1> HIDE DEF new
<1>4. WorkerTyped' /\ Others(w) /\ worker'[w] = (IF pc = "idle" THEN NoWorker ELSE new)
  BY <1>2, <1>3 DEF TypeOK, WorkerTyped, Others
<1>5. NoWorker.pc = "idle"
  BY DEF NoWorker
<1> QED
  BY <1>2, <1>4, <1>5 DEF WorkerBecomes

LEMMA EnterEffect ==
  ASSUME TypeOK, NEW w \in Workers, NEW o \in Orders, NEW pc \in WorkerPCs, Enter(w, o, pc)
  PROVE  /\ WorkerTyped' /\ Others(w)
         /\ worker'[w].pc = pc /\ worker'[w].o = o /\ worker'[w].id = 0
BY DEF TypeOK, Enter, Worker, WorkerTyped, Others, Row, Actions, Seen

(* What each step of a request does.                                       *)

LEMMA RecordRejectedEffect ==
  ASSUME TypeOK, NEW w \in Workers, RecordRejected(w)
  PROVE  LET o == worker[w].o IN
         /\ TypeOK' /\ Others(w) /\ OtherRows(o) /\ UNCHANGED <<prov, sent, resolver>>
         /\ \/ row'[o] = row[o] /\ worker'[w].pc = "idle"
            \/ /\ CanReject(o)
               /\ worker'[w].pc = "idle"
               /\ RowBecomes(o, "provider_rejected", row[o].key, row[o].srv, row[o].id)
<1> DEFINE o == worker[w].o
           new == [row[o] EXCEPT !.status = "provider_rejected"]
           pc == "idle"
<1>1. o \in Orders /\ row[o] \in Row /\ worker[w] \in Worker /\ worker[w].pc # "idle"
  BY BusyTyped DEF RecordRejected, At, TypeOK
<1>2. /\ new \in Row /\ new.resolved = row[o].resolved
      /\ <<new.status, new.key, new.srv, new.id>> = <<"provider_rejected", row[o].key, row[o].srv, row[o].id>>
  BY <1>1 DEF Row, Worker, Statuses
<1>3. pc \in WorkerPCs /\ "idle" \in WorkerPCs
  BY DEF WorkerPCs
<1> HIDE DEF new, pc
<1>4. /\ row' \in [Orders -> Row] /\ OtherRows(o)
      /\ \/ row'[o] = row[o] /\ GoTo(w, "idle")
         \/ CanReject(o) /\ row'[o] = new /\ GoTo(w, pc)
  BY <1>1, <1>2 DEF RecordRejected, Update, OrderOf, TypeOK, OtherRows, new, pc
<1>5. /\ WorkerTyped' /\ Others(w)
      /\ GoTo(w, "idle") => worker'[w].pc = "idle"
      /\ GoTo(w, pc) => worker'[w].pc = pc /\ (pc # "idle" => WorkerBecomes(w, pc))
  BY <1>1, <1>3, <1>4, GoToEffect
<1>6. TypeOK' /\ UNCHANGED <<prov, sent, resolver>>
  BY <1>4, <1>5 DEF RecordRejected, TypeOK, WorkerTyped, provider
<1> QED
  BY <1>2, <1>4, <1>5, <1>6 DEF RowBecomes, pc

LEMMA RecordCreationEffect ==
  ASSUME TypeOK, NEW w \in Workers, RecordCreation(w)
  PROVE  LET o == worker[w].o IN
         /\ TypeOK' /\ Others(w) /\ OtherRows(o) /\ UNCHANGED <<prov, sent, resolver>>
         /\ \/ row'[o] = row[o] /\ worker'[w].pc = "idle"
            \/ /\ Open(o)
               /\ WorkerBecomes(w, "observe")
               /\ RowBecomes(o, row[o].status, row[o].key, "accepted", worker[w].id)
<1> DEFINE o == worker[w].o
           new == [row[o] EXCEPT !.id = worker[w].id, !.srv = "accepted", !.action = "running",
                             !.seen = "initializing", !.receipt = TRUE]
           pc == "observe"
<1>1. o \in Orders /\ row[o] \in Row /\ worker[w] \in Worker /\ worker[w].pc # "idle"
  BY BusyTyped DEF RecordCreation, At, TypeOK
<1>2. /\ new \in Row /\ new.resolved = row[o].resolved
      /\ <<new.status, new.key, new.srv, new.id>> = <<row[o].status, row[o].key, "accepted", worker[w].id>>
  BY <1>1 DEF Row, Worker, Seen, Actions
<1>3. pc \in WorkerPCs /\ "idle" \in WorkerPCs
  BY DEF WorkerPCs
<1> HIDE DEF new, pc
<1>4. /\ row' \in [Orders -> Row] /\ OtherRows(o)
      /\ \/ row'[o] = row[o] /\ GoTo(w, "idle")
         \/ Open(o) /\ row'[o] = new /\ GoTo(w, pc)
  BY <1>1, <1>2 DEF RecordCreation, Update, OrderOf, CanRecordCreation, TypeOK, OtherRows, new, pc
<1>5. /\ WorkerTyped' /\ Others(w)
      /\ GoTo(w, "idle") => worker'[w].pc = "idle"
      /\ GoTo(w, pc) => worker'[w].pc = pc /\ (pc # "idle" => WorkerBecomes(w, pc))
  BY <1>1, <1>3, <1>4, GoToEffect
<1>6. TypeOK' /\ UNCHANGED <<prov, sent, resolver>>
  BY <1>4, <1>5 DEF RecordCreation, TypeOK, WorkerTyped, provider
<1> QED
  BY <1>2, <1>4, <1>5, <1>6 DEF RowBecomes, pc

LEMMA RecordProgressEffect ==
  ASSUME TypeOK, NEW w \in Workers, RecordProgress(w)
  PROVE  LET o == worker[w].o IN
         /\ TypeOK' /\ Others(w) /\ OtherRows(o) /\ UNCHANGED <<prov, sent, resolver>>
         /\ \/ row'[o] = row[o] /\ worker'[w].pc = "idle"
            \/ /\ Open(o)
               /\ worker'[w].pc = AfterProgress(worker[w].action, worker[w].seen)
               /\ worker'[w].pc # "idle" => WorkerBecomes(w, worker'[w].pc)
               /\ RowBecomes(o, row[o].status, row[o].key, "accepted", worker[w].id)
<1> DEFINE o == worker[w].o
           new == [row[o] EXCEPT !.id = worker[w].id, !.srv = "accepted",
                             !.action = worker[w].action, !.seen = worker[w].seen]
           pc == AfterProgress(worker[w].action, worker[w].seen)
<1>1. o \in Orders /\ row[o] \in Row /\ worker[w] \in Worker /\ worker[w].pc # "idle"
  BY BusyTyped DEF RecordProgress, At, TypeOK
<1>2. /\ new \in Row /\ new.resolved = row[o].resolved
      /\ <<new.status, new.key, new.srv, new.id>> = <<row[o].status, row[o].key, "accepted", worker[w].id>>
  BY <1>1 DEF Row, Worker, Seen, Actions
<1>3. pc \in WorkerPCs /\ "idle" \in WorkerPCs
  BY DEF WorkerPCs, AfterProgress
<1> HIDE DEF new, pc
<1>4. /\ row' \in [Orders -> Row] /\ OtherRows(o)
      /\ \/ row'[o] = row[o] /\ GoTo(w, "idle")
         \/ Open(o) /\ row'[o] = new /\ GoTo(w, pc)
  BY <1>1, <1>2 DEF RecordProgress, Update, OrderOf, TypeOK, OtherRows, new, pc
<1>5. /\ WorkerTyped' /\ Others(w)
      /\ GoTo(w, "idle") => worker'[w].pc = "idle"
      /\ GoTo(w, pc) => worker'[w].pc = pc /\ (pc # "idle" => WorkerBecomes(w, pc))
  BY <1>1, <1>3, <1>4, GoToEffect
<1>6. TypeOK' /\ UNCHANGED <<prov, sent, resolver>>
  BY <1>4, <1>5 DEF RecordProgress, TypeOK, WorkerTyped, provider
<1> QED
  BY <1>2, <1>4, <1>5, <1>6 DEF RowBecomes, pc

LEMMA RecordCreatedOffEffect ==
  ASSUME TypeOK, NEW w \in Workers, RecordCreatedOff(w)
  PROVE  LET o == worker[w].o IN
         /\ TypeOK' /\ Others(w) /\ OtherRows(o) /\ UNCHANGED <<prov, sent, resolver>>
         /\ \/ row'[o] = row[o] /\ worker'[w].pc = "idle"
            \/ /\ Open(o)
               /\ worker'[w].pc = "idle"
               /\ RowBecomes(o, "created_off", row[o].key, row[o].srv, worker[w].id)
<1> DEFINE o == worker[w].o
           new == [row[o] EXCEPT !.status = "created_off", !.id = worker[w].id,
                             !.action = "success", !.seen = "off"]
           pc == "idle"
<1>1. o \in Orders /\ row[o] \in Row /\ worker[w] \in Worker /\ worker[w].pc # "idle"
  BY BusyTyped DEF RecordCreatedOff, At, TypeOK
<1>2. /\ new \in Row /\ new.resolved = row[o].resolved
      /\ <<new.status, new.key, new.srv, new.id>> = <<"created_off", row[o].key, row[o].srv, worker[w].id>>
  BY <1>1 DEF Row, Worker, Statuses, Seen, Actions
<1>3. pc \in WorkerPCs /\ "idle" \in WorkerPCs
  BY DEF WorkerPCs
<1> HIDE DEF new, pc
<1>4. /\ row' \in [Orders -> Row] /\ OtherRows(o)
      /\ \/ row'[o] = row[o] /\ GoTo(w, "idle")
         \/ Open(o) /\ row'[o] = new /\ GoTo(w, pc)
  BY <1>1, <1>2 DEF RecordCreatedOff, Update, OrderOf, TypeOK, OtherRows, new, pc
<1>5. /\ WorkerTyped' /\ Others(w)
      /\ GoTo(w, "idle") => worker'[w].pc = "idle"
      /\ GoTo(w, pc) => worker'[w].pc = pc /\ (pc # "idle" => WorkerBecomes(w, pc))
  BY <1>1, <1>3, <1>4, GoToEffect
<1>6. TypeOK' /\ UNCHANGED <<prov, sent, resolver>>
  BY <1>4, <1>5 DEF RecordCreatedOff, TypeOK, WorkerTyped, provider
<1> QED
  BY <1>2, <1>4, <1>5, <1>6 DEF RowBecomes, pc

LEMMA MarkKeyEffect ==
  ASSUME TypeOK, NEW w \in Workers, MarkKey(w)
  PROVE  LET o == worker[w].o IN
         /\ TypeOK' /\ Others(w) /\ OtherRows(o) /\ UNCHANGED <<prov, sent, resolver>>
         /\ \/ /\ row'[o] = row[o] /\ worker'[w].pc \in {"idle", "reject"}
               /\ worker'[w].pc = "reject" => WorkerBecomes(w, "reject")
            \/ CanMarkKey(o) /\ WorkerBecomes(w, "postKey") /\ RowBecomes(o, row[o].status, "pending", row[o].srv, row[o].id)
<1> DEFINE o == worker[w].o
           new == [row[o] EXCEPT !.key = "pending"]
<1>1. o \in Orders /\ row[o] \in Row /\ worker[w].pc # "idle"
  BY BusyTyped DEF MarkKey, At, TypeOK
<1>2. /\ new \in Row /\ new.resolved = row[o].resolved
      /\ <<new.status, new.key, new.srv, new.id>> = <<row[o].status, "pending", row[o].srv, row[o].id>>
  BY <1>1 DEF Row
<1> HIDE DEF new
<1>3. /\ row' \in [Orders -> Row] /\ OtherRows(o)
      /\ \/ row'[o] = row[o] /\ GoTo(w, "idle")
         \/ row'[o] = row[o] /\ GoTo(w, "reject")
         \/ CanMarkKey(o) /\ row'[o] = new /\ GoTo(w, "postKey")
  <2>1. \/ row' = row /\ GoTo(w, "idle")
        \/ row' = row /\ GoTo(w, "reject")
        \/ CanMarkKey(o) /\ row' = [row EXCEPT ![o] = new] /\ GoTo(w, "postKey")
    BY DEF MarkKey, Update, OrderOf, new
  <2> QED
    BY <1>1, <1>2, <2>1 DEF TypeOK, OtherRows
<1>4. young' \in [Orders -> SUBSET {"key", "server"}]
  BY <1>1 DEF MarkKey, OrderOf, TypeOK
<1>5. \A pc \in {"idle", "reject", "postKey"} :
         GoTo(w, pc) => /\ WorkerTyped' /\ Others(w) /\ worker'[w].pc = pc
                        /\ pc # "idle" => WorkerBecomes(w, pc)
  BY <1>1, GoToEffect DEF WorkerPCs
<1>6. WorkerTyped' /\ Others(w)
  BY <1>3, <1>5
<1>7. TypeOK' /\ UNCHANGED <<prov, sent, resolver>>
  BY <1>3, <1>6, <1>4 DEF MarkKey, TypeOK, WorkerTyped, provider
<1> QED
  BY <1>2, <1>3, <1>5, <1>6, <1>7 DEF RowBecomes

LEMMA MarkServerEffect ==
  ASSUME TypeOK, NEW w \in Workers, MarkServer(w)
  PROVE  LET o == worker[w].o IN
         /\ TypeOK' /\ Others(w) /\ OtherRows(o) /\ UNCHANGED <<prov, sent, resolver>>
         /\ \/ /\ row'[o] = row[o] /\ worker'[w].pc \in {"idle", "reject"}
               /\ worker'[w].pc = "reject" => WorkerBecomes(w, "reject")
            \/ CanMarkServer(o) /\ WorkerBecomes(w, "postServer") /\ RowBecomes(o, row[o].status, row[o].key, "pending", row[o].id)
<1> DEFINE o == worker[w].o
           new == [row[o] EXCEPT !.srv = "pending"]
<1>1. o \in Orders /\ row[o] \in Row /\ worker[w].pc # "idle"
  BY BusyTyped DEF MarkServer, At, TypeOK
<1>2. /\ new \in Row /\ new.resolved = row[o].resolved
      /\ <<new.status, new.key, new.srv, new.id>> = <<row[o].status, row[o].key, "pending", row[o].id>>
  BY <1>1 DEF Row
<1> HIDE DEF new
<1>3. /\ row' \in [Orders -> Row] /\ OtherRows(o)
      /\ \/ row'[o] = row[o] /\ GoTo(w, "idle")
         \/ row'[o] = row[o] /\ GoTo(w, "reject")
         \/ CanMarkServer(o) /\ row'[o] = new /\ GoTo(w, "postServer")
  <2>1. \/ row' = row /\ GoTo(w, "idle")
        \/ row' = row /\ GoTo(w, "reject")
        \/ CanMarkServer(o) /\ row' = [row EXCEPT ![o] = new] /\ GoTo(w, "postServer")
    BY DEF MarkServer, Update, OrderOf, new
  <2> QED
    BY <1>1, <1>2, <2>1 DEF TypeOK, OtherRows
<1>4. young' \in [Orders -> SUBSET {"key", "server"}]
  BY <1>1 DEF MarkServer, OrderOf, TypeOK
<1>5. \A pc \in {"idle", "reject", "postServer"} :
         GoTo(w, pc) => /\ WorkerTyped' /\ Others(w) /\ worker'[w].pc = pc
                        /\ pc # "idle" => WorkerBecomes(w, pc)
  BY <1>1, GoToEffect DEF WorkerPCs
<1>6. WorkerTyped' /\ Others(w)
  BY <1>3, <1>5
<1>7. TypeOK' /\ UNCHANGED <<prov, sent, resolver>>
  BY <1>3, <1>6, <1>4 DEF MarkServer, TypeOK, WorkerTyped, provider
<1> QED
  BY <1>2, <1>3, <1>5, <1>6, <1>7 DEF RowBecomes

LEMMA RecordAmbiguousEffect ==
  ASSUME TypeOK, NEW w \in Workers, RecordAmbiguous(w)
  PROVE  LET o == worker[w].o IN
         /\ TypeOK' /\ Others(w) /\ OtherRows(o) /\ UNCHANGED <<prov, sent, resolver>>
         /\ worker'[w].pc = "idle"
         /\ \/ row'[o] = row[o]
            \/ /\ Open(o) /\ row'[o].status = "ambiguous" /\ row'[o].srv # "none"
               /\ row'[o].id = (IF worker[w].id # 0 THEN worker[w].id ELSE row[o].id)
               /\ row'[o].key = row[o].key /\ row'[o].resolved = row[o].resolved
<1> DEFINE o == worker[w].o
           id == worker[w].id
           seen == IF worker[w].action = "none" THEN worker[w].seen ELSE "none"
           new == [row[o] EXCEPT !.status = "ambiguous",
                                 !.id = IF id # 0 THEN id ELSE @,
                                 !.srv = IF id # 0 \/ row[o].id # 0 THEN "accepted" ELSE "ambiguous",
                                 !.seen = IF seen # "none" THEN seen ELSE @]
<1>1. o \in Orders /\ row[o] \in Row /\ worker[w] \in Worker
  BY BusyTyped DEF RecordAmbiguous, At, TypeOK
<1>2. seen \in Seen /\ id \in Nat
  BY <1>1 DEF Worker, Seen
<1> HIDE DEF seen, id
<1>3. /\ new \in Row /\ new.status = "ambiguous" /\ new.srv # "none"
      /\ new.id = (IF id # 0 THEN id ELSE row[o].id)
      /\ new.key = row[o].key /\ new.resolved = row[o].resolved
  BY <1>1, <1>2 DEF Row, Statuses
<1> HIDE DEF new
<1>4. WorkerTyped' /\ Others(w) /\ worker'[w].pc = "idle"
  BY GoToEffect DEF RecordAmbiguous, At, Update, WorkerPCs
<1>5. /\ row' \in [Orders -> Row] /\ OtherRows(o)
      /\ row'[o] = row[o] \/ (Open(o) /\ row'[o] = new)
  BY <1>1, <1>3 DEF RecordAmbiguous, Update, OrderOf, TypeOK, OtherRows, new, seen, id
<1> QED
  BY <1>3, <1>4, <1>5 DEF RecordAmbiguous, TypeOK, WorkerTyped, provider, id

LEMMA RecordKeyEffect ==
  ASSUME TypeOK, NEW w \in Workers, RecordKey(w)
  PROVE  LET o == worker[w].o  say == worker[w].say IN
         /\ TypeOK' /\ Others(w) /\ OtherRows(o) /\ UNCHANGED <<prov, sent, resolver>>
         /\ worker'[w].pc \in {"idle", "check", "fresh"}
         /\ worker'[w].pc # "idle" => worker'[w].id = worker[w].id
         /\ \/ row'[o] = row[o]
            \/ /\ CanRecordKey(o, say)
               /\ RowBecomes(o, StatusAfterKey(say), say, row[o].srv, row[o].id)
<1> DEFINE o == worker[w].o
           say == worker[w].say
           status == StatusAfterKey(say)
           new == [row[o] EXCEPT !.key = say, !.status = status]
           next == IF worker[w].quoted THEN "check" ELSE "fresh"
           local == [worker[w] EXCEPT !.pc = next, !.keyed = TRUE]
<1>1. o \in Orders /\ row[o] \in Row /\ worker[w] \in Worker /\ At(w, "recordKey")
  BY BusyTyped DEF RecordKey, At, TypeOK
<1>2. say \in {"none", "accepted", "ambiguous", "rejected"} /\ status \in Statuses
  BY <1>1 DEF Worker, StatusAfterKey, Statuses
<1>3. next \in WorkerPCs /\ next \in {"check", "fresh"}
  BY DEF WorkerPCs
<1> HIDE DEF next, status
<1>4. /\ new \in Row /\ new.resolved = row[o].resolved
      /\ <<new.status, new.key, new.srv, new.id>> = <<status, say, row[o].srv, row[o].id>>
  BY <1>1, <1>2 DEF Row
<1>5. local \in Worker /\ local.pc \in {"check", "fresh"} /\ local.id = worker[w].id
  BY <1>1, <1>3 DEF Worker
<1> HIDE DEF new, local
<1>6. CASE CanRecordKey(o, say)
  <2>1. row' = [row EXCEPT ![o] = new]
    BY <1>6 DEF RecordKey, OrderOf, new, status
  <2>2. worker' = [worker EXCEPT ![w] = IF say = "accepted" THEN local ELSE NoWorker]
    BY <1>6 DEF RecordKey, OrderOf, local, next
  <2>3. row' \in [Orders -> Row] /\ OtherRows(o) /\ row'[o] = new
    BY <1>1, <1>4, <2>1 DEF TypeOK, OtherRows
  <2>4. /\ WorkerTyped' /\ Others(w) /\ worker'[w].pc \in {"idle", "check", "fresh"}
        /\ worker'[w].pc # "idle" => worker'[w].id = worker[w].id
    BY <1>1, <1>5, <2>2 DEF TypeOK, WorkerTyped, Others, NoWorker
  <2> QED
    BY <1>4, <1>6, <2>3, <2>4 DEF RecordKey, TypeOK, WorkerTyped, provider, status, RowBecomes
<1>7. CASE ~CanRecordKey(o, say)
  <2>1. row' = row /\ GoTo(w, "idle")
    BY <1>7 DEF RecordKey, OrderOf
  <2>2. WorkerTyped' /\ Others(w) /\ worker'[w].pc = "idle"
    BY <1>1, <2>1, GoToEffect DEF At, WorkerPCs
  <2> QED
    BY <2>1, <2>2 DEF RecordKey, TypeOK, WorkerTyped, provider, OtherRows
<1> QED
  BY <1>6, <1>7

(* What the project holds for an order.                                    *)
Holdings == [key : {"none", "here", "gone"}, keys : Nat,
             server : {"none", "building", "off", "running", "gone"},
             servers : Nat, action : Actions]

LEMMA MakeEffect ==
  ASSUME TypeOK, NEW o \in Orders
  PROVE  /\ MakeKey(o) \in [Orders -> Holdings] /\ MakeServer(o) \in [Orders -> Holdings]
         /\ \A p \in Orders : p # o => MakeKey(o)[p] = prov[p] /\ MakeServer(o)[p] = prov[p]
         /\ LET k == MakeKey(o)[o] IN
              /\ k.keys = prov[o].keys + 1 /\ k.servers = prov[o].servers
              /\ k.server = prov[o].server /\ k.action = prov[o].action /\ k.key = "here"
         /\ LET s == MakeServer(o)[o] IN
              /\ s.servers = prov[o].servers + 1 /\ s.keys = prov[o].keys
              /\ s.key = prov[o].key /\ s.server = "building"
<1> DEFINE k == [prov[o] EXCEPT !.key = "here", !.keys = @ + 1]
           s == [prov[o] EXCEPT !.server = "building", !.servers = @ + 1, !.action = "running"]
<1>1. prov \in [Orders -> Holdings] /\ prov[o] \in Holdings
  BY DEF TypeOK, Holdings
<1>2. prov[o].keys + 1 \in Nat /\ prov[o].servers + 1 \in Nat
  BY <1>1 DEF Holdings
<1>3. \A n \in Nat :
         LET k1 == [prov[o] EXCEPT !.key = "here", !.keys = n]
             s1 == [prov[o] EXCEPT !.server = "building", !.servers = n, !.action = "running"] IN
         /\ k1 \in Holdings /\ k1.keys = n /\ k1.servers = prov[o].servers
         /\ k1.server = prov[o].server /\ k1.action = prov[o].action /\ k1.key = "here"
         /\ s1 \in Holdings /\ s1.servers = n /\ s1.keys = prov[o].keys
         /\ s1.key = prov[o].key /\ s1.server = "building"
  BY <1>1 DEF Holdings, Actions
<1>4. /\ k \in Holdings /\ k.keys = prov[o].keys + 1 /\ k.servers = prov[o].servers
      /\ k.server = prov[o].server /\ k.action = prov[o].action /\ k.key = "here"
  BY <1>2, <1>3
<1>5. /\ s \in Holdings /\ s.servers = prov[o].servers + 1 /\ s.keys = prov[o].keys
      /\ s.key = prov[o].key /\ s.server = "building"
  BY <1>2, <1>3
<1>6. MakeKey(o) = [prov EXCEPT ![o] = k] /\ MakeServer(o) = [prov EXCEPT ![o] = s]
  BY DEF MakeKey, MakeServer
<1> HIDE DEF k, s
<1>7. /\ MakeKey(o) \in [Orders -> Holdings] /\ MakeServer(o) \in [Orders -> Holdings]
      /\ \A p \in Orders : p # o => MakeKey(o)[p] = prov[p] /\ MakeServer(o)[p] = prov[p]
      /\ MakeKey(o)[o] = k /\ MakeServer(o)[o] = s
  BY <1>1, <1>4, <1>5, <1>6
<1> QED
  BY <1>4, <1>5, <1>7

LEMMA FreshQuoteEffect ==
  ASSUME TypeOK, NEW w \in Workers, FreshQuote(w) \/ CheckBeforeServer(w)
  PROVE  /\ TypeOK' /\ Others(w) /\ UNCHANGED <<row, prov, sent, resolver>>
         /\ worker'[w].pc \in {"check", "markKey", "markServer", "reject"}
         /\ worker'[w].id = worker[w].id
<1> DEFINE next == IF worker[w].keyed THEN "check" ELSE "markKey"
           local == [worker[w] EXCEPT !.pc = next, !.quoted = TRUE]
<1>1. worker[w] \in Worker /\ worker[w].pc # "idle"
  BY BusyTyped DEF FreshQuote, CheckBeforeServer, At
<1>2. next \in WorkerPCs /\ next \in {"check", "markKey"}
  BY DEF WorkerPCs
<1> HIDE DEF next
<1>3. local \in Worker /\ local.pc \in {"check", "markKey"} /\ local.id = worker[w].id
  BY <1>1, <1>2 DEF Worker
<1> HIDE DEF local
<1>4. \/ worker' = [worker EXCEPT ![w] = local]
      \/ GoTo(w, "reject")
      \/ GoTo(w, "markServer")
  BY DEF FreshQuote, CheckBeforeServer, local, next
<1>5. ASSUME NEW pc \in {"reject", "markServer"}, GoTo(w, pc)
      PROVE  WorkerTyped' /\ Others(w) /\ worker'[w].pc = pc /\ worker'[w].id = worker[w].id
  BY <1>1, <1>5, GoToEffect DEF WorkerPCs, WorkerBecomes
<1>6. CASE worker' = [worker EXCEPT ![w] = local]
  <2>1. WorkerTyped' /\ Others(w) /\ worker'[w] = local
    BY <1>3, <1>6 DEF TypeOK, WorkerTyped, Others
  <2> QED
    BY <1>3, <2>1 DEF FreshQuote, CheckBeforeServer, TypeOK, WorkerTyped, provider
<1> QED
  BY <1>4, <1>5, <1>6 DEF FreshQuote, CheckBeforeServer, TypeOK, WorkerTyped, provider

LEMMA FindKeyEffect ==
  ASSUME TypeOK, NEW w \in Workers, FindKey(w)
  PROVE  /\ TypeOK' /\ Others(w) /\ UNCHANGED <<row, prov, sent, resolver>>
         /\ worker'[w].pc = "recordKey" /\ worker'[w].o = worker[w].o
         /\ worker'[w].id = worker[w].id
         /\ worker'[w].say \in {"accepted", "ambiguous"}
         /\ worker'[w].say = "accepted" => prov[worker[w].o].key = "here"
<1>1. worker[w] \in Worker
  BY BusyTyped DEF FindKey, At
<1>2. PICK say \in {"accepted", "ambiguous"} :
         /\ worker' = [worker EXCEPT ![w] = [worker[w] EXCEPT !.pc = "recordKey", !.say = say]]
         /\ say = "accepted" => prov[worker[w].o].key = "here"
  BY DEF FindKey, OrderOf
<1>3. /\ [worker[w] EXCEPT !.pc = "recordKey", !.say = say] \in Worker
      /\ [worker[w] EXCEPT !.pc = "recordKey", !.say = say].pc = "recordKey"
      /\ [worker[w] EXCEPT !.pc = "recordKey", !.say = say].o = worker[w].o
      /\ [worker[w] EXCEPT !.pc = "recordKey", !.say = say].say = say
      /\ [worker[w] EXCEPT !.pc = "recordKey", !.say = say].id = worker[w].id
  BY <1>1 DEF Worker, WorkerPCs
<1>4. /\ WorkerTyped' /\ Others(w)
      /\ worker'[w] = [worker[w] EXCEPT !.pc = "recordKey", !.say = say]
  BY <1>2, <1>3 DEF TypeOK, WorkerTyped, Others
<1>5. faults' \in 0..MaxFaults
  BY OrderAssumption DEF FindKey, Fine, Faulty, TypeOK
<1> QED
  BY <1>2, <1>3, <1>4, <1>5 DEF FindKey, TypeOK, WorkerTyped, provider

LEMMA PostKeyEffect ==
  ASSUME TypeOK, NEW w \in Workers, PostKey(w)
  PROVE  LET o == worker[w].o IN
         /\ TypeOK' /\ Others(w) /\ UNCHANGED <<row, resolver>>
         /\ worker'[w].id = worker[w].id
         /\ \/ /\ prov' = MakeKey(o) /\ sent' = sent
               /\ worker'[w].pc = "recordKey" /\ worker'[w].o = o /\ worker'[w].say = "accepted"
            \/ /\ prov' = prov /\ sent' = sent
               /\ worker'[w].pc = "recordKey" /\ worker'[w].o = o /\ worker'[w].say = "rejected"
            \/ /\ prov' = prov /\ sent' = [sent EXCEPT ![o] = @ \cup {"key"}]
               /\ worker'[w].pc = "findKey" /\ worker'[w].o = o
<1> DEFINE o == worker[w].o
           said(say) == [worker[w] EXCEPT !.pc = "recordKey", !.say = say]
           lost == [worker[w] EXCEPT !.pc = "findKey"]
<1>1. worker[w] \in Worker /\ worker[w].pc # "idle" /\ o \in Orders
  BY BusyTyped DEF PostKey, At
<1>2. /\ \A say \in {"accepted", "rejected"} :
            /\ said(say) \in Worker /\ said(say).pc = "recordKey"
            /\ said(say).o = o /\ said(say).say = say /\ said(say).id = worker[w].id
      /\ lost \in Worker /\ lost.pc = "findKey" /\ lost.o = o /\ lost.id = worker[w].id
  BY <1>1 DEF Worker, WorkerPCs
<1> HIDE DEF said, lost
<1>3. \/ prov' = MakeKey(o) /\ sent' = sent /\ worker' = [worker EXCEPT ![w] = said("accepted")]
      \/ prov' = prov /\ sent' = sent /\ worker' = [worker EXCEPT ![w] = said("rejected")]
      \/ /\ prov' = prov /\ sent' = [sent EXCEPT ![o] = @ \cup {"key"}]
         /\ worker' = [worker EXCEPT ![w] = lost]
  BY DEF PostKey, OrderOf, GoTo, provider, said, lost
<1>4. prov' \in [Orders -> Holdings] /\ sent' \in [Orders -> SUBSET {"key", "server"}]
  <2>1. prov \in [Orders -> Holdings] /\ sent \in [Orders -> SUBSET {"key", "server"}]
    BY DEF TypeOK, Holdings
  <2>2. MakeKey(o) \in [Orders -> Holdings] /\ MakeServer(o) \in [Orders -> Holdings]
    BY <1>1, MakeEffect
  <2>3. prov' \in [Orders -> Holdings]
    BY <1>3, <2>1, <2>2
  <2>4. sent' \in [Orders -> SUBSET {"key", "server"}]
    BY <1>1, <1>3, <2>1
  <2> QED
    BY <2>3, <2>4
<1>5. WorkerTyped' /\ Others(w)
  BY <1>2, <1>3 DEF TypeOK, WorkerTyped, Others
<1>6. \/ prov' = MakeKey(o) /\ sent' = sent /\ worker'[w] = said("accepted")
      \/ prov' = prov /\ sent' = sent /\ worker'[w] = said("rejected")
      \/ /\ prov' = prov /\ sent' = [sent EXCEPT ![o] = @ \cup {"key"}] /\ worker'[w] = lost
  BY <1>3 DEF TypeOK
<1>7. faults' \in 0..MaxFaults
  BY OrderAssumption DEF PostKey, Fine, Faulty, TypeOK
<1>8. TypeOK' /\ UNCHANGED <<row, resolver>>
  BY <1>4, <1>5, <1>7 DEF PostKey, TypeOK, WorkerTyped, Holdings
<1> QED
  BY <1>2, <1>5, <1>6, <1>8

LEMMA PostServerEffect ==
  ASSUME TypeOK, NEW w \in Workers, PostServer(w)
  PROVE  LET o == worker[w].o IN
         /\ TypeOK' /\ Others(w) /\ UNCHANGED <<row, resolver>>
         /\ \/ /\ prov' = MakeServer(o) /\ sent' = sent
               /\ worker'[w].pc = "progress" /\ worker'[w].o = o
               /\ worker'[w].id = prov'[o].servers
            \/ /\ prov' = prov
               /\ sent' = sent \/ sent' = [sent EXCEPT ![o] = @ \cup {"server"}]
               /\ WorkerBecomes(w, "findServer")
<1> DEFINE o == worker[w].o
           made(id) == [worker[w] EXCEPT !.pc = "progress", !.id = id]
           lost == [worker[w] EXCEPT !.pc = "findServer"]
<1>1. worker[w] \in Worker /\ worker[w].pc # "idle" /\ o \in Orders
  BY BusyTyped DEF PostServer, At
<1>2. /\ \A id \in Nat : /\ made(id) \in Worker /\ made(id).pc = "progress"
                         /\ made(id).o = o /\ made(id).id = id
      /\ lost \in Worker /\ lost.pc = "findServer" /\ lost.o = o
      /\ lost.id = worker[w].id /\ lost.action = worker[w].action
  BY <1>1 DEF Worker, WorkerPCs
<1> HIDE DEF made, lost
<1>3. \/ /\ prov' = MakeServer(o) /\ sent' = sent
         /\ worker' = [worker EXCEPT ![w] = made(prov'[o].servers)]
      \/ /\ prov' = prov /\ worker' = [worker EXCEPT ![w] = lost]
         /\ sent' = sent \/ sent' = [sent EXCEPT ![o] = @ \cup {"server"}]
  BY DEF PostServer, OrderOf, GoTo, provider, made, lost
<1>4. prov' \in [Orders -> Holdings] /\ sent' \in [Orders -> SUBSET {"key", "server"}]
  <2>1. prov \in [Orders -> Holdings] /\ sent \in [Orders -> SUBSET {"key", "server"}]
    BY DEF TypeOK, Holdings
  <2>2. MakeKey(o) \in [Orders -> Holdings] /\ MakeServer(o) \in [Orders -> Holdings]
    BY <1>1, MakeEffect
  <2>3. prov' \in [Orders -> Holdings]
    BY <1>3, <2>1, <2>2
  <2>4. sent' \in [Orders -> SUBSET {"key", "server"}]
    BY <1>1, <1>3, <2>1
  <2> QED
    BY <2>3, <2>4
<1>5. prov'[o].servers \in Nat
  BY <1>1, <1>4 DEF Holdings
<1>6. WorkerTyped' /\ Others(w)
  <2>1. made(prov'[o].servers) \in Worker /\ lost \in Worker
    BY <1>2, <1>5
  <2>2. PICK new \in Worker : worker' = [worker EXCEPT ![w] = new]
    BY <1>3, <2>1
  <2> QED
    BY <2>2 DEF TypeOK, WorkerTyped, Others
<1>7. \/ prov' = MakeServer(o) /\ sent' = sent /\ worker'[w] = made(prov'[o].servers)
      \/ /\ prov' = prov /\ worker'[w] = lost
         /\ sent' = sent \/ sent' = [sent EXCEPT ![o] = @ \cup {"server"}]
  BY <1>3 DEF TypeOK
<1>8. faults' \in 0..MaxFaults
  BY OrderAssumption DEF PostServer, Fine, Faulty, TypeOK
<1>9. TypeOK' /\ UNCHANGED <<row, resolver>>
  BY <1>4, <1>6, <1>8 DEF PostServer, TypeOK, WorkerTyped, Holdings
<1> QED
  BY <1>2, <1>5, <1>6, <1>7, <1>9 DEF WorkerBecomes

LEMMA FindServerEffect ==
  ASSUME TypeOK, NEW w \in Workers, FindServer(w)
  PROVE  LET o == worker[w].o IN
         /\ TypeOK' /\ Others(w) /\ UNCHANGED <<row, prov, sent, resolver>>
         /\ worker'[w].pc = "ambiguous" /\ worker'[w].o = o
         /\ worker'[w].id = worker[w].id \/ (Visible(o) /\ worker'[w].id = prov[o].servers)
<1> DEFINE o == worker[w].o
           seen == Shown(prov[o].server)
           found == [worker[w] EXCEPT !.pc = "ambiguous", !.id = prov[o].servers, !.seen = seen]
           not == [worker[w] EXCEPT !.pc = "ambiguous"]
<1>1. worker[w] \in Worker /\ worker[w].pc # "idle" /\ o \in Orders
  BY BusyTyped DEF FindServer, At
<1>2. seen \in Seen /\ prov[o].servers \in Nat
  BY <1>1 DEF Shown, Seen, TypeOK
<1> HIDE DEF seen
<1>3. /\ found \in Worker /\ found.pc = "ambiguous" /\ found.o = o /\ found.id = prov[o].servers
      /\ not \in Worker /\ not.pc = "ambiguous" /\ not.o = o /\ not.id = worker[w].id
  BY <1>1, <1>2 DEF Worker, WorkerPCs
<1> HIDE DEF found, not
<1>4. \/ worker' = [worker EXCEPT ![w] = not]
      \/ Visible(o) /\ worker' = [worker EXCEPT ![w] = found]
  BY DEF FindServer, OrderOf, GoTo, found, not, seen
<1>5. WorkerTyped' /\ Others(w) /\ (worker'[w] = not \/ (Visible(o) /\ worker'[w] = found))
  BY <1>3, <1>4 DEF TypeOK, WorkerTyped, Others
<1>6. faults' \in 0..MaxFaults
  BY OrderAssumption DEF FindServer, Fine, Faulty, TypeOK
<1>7. TypeOK' /\ UNCHANGED <<row, prov, sent, resolver>>
  BY <1>5, <1>6 DEF FindServer, TypeOK, WorkerTyped, provider
<1> QED
  BY <1>3, <1>5, <1>7

LEMMA ObserveEffect ==
  ASSUME TypeOK, NEW w \in Workers, Observe(w)
  PROVE  LET o == worker[w].o IN
         /\ TypeOK' /\ Others(w) /\ UNCHANGED <<row, prov, sent, resolver>>
         /\ worker'[w].o = o
         /\ \/ /\ worker'[w].pc = "saw" /\ worker'[w].id = row[o].id
               /\ worker'[w].action = prov[o].action
            \/ worker'[w].pc = "ambiguous" /\ worker'[w].id \in {0, row[o].id}
<1> DEFINE o == worker[w].o
           seen == Shown(prov[o].server)
           saw == [worker[w] EXCEPT !.pc = "saw", !.id = row[o].id, !.action = prov[o].action,
                                    !.seen = seen]
           unsure(s, id) == [worker[w] EXCEPT !.pc = "ambiguous", !.seen = s, !.id = id]
<1>1. worker[w] \in Worker /\ worker[w].pc # "idle" /\ o \in Orders
  BY BusyTyped DEF Observe, At
<1>2. seen \in Seen /\ prov[o].action \in Actions /\ row[o].id \in Nat /\ "none" \in Seen
  BY <1>1 DEF Shown, Seen, TypeOK, Row
<1>3. \/ worker' = [worker EXCEPT ![w] = saw]
      \/ \E s \in {"none", seen} : \E id \in {0, row[o].id} :
            worker' = [worker EXCEPT ![w] = unsure(s, id)]
  <2>1. CASE worker' = [worker EXCEPT ![w].pc = "saw", ![w].id = row[o].id,
                                      ![w].action = prov[o].action, ![w].seen = seen]
    BY <2>1
  <2>2. CASE \E s \in {"none", seen} :
                worker' = [worker EXCEPT ![w].pc = "ambiguous", ![w].seen = s,
                                         ![w].id = IF s = "none" THEN 0 ELSE row[o].id]
    <3>1. PICK s \in {"none", seen} :
                worker' = [worker EXCEPT ![w].pc = "ambiguous", ![w].seen = s,
                                         ![w].id = IF s = "none" THEN 0 ELSE row[o].id]
      BY <2>2
    <3>2. CASE s = "none"
      <4>1. worker' = [worker EXCEPT ![w] = unsure(s, 0)]
        BY <3>1, <3>2
      <4> QED
        BY <4>1
    <3>3. CASE s # "none"
      <4>1. worker' = [worker EXCEPT ![w] = unsure(s, row[o].id)]
        BY <3>1, <3>3
      <4> QED
        BY <4>1
    <3> QED
      BY <3>2, <3>3
  <2> QED
    BY <2>1, <2>2 DEF Observe, OrderOf
<1> HIDE DEF seen
<1>4. /\ saw \in Worker /\ saw.pc = "saw" /\ saw.o = o /\ saw.id = row[o].id
      /\ saw.action = prov[o].action
  BY <1>1, <1>2 DEF Worker, WorkerPCs
<1>5. \A s \in Seen, id \in Nat :
         /\ unsure(s, id) \in Worker /\ unsure(s, id).pc = "ambiguous"
         /\ unsure(s, id).o = o /\ unsure(s, id).id = id
  BY <1>1, <1>2 DEF Worker, WorkerPCs
<1> HIDE DEF saw, unsure
<1>6. /\ WorkerTyped' /\ Others(w)
      /\ \/ worker'[w] = saw
         \/ \E s \in {"none", seen} : \E id \in {0, row[o].id} : worker'[w] = unsure(s, id)
  <2>1. CASE worker' = [worker EXCEPT ![w] = saw]
    BY <1>4, <2>1 DEF TypeOK, WorkerTyped, Others
  <2>2. ASSUME NEW s \in {"none", seen}, NEW id \in {0, row[o].id},
               worker' = [worker EXCEPT ![w] = unsure(s, id)]
        PROVE  WorkerTyped' /\ Others(w) /\ worker'[w] = unsure(s, id)
    <3>1. unsure(s, id) \in Worker
      BY <1>2, <1>5
    <3> QED
      BY <2>2, <3>1 DEF TypeOK, WorkerTyped, Others
  <2> QED
    BY <1>3, <2>1, <2>2
<1>7. faults' \in 0..MaxFaults
  BY OrderAssumption DEF Observe, Fine, Faulty, TypeOK
<1>8. TypeOK' /\ UNCHANGED <<row, prov, sent, resolver>>
  BY <1>6, <1>7 DEF Observe, TypeOK, WorkerTyped, provider
<1> QED
  BY <1>2, <1>4, <1>5, <1>6, <1>8

(* The other steps.                                                        *)
LEMMA ClaimQuoteEffect ==
  ASSUME TypeOK, NEW w \in Workers, NEW o \in Orders, ClaimQuote(w, o)
  PROVE  /\ TypeOK' /\ Others(w) /\ OtherRows(o) /\ UNCHANGED <<prov, sent, resolver>>
         /\ worker'[w].pc = "fresh" /\ worker'[w].id = 0
         /\ row[o].status = "quoted"
         /\ RowBecomes(o, "creating", row[o].key, row[o].srv, row[o].id)
         /\ \A p \in Orders : ~HoldsSlot(p)
<1> DEFINE new == [row[o] EXCEPT !.status = "creating"]
<1>1. row[o] \in Row /\ row[o].status = "quoted"
  BY DEF TypeOK, ClaimQuote
<1>2. /\ new \in Row /\ new.resolved = row[o].resolved
      /\ <<new.status, new.key, new.srv, new.id>> = <<"creating", row[o].key, row[o].srv, row[o].id>>
  BY <1>1 DEF Row, Statuses
<1>3. row' = [row EXCEPT ![o] = new] /\ Enter(w, o, "fresh")
  BY DEF ClaimQuote
<1> HIDE DEF new
<1>4. WorkerTyped' /\ Others(w) /\ worker'[w].pc = "fresh" /\ worker'[w].id = 0
  BY <1>3, EnterEffect DEF WorkerPCs
<1>5. row' \in [Orders -> Row] /\ OtherRows(o) /\ row'[o] = new
  BY <1>2, <1>3 DEF TypeOK, OtherRows
<1> QED
  BY <1>1, <1>2, <1>4, <1>5 DEF ClaimQuote, TypeOK, WorkerTyped, provider, RowBecomes

LEMMA ReplayEffect ==
  ASSUME TypeOK, NEW w \in Workers, NEW o \in Orders, Replay(w, o)
  PROVE  /\ TypeOK' /\ Others(w) /\ UNCHANGED <<row, prov, sent, resolver>>
         /\ worker'[w].pc = ReplayAt(o) /\ worker'[w].o = o /\ worker'[w].id = 0
<1>1. ReplayAt(o) \in WorkerPCs
  BY DEF ReplayAt, WorkerPCs
<1>2. /\ WorkerTyped' /\ Others(w)
      /\ worker'[w].pc = ReplayAt(o) /\ worker'[w].o = o /\ worker'[w].id = 0
  BY <1>1, EnterEffect DEF Replay
<1> QED
  BY <1>2 DEF Replay, TypeOK, WorkerTyped, provider

LEMMA WorkerEndsEffect ==
  ASSUME TypeOK, NEW w \in Workers, WorkerEnds(w)
  PROVE  TypeOK' /\ Others(w) /\ worker'[w].pc = "idle" /\ UNCHANGED <<row, prov, sent, resolver>>
<1>1. worker' = [worker EXCEPT ![w] = NoWorker]
  BY DEF WorkerEnds, GoTo
<1>2. WorkerTyped' /\ Others(w) /\ worker'[w] = NoWorker
  BY <1>1 DEF TypeOK, WorkerTyped, Others
<1>3. faults' \in 0..MaxFaults
  BY OrderAssumption DEF WorkerEnds, Fine, Faulty, TypeOK
<1>4. worker'[w].pc = "idle"
  BY <1>2 DEF NoWorker
<1> QED
  BY <1>2, <1>3, <1>4 DEF WorkerEnds, TypeOK, WorkerTyped, provider

OtherHoldings(o) == \A p \in Orders : p # o => prov'[p] = prov[p]

LEMMA PostLandsEffect ==
  ASSUME TypeOK, NEW o \in Orders, PostLands(o)
  PROVE  /\ TypeOK' /\ UNCHANGED <<row, worker, resolver>>
         /\ \/ /\ "key" \in sent[o] /\ prov' = MakeKey(o)
               /\ sent' = [sent EXCEPT ![o] = @ \ {"key"}]
            \/ /\ "server" \in sent[o] /\ prov' = MakeServer(o)
               /\ sent' = [sent EXCEPT ![o] = @ \ {"server"}]
<1>1. MakeKey(o) \in [Orders -> Holdings] /\ MakeServer(o) \in [Orders -> Holdings]
  BY MakeEffect
<1>2. prov' \in [Orders -> Holdings]
  BY <1>1 DEF PostLands
<1>3. sent' \in [Orders -> SUBSET {"key", "server"}]
  BY DEF PostLands, TypeOK
<1> QED
  BY <1>2, <1>3 DEF PostLands, TypeOK, Holdings

Console(o) == ProviderBuilds(o) \/ OwnerStarts(o) \/ OwnerStops(o) \/ OwnerRemoves(o)

LEMMA ConsoleEffect ==
  ASSUME TypeOK, NEW o \in Orders, Console(o)
  PROVE  /\ TypeOK' /\ OtherHoldings(o) /\ UNCHANGED <<row, sent, worker, resolver>>
         /\ prov'[o].keys = prov[o].keys /\ prov'[o].servers = prov[o].servers
         /\ prov'[o].key = prov[o].key \/ (prov[o].key = "here" /\ prov'[o].key = "gone")
         /\ prov'[o].server = prov[o].server \/ Visible(o)
         /\ prov[o].action = "success" => prov'[o].action = "success"
<1>1. prov \in [Orders -> Holdings] /\ prov[o] \in Holdings
  BY DEF TypeOK, Holdings
<1>2. ASSUME NEW h \in Holdings, prov' = [prov EXCEPT ![o] = h]
      PROVE  prov' \in [Orders -> Holdings] /\ OtherHoldings(o) /\ prov'[o] = h
  BY <1>1, <1>2 DEF OtherHoldings
<1>3. UNCHANGED <<row, young, expired, conn, sent, worker, resolver, faults>>
  BY DEF Console, ProviderBuilds, OwnerStarts, OwnerStops, OwnerRemoves
<1>4. ASSUME NEW s \in {"off", "running", "gone"}, Visible(o),
             prov' = [prov EXCEPT ![o].server = s]
      PROVE  /\ prov' \in [Orders -> Holdings] /\ OtherHoldings(o)
             /\ prov'[o] = [prov[o] EXCEPT !.server = s]
  <2>1. [prov[o] EXCEPT !.server = s] \in Holdings
    BY <1>1 DEF Holdings
  <2> QED
    BY <1>2, <1>4, <2>1
<1>5. ASSUME NEW a \in {"success", "error"}, prov' = [prov EXCEPT ![o].action = a]
      PROVE  /\ prov' \in [Orders -> Holdings] /\ OtherHoldings(o)
             /\ prov'[o] = [prov[o] EXCEPT !.action = a]
  <2>1. [prov[o] EXCEPT !.action = a] \in Holdings
    BY <1>1 DEF Holdings, Actions
  <2> QED
    BY <1>2, <1>5, <2>1
<1>6. ASSUME prov' = [prov EXCEPT ![o].key = "gone"]
      PROVE  /\ prov' \in [Orders -> Holdings] /\ OtherHoldings(o)
             /\ prov'[o] = [prov[o] EXCEPT !.key = "gone"]
  <2>1. [prov[o] EXCEPT !.key = "gone"] \in Holdings
    BY <1>1 DEF Holdings
  <2> QED
    BY <1>2, <1>6, <2>1
<1>7. \/ Visible(o) /\ \E s \in {"off", "running", "gone"} : prov' = [prov EXCEPT ![o].server = s]
      \/ /\ prov[o].action = "running"
         /\ \E a \in {"success", "error"} : prov' = [prov EXCEPT ![o].action = a]
      \/ prov[o].key = "here" /\ prov' = [prov EXCEPT ![o].key = "gone"]
  BY DEF Console, ProviderBuilds, OwnerStarts, OwnerStops, OwnerRemoves, Visible
<1>8. prov' \in [Orders -> Holdings] /\ OtherHoldings(o)
  BY <1>4, <1>5, <1>6, <1>7
<1>9. /\ prov'[o].keys = prov[o].keys /\ prov'[o].servers = prov[o].servers
      /\ prov'[o].key = prov[o].key \/ (prov[o].key = "here" /\ prov'[o].key = "gone")
      /\ prov'[o].server = prov[o].server \/ Visible(o)
      /\ prov[o].action = "success" => prov'[o].action = "success"
  <2>1. CASE Visible(o) /\ \E s \in {"off", "running", "gone"} : prov' = [prov EXCEPT ![o].server = s]
    BY <1>1, <1>4, <2>1 DEF Holdings
  <2>2. CASE /\ prov[o].action = "running"
             /\ \E a \in {"success", "error"} : prov' = [prov EXCEPT ![o].action = a]
    BY <1>1, <1>5, <2>2 DEF Holdings
  <2>3. CASE prov[o].key = "here" /\ prov' = [prov EXCEPT ![o].key = "gone"]
    BY <1>1, <1>6, <2>3 DEF Holdings
  <2> QED
    BY <1>7, <2>1, <2>2, <2>3
<1> QED
  BY <1>3, <1>8, <1>9 DEF TypeOK, Holdings

LEMMA QuietEffect ==
  ASSUME TypeOK, \/ \E o \in Orders : MarkerAges(o) \/ QuoteExpires(o)
                 \/ ConnectionFails \/ ConnectionRecovers
  PROVE  TypeOK' /\ UNCHANGED <<row, prov, sent, worker, resolver>>
<1>1. UNCHANGED <<row, prov, sent, worker, resolver>>
  BY DEF MarkerAges, QuoteExpires, ConnectionFails, ConnectionRecovers, provider
<1>2. young' \in [Orders -> SUBSET {"key", "server"}]
  BY DEF MarkerAges, QuoteExpires, ConnectionFails, ConnectionRecovers, TypeOK
<1>3. expired' \subseteq Orders /\ conn' \in {"ready", "down", "gone"} /\ faults' \in 0..MaxFaults
  BY OrderAssumption DEF MarkerAges, QuoteExpires, ConnectionFails, ConnectionRecovers, TypeOK, Faulty
<1> QED
  BY <1>1, <1>2, <1>3 DEF TypeOK

LEMMA ResolverEffect ==
  ASSUME TypeOK, (\E o \in Orders : ReadScope(o)) \/ VerifyAbsent
  PROVE  TypeOK' /\ UNCHANGED <<row, prov, sent, worker>>
<1>1. UNCHANGED <<row, young, expired, conn, prov, sent, worker, faults>>
  BY DEF ReadScope, VerifyAbsent, provider
<1>2. resolver' \in [pc : {"verify", "resolve"}, o : Orders, snap : Row] \cup {NoResolver}
  <2>1. CASE \E o \in Orders : ReadScope(o)
    BY <2>1 DEF ReadScope, TypeOK
  <2>2. CASE VerifyAbsent
    <3>1. resolver \in [pc : {"verify", "resolve"}, o : Orders, snap : Row]
      BY <2>2 DEF VerifyAbsent, TypeOK, NoResolver
    <3>2. [resolver EXCEPT !.pc = "resolve"] \in [pc : {"verify", "resolve"}, o : Orders, snap : Row]
      BY <3>1
    <3> QED
      BY <2>2, <3>2 DEF VerifyAbsent
  <2> QED
    BY <2>1, <2>2
<1> QED
  BY <1>1, <1>2 DEF TypeOK

LEMMA ResolveEffect ==
  ASSUME TypeOK, Resolve
  PROVE  /\ TypeOK' /\ UNCHANGED <<prov, sent, worker>> /\ resolver' = NoResolver
         /\ resolver.o \in Orders /\ OtherRows(resolver.o)
         /\ \/ row'[resolver.o] = row[resolver.o]
            \/ /\ Resolvable(resolver.o)
               /\ row'[resolver.o].status = row[resolver.o].status
               /\ row'[resolver.o].key = row[resolver.o].key
               /\ row'[resolver.o].srv = row[resolver.o].srv
               /\ row'[resolver.o].id = row[resolver.o].id
               /\ row'[resolver.o].resolved
<1> DEFINE o == resolver.o
           new == [row[o] EXCEPT !.resolved = TRUE]
<1>1. o \in Orders
  BY DEF Resolve, TypeOK, NoResolver
<1>2. row[o] \in Row
  BY <1>1 DEF TypeOK
<1>3. /\ new \in Row /\ new.resolved
      /\ <<new.status, new.key, new.srv, new.id>> = <<row[o].status, row[o].key, row[o].srv, row[o].id>>
  BY <1>2 DEF Row
<1>4. row' = row \/ (Resolvable(o) /\ row' = [row EXCEPT ![o] = new])
  BY DEF Resolve
<1> HIDE DEF new, o
<1>5. /\ row' \in [Orders -> Row] /\ OtherRows(o)
      /\ row'[o] = row[o] \/ (Resolvable(o) /\ row'[o] = new)
  BY <1>1, <1>3, <1>4 DEF TypeOK, OtherRows
<1> QED
  BY <1>1, <1>3, <1>5 DEF Resolve, TypeOK, provider, o

LEMMA DetachEffect ==
  ASSUME TypeOK, DeleteConnection \/ ForceForget
  PROVE  /\ TypeOK' /\ UNCHANGED <<prov, sent, worker, resolver>>
         /\ \A o \in Orders :
               /\ row'[o].key = row[o].key /\ row'[o].srv = row[o].srv /\ row'[o].id = row[o].id
               /\ row'[o].resolved = row[o].resolved
               /\ row'[o].status = row[o].status \/ (Worthless(o) /\ row'[o].status = "removed")
<1>1. Detach
  BY DEF DeleteConnection, ForceForget
<1>2. ASSUME NEW o \in Orders
      PROVE  /\ row'[o] \in Row
             /\ row'[o].key = row[o].key /\ row'[o].srv = row[o].srv /\ row'[o].id = row[o].id
             /\ row'[o].resolved = row[o].resolved
             /\ row'[o].status = row[o].status \/ (Worthless(o) /\ row'[o].status = "removed")
  <2>1. row[o] \in Row
    BY DEF TypeOK
  <2> DEFINE gone == [row[o] EXCEPT !.status = "removed", !.attached = FALSE]
             off == [row[o] EXCEPT !.attached = FALSE]
  <2>2. /\ gone \in Row /\ gone.key = row[o].key /\ gone.srv = row[o].srv /\ gone.id = row[o].id
        /\ gone.resolved = row[o].resolved /\ gone.status = "removed"
        /\ off \in Row /\ off.key = row[o].key /\ off.srv = row[o].srv /\ off.id = row[o].id
        /\ off.resolved = row[o].resolved /\ off.status = row[o].status
    BY <2>1 DEF Row, Statuses
  <2>3. row'[o] = row[o] \/ row'[o] = off \/ (Worthless(o) /\ row'[o] = gone)
    BY <1>1 DEF Detach
  <2> HIDE DEF gone, off
  <2> QED
    BY <2>1, <2>2, <2>3
<1>3. row' \in [Orders -> Row]
  <2>1. row' = [o \in Orders |-> row'[o]]
    BY <1>1 DEF Detach
  <2> QED
    BY <1>2, <2>1
<1> QED
  BY <1>1, <1>2, <1>3 DEF Detach, TypeOK, provider

-----------------------------------------------------------------------------
(* The inductive invariant.                                                *)

(* A key is posted at most once: as long as the marker is not set nothing  *)
(* was sent, and behind it one worker, one lost POST or one key stands for *)
(* the one POST.                                                           *)
KeyRows ==
    \A o \in Orders :
       /\ prov[o].keys \in {0, 1}
       /\ row[o].key = "none" => prov[o].keys = 0 /\ "key" \notin sent[o]
       /\ "key" \in sent[o] => prov[o].keys = 0
       /\ row[o].key = "accepted" => prov[o].keys = 1
       /\ prov[o].key # "none" => prov[o].keys = 1

KeyWorkers ==
    \A w \in Workers :
       /\ worker[w].pc = "postKey" =>
             /\ row[worker[w].o].key # "none"
             /\ prov[worker[w].o].keys = 0 /\ "key" \notin sent[worker[w].o]
             /\ \A v \in Workers : worker[v].pc = "postKey" /\ worker[v].o = worker[w].o => v = w
       /\ worker[w].pc = "recordKey" =>
             /\ worker[w].say # "none"
             /\ worker[w].say = "accepted" => prov[worker[w].o].keys = 1

(* The same of the server; and a marked server POST keeps its order among  *)
(* those that hold the slot, with an accepted key.                         *)
ServerRows ==
    \A o \in Orders :
       /\ prov[o].servers \in {0, 1}
       /\ row[o].srv = "none" => prov[o].servers = 0 /\ "server" \notin sent[o]
       /\ row[o].srv # "none" => /\ row[o].key = "accepted"
                                 /\ row[o].status \in {"creating", "ambiguous", "created_off"}
       /\ "server" \in sent[o] => prov[o].servers = 0
       /\ row[o].id # 0 => row[o].id = 1 /\ prov[o].servers = 1
       /\ prov[o].server # "none" => prov[o].servers = 1

BehindMarker == {"postServer", "findServer", "ambiguous", "progress", "observe", "saw", "result"}

ServerWorkers ==
    \A w \in Workers :
       LET o == worker[w].o  id == worker[w].id  pc == worker[w].pc IN
       /\ pc # "idle" /\ pc \notin BehindMarker => id = 0
       /\ pc \in BehindMarker =>
             /\ row[o].srv # "none"
             /\ id # 0 => id = 1 /\ prov[o].servers = 1
             /\ pc \in {"progress", "saw", "result"} => id # 0
             /\ pc = "observe" => row[o].id # 0
             /\ pc \in {"saw", "result"} /\ worker[w].action = "success"
                   => prov[o].action = "success"
             /\ pc = "result" => worker[w].action = "success"
       /\ pc = "postServer" =>
             /\ prov[o].servers = 0 /\ "server" \notin sent[o]
             /\ \A v \in Workers : worker[v].pc = "postServer" /\ worker[v].o = o => v = w

(* What was verified as gone stays gone, since both POSTs have been used.  *)
Gone(o) == /\ prov[o].servers = 1 /\ prov[o].keys = 1
           /\ ~Visible(o) /\ prov[o].key # "here"

ResolverSound ==
    resolver # NoResolver =>
       /\ prov[resolver.o].servers = 1 /\ prov[resolver.o].keys = 1
       /\ resolver.pc = "resolve" => Gone(resolver.o)

ResolvedRows ==
    \A o \in Orders : row[o].resolved => Gone(o) /\ row[o].key = "accepted" /\ row[o].srv # "none"

OneSlot == \A o, p \in Orders : HoldsSlot(o) /\ HoldsSlot(p) => o = p

Keys == KeyRows /\ KeyWorkers
Servers == ServerRows /\ ServerWorkers /\ CreatedOffProven
Inv == TypeOK /\ Keys /\ Servers /\ ResolverSound /\ ResolvedRows /\ OneSlot

LEMMA InitInv == Init => Inv
<1> SUFFICES ASSUME Init PROVE Inv
  OBVIOUS
<1>1. TypeOK
  BY InitTyped
<1>2. Keys
  BY DEF Init, Keys, KeyRows, KeyWorkers, NoWorker
<1>3. Servers
  BY DEF Init, Servers, ServerRows, ServerWorkers, BehindMarker, CreatedOffProven, NoWorker
<1>4. ResolverSound /\ ResolvedRows /\ OneSlot
  BY DEF Init, ResolverSound, ResolvedRows, OneSlot, HoldsSlot
<1> QED
  BY <1>1, <1>2, <1>3, <1>4 DEF Inv

-----------------------------------------------------------------------------
(* The key.                                                                *)

(* A step that posts no key, records no answer about one and starts no     *)
(* worker on either.                                                       *)
LEMMA KeysQuiet ==
  ASSUME TypeOK, TypeOK', Keys,
         \A o \in Orders :
            /\ row'[o].key = row[o].key /\ prov'[o].keys = prov[o].keys
            /\ prov'[o].key # "none" => prov[o].key # "none"
            /\ "key" \in sent'[o] <=> "key" \in sent[o],
         \A w \in Workers : worker'[w] = worker[w] \/ worker'[w].pc \notin {"postKey", "recordKey"}
  PROVE  Keys'
<1>1. KeyRows'
  BY DEF Keys, KeyRows
<1>2. \A w \in Workers : worker'[w].pc \in {"postKey", "recordKey"} =>
         worker'[w] = worker[w] /\ worker[w].o \in Orders
  BY BusyTyped
<1>3. KeyWorkers'
  BY <1>2 DEF Keys, KeyWorkers
<1> QED
  BY <1>1, <1>3 DEF Keys


(* The steps of a request that have nothing to do with the key.            *)
KeyFree(w) ==
    \/ FreshQuote(w) \/ CheckBeforeServer(w) \/ RecordRejected(w) \/ MarkServer(w)
    \/ PostServer(w) \/ FindServer(w) \/ RecordAmbiguous(w) \/ RecordCreation(w)
    \/ Observe(w) \/ RecordProgress(w) \/ RecordCreatedOff(w)

LEMMA KeyFreeEffect ==
  ASSUME TypeOK, NEW w \in Workers, KeyFree(w)
  PROVE  /\ TypeOK'
         /\ \A o \in Orders :
               /\ row'[o].key = row[o].key /\ prov'[o].keys = prov[o].keys
               /\ prov'[o].key = prov[o].key
               /\ "key" \in sent'[o] <=> "key" \in sent[o]
         /\ \A v \in Workers : worker'[v] = worker[v] \/ worker'[v].pc \notin {"postKey", "recordKey"}
<1> DEFINE o == worker[w].o
           Goal == /\ TypeOK'
                   /\ \A p \in Orders :
                         /\ row'[p].key = row[p].key /\ prov'[p].keys = prov[p].keys
                         /\ prov'[p].key = prov[p].key
                         /\ "key" \in sent'[p] <=> "key" \in sent[p]
                   /\ \A v \in Workers : \/ worker'[v] = worker[v]
                                         \/ worker'[v].pc \notin {"postKey", "recordKey"}
<1>1. worker[w] \in Worker /\ o \in Orders /\ row[o] \in Row /\ worker[w].pc # "idle"
  BY BusyTyped DEF TypeOK, KeyFree, At, FreshQuote, RecordRejected, CheckBeforeServer, MarkServer,
     PostServer, FindServer, RecordAmbiguous, RecordCreation, Observe, RecordProgress, RecordCreatedOff
<1>2. CASE FreshQuote(w) \/ CheckBeforeServer(w)
  BY <1>2, FreshQuoteEffect DEF Others
<1>3. CASE RecordRejected(w)
  BY <1>1, <1>3, RecordRejectedEffect DEF Others, OtherRows, RowBecomes
<1>4. CASE MarkServer(w)
  BY <1>1, <1>4, MarkServerEffect DEF Others, OtherRows, RowBecomes, WorkerBecomes
<1>5. CASE PostServer(w)
  <2>1. \A p \in Orders : prov'[p].keys = prov[p].keys /\ prov'[p].key = prov[p].key
    <3>1. prov' = prov \/ prov' = MakeServer(o)
      BY <1>5, PostServerEffect
    <3> QED
      BY <1>1, <3>1, MakeEffect
  <2>2. \A p \in Orders : "key" \in sent'[p] <=> "key" \in sent[p]
    <3>1. sent' = sent \/ sent' = [sent EXCEPT ![o] = @ \cup {"server"}]
      BY <1>5, PostServerEffect
    <3> QED
      BY <1>1, <3>1 DEF TypeOK
  <2> QED
    BY <1>5, <2>1, <2>2, PostServerEffect DEF Others, WorkerBecomes
<1>6. CASE FindServer(w)
  BY <1>6, FindServerEffect DEF Others
<1>7. CASE RecordAmbiguous(w)
  BY <1>7, RecordAmbiguousEffect DEF Others, OtherRows
<1>8. CASE RecordCreation(w)
  BY <1>1, <1>8, RecordCreationEffect DEF Others, OtherRows, RowBecomes, WorkerBecomes
<1>9. CASE Observe(w)
  BY <1>9, ObserveEffect DEF Others
<1>10. CASE RecordProgress(w)
  <2>1. AfterProgress(worker[w].action, worker[w].seen) \in {"idle", "ambiguous", "result"}
    BY DEF AfterProgress
  <2> QED
    BY <1>1, <1>10, <2>1, RecordProgressEffect DEF Others, OtherRows, RowBecomes
<1>11. CASE RecordCreatedOff(w)
  BY <1>1, <1>11, RecordCreatedOffEffect DEF Others, OtherRows, RowBecomes
<1> QED
  BY <1>2, <1>3, <1>4, <1>5, <1>6, <1>7, <1>8, <1>9, <1>10, <1>11 DEF KeyFree

LEMMA KeyStepKeys ==
  ASSUME Inv, NEW w \in Workers, MarkKey(w) \/ PostKey(w) \/ FindKey(w) \/ RecordKey(w)
  PROVE  TypeOK' /\ Keys'
<1> DEFINE o == worker[w].o
<1>1. /\ TypeOK /\ Keys /\ KeyRows /\ KeyWorkers
      /\ o \in Orders /\ worker[w].pc # "idle"
  BY BusyTyped DEF Inv, Keys, At, MarkKey, PostKey, FindKey, RecordKey
<1>2. \A v \in Workers : worker[v].pc \in {"postKey", "recordKey"} => worker[v].o \in Orders
  BY <1>1, BusyTyped
<1>3. CASE MarkKey(w)
  <2>1. TypeOK' /\ UNCHANGED <<prov, sent>> /\ Others(w) /\ OtherRows(o)
    BY <1>1, <1>3, MarkKeyEffect
  <2>2. CASE row'[o] = row[o] /\ worker'[w].pc \in {"idle", "reject"}
    BY <1>1, <2>1, <2>2, KeysQuiet DEF Others, OtherRows
  <2>3. CASE CanMarkKey(o) /\ worker'[w].pc = "postKey" /\ worker'[w].o = o /\ row'[o].key = "pending"
    <3>1. row[o].key = "none"
      BY <2>3 DEF CanMarkKey
    <3>2. KeyRows'
      BY <1>1, <2>1, <2>3, <3>1 DEF KeyRows, OtherRows
    <3>3. KeyWorkers'
      BY <1>1, <1>2, <2>1, <2>3, <3>1 DEF KeyRows, KeyWorkers, Others, OtherRows
    <3> QED
      BY <2>1, <3>2, <3>3 DEF Keys
  <2> QED
    BY <1>1, <1>3, <2>2, <2>3, MarkKeyEffect DEF RowBecomes, WorkerBecomes
<1>4. CASE PostKey(w)
  <2>1. TypeOK' /\ UNCHANGED row /\ Others(w)
    BY <1>1, <1>4, PostKeyEffect
  <2>2. /\ worker[w].pc = "postKey"
        /\ row[o].key # "none" /\ prov[o].keys = 0 /\ "key" \notin sent[o]
        /\ \A v \in Workers : v # w /\ worker[v].pc = "postKey" => worker[v].o # o
    BY <1>1, <1>4 DEF PostKey, At, KeyWorkers
  <2>3. CASE /\ prov' = MakeKey(o) /\ sent' = sent
             /\ worker'[w].pc = "recordKey" /\ worker'[w].o = o /\ worker'[w].say = "accepted"
    <3>1. /\ \A p \in Orders : p # o => prov'[p] = prov[p]
          /\ prov'[o].keys = 1
      BY <1>1, <2>2, <2>3, MakeEffect
    <3>2. KeyRows'
      BY <1>1, <2>1, <2>2, <2>3, <3>1 DEF KeyRows
    <3>3. KeyWorkers'
      BY <1>1, <1>2, <2>1, <2>2, <2>3, <3>1 DEF KeyRows, KeyWorkers, Others
    <3> QED
      BY <2>1, <3>2, <3>3 DEF Keys
  <2>4. CASE /\ prov' = prov /\ sent' = sent
             /\ worker'[w].pc = "recordKey" /\ worker'[w].o = o /\ worker'[w].say = "rejected"
    <3>1. KeyRows'
      BY <1>1, <2>1, <2>4 DEF KeyRows
    <3>2. KeyWorkers'
      BY <1>1, <1>2, <2>1, <2>4 DEF KeyWorkers, Others
    <3> QED
      BY <2>1, <3>1, <3>2 DEF Keys
  <2>5. CASE /\ prov' = prov /\ sent' = [sent EXCEPT ![o] = @ \cup {"key"}]
             /\ worker'[w].pc = "findKey"
    <3>1. /\ \A p \in Orders : p # o => sent'[p] = sent[p]
          /\ "key" \in sent'[o]
      BY <1>1, <2>5 DEF TypeOK
    <3>2. KeyRows'
      BY <1>1, <2>1, <2>2, <2>5, <3>1 DEF KeyRows
    <3>3. KeyWorkers'
      BY <1>1, <1>2, <2>1, <2>2, <2>5, <3>1 DEF KeyWorkers, Others
    <3> QED
      BY <2>1, <3>2, <3>3 DEF Keys
  <2> QED
    BY <1>1, <1>4, <2>3, <2>4, <2>5, PostKeyEffect
<1>5. CASE FindKey(w)
  <2>1. TypeOK' /\ UNCHANGED <<row, prov, sent>> /\ Others(w)
    BY <1>1, <1>5, FindKeyEffect
  <2>2. KeyRows'
    BY <1>1, <2>1 DEF KeyRows
  <2>3. KeyWorkers'
    BY <1>1, <1>2, <1>5, <2>1, FindKeyEffect DEF KeyRows, KeyWorkers, Others
  <2> QED
    BY <2>1, <2>2, <2>3 DEF Keys
<1>6. CASE RecordKey(w)
  <2>1. /\ TypeOK' /\ UNCHANGED <<prov, sent>> /\ Others(w) /\ OtherRows(o)
        /\ worker'[w].pc \in {"idle", "check", "fresh"}
    BY <1>1, <1>6, RecordKeyEffect
  <2>2. row'[o].key # row[o].key => row'[o].key = worker[w].say
    BY <1>1, <1>6, RecordKeyEffect DEF RowBecomes
  <2>3. worker[w].say # "none" /\ (worker[w].say = "accepted" => prov[o].keys = 1)
    BY <1>1, <1>6 DEF KeyWorkers, RecordKey, At
  <2>4. KeyRows'
    BY <1>1, <2>1, <2>2, <2>3 DEF KeyRows, OtherRows
  <2>5. KeyWorkers'
    BY <1>1, <1>2, <2>1, <2>2, <2>3 DEF KeyWorkers, Others, OtherRows
  <2> QED
    BY <2>1, <2>4, <2>5 DEF Keys
<1> QED
  BY <1>3, <1>4, <1>5, <1>6

(* The steps outside a request, one lost key POST that lands included.     *)
LEMMA OtherStepKeys ==
  ASSUME Inv, Next, \A w \in Workers : ~WorkerStep(w)
  PROVE  TypeOK' /\ Keys'
<1>1. TypeOK /\ Keys /\ KeyRows /\ KeyWorkers
  BY DEF Inv, Keys
<1>2. \A v \in Workers : worker[v].pc \in {"postKey", "recordKey"} => worker[v].o \in Orders
  BY <1>1, BusyTyped
<1>3. ASSUME NEW w \in Workers, NEW o \in Orders, ClaimQuote(w, o)
      PROVE  TypeOK' /\ Keys'
  BY <1>1, <1>3, ClaimQuoteEffect, KeysQuiet DEF Others, OtherRows, RowBecomes
<1>4. ASSUME NEW w \in Workers, NEW o \in Orders, Replay(w, o)
      PROVE  TypeOK' /\ Keys'
  <2>1. ReplayAt(o) \notin {"postKey", "recordKey"}
    BY DEF ReplayAt
  <2> QED
    BY <1>1, <1>4, <2>1, ReplayEffect, KeysQuiet DEF Others
<1>5. ASSUME NEW w \in Workers, WorkerEnds(w)
      PROVE  TypeOK' /\ Keys'
  BY <1>1, <1>5, WorkerEndsEffect, KeysQuiet DEF Others
<1>6. ASSUME NEW o \in Orders, PostLands(o)
      PROVE  TypeOK' /\ Keys'
  <2>1. TypeOK' /\ UNCHANGED <<row, worker>>
    BY <1>1, <1>6, PostLandsEffect
  <2>2. CASE "key" \in sent[o] /\ prov' = MakeKey(o) /\ sent' = [sent EXCEPT ![o] = @ \ {"key"}]
    <3>1. /\ \A p \in Orders : p # o => prov'[p] = prov[p] /\ sent'[p] = sent[p]
          /\ prov'[o].keys = 1 /\ "key" \notin sent'[o] /\ row[o].key # "none"
      BY <1>1, <2>2, MakeEffect DEF TypeOK, KeyRows
    <3>2. KeyRows'
      BY <1>1, <2>1, <2>2, <3>1 DEF KeyRows
    <3>3. KeyWorkers'
      BY <1>1, <1>2, <2>1, <2>2, <3>1 DEF KeyWorkers
    <3> QED
      BY <2>1, <3>2, <3>3 DEF Keys
  <2>3. CASE prov' = MakeServer(o) /\ sent' = [sent EXCEPT ![o] = @ \ {"server"}]
    <3>1. \A p \in Orders : /\ prov'[p].keys = prov[p].keys /\ prov'[p].key = prov[p].key
                            /\ "key" \in sent'[p] <=> "key" \in sent[p]
      BY <1>1, <2>3, MakeEffect DEF TypeOK
    <3> QED
      BY <1>1, <2>1, <3>1, KeysQuiet
  <2> QED
    BY <1>1, <1>6, <2>2, <2>3, PostLandsEffect
<1>7. ASSUME NEW o \in Orders, Console(o)
      PROVE  TypeOK' /\ Keys'
  BY <1>1, <1>7, ConsoleEffect, KeysQuiet DEF OtherHoldings
<1>8. CASE \/ \E o \in Orders : MarkerAges(o) \/ QuoteExpires(o)
           \/ ConnectionFails \/ ConnectionRecovers
  BY <1>1, <1>8, QuietEffect, KeysQuiet
<1>9. CASE (\E o \in Orders : ReadScope(o)) \/ VerifyAbsent
  BY <1>1, <1>9, ResolverEffect, KeysQuiet
<1>10. CASE Resolve
  BY <1>1, <1>10, ResolveEffect, KeysQuiet DEF OtherRows
<1>11. CASE DeleteConnection \/ ForceForget
  BY <1>1, <1>11, DetachEffect, KeysQuiet
<1> QED
  BY <1>3, <1>4, <1>5, <1>6, <1>7, <1>8, <1>9, <1>10, <1>11 DEF Next, OutsideStep, Console

LEMMA StepKeys ==
  ASSUME Inv, [Next]_vars
  PROVE  TypeOK' /\ Keys'
<1>1. TypeOK /\ Keys
  BY DEF Inv
<1>2. ASSUME NEW w \in Workers, WorkerStep(w)
      PROVE  TypeOK' /\ Keys'
  <2>1. CASE KeyFree(w)
    BY <1>1, <2>1, KeyFreeEffect, KeysQuiet
  <2>2. CASE MarkKey(w) \/ PostKey(w) \/ FindKey(w) \/ RecordKey(w)
    BY <2>2, KeyStepKeys
  <2> QED
    BY <1>2, <2>1, <2>2 DEF WorkerStep, KeyFree
<1>3. CASE UNCHANGED vars
  <2>1. TypeOK'
    BY <1>1, <1>3 DEF TypeOK, vars
  <2> QED
    BY <1>1, <1>3, <2>1, KeysQuiet DEF vars
<1> QED
  BY <1>2, <1>3, OtherStepKeys

-----------------------------------------------------------------------------
(* The server.                                                             *)

LEMMA ServersQuiet ==
  ASSUME TypeOK, TypeOK', Servers,
         \A o \in Orders :
            /\ row'[o].srv = row[o].srv /\ row'[o].id = row[o].id
            /\ row[o].srv # "none" => row'[o].key = row[o].key /\ row'[o].status = row[o].status
            /\ row'[o].status = "created_off" => row[o].status = "created_off"
            /\ prov'[o].servers = prov[o].servers
            /\ prov'[o].server # "none" => prov[o].server # "none"
            /\ prov[o].action = "success" => prov'[o].action = "success"
            /\ "server" \in sent'[o] <=> "server" \in sent[o],
         \A w \in Workers : \/ worker'[w] = worker[w]
                            \/ worker'[w].pc = "idle"
                            \/ worker'[w].pc \notin BehindMarker /\ worker'[w].id = 0
  PROVE  Servers'
<1>1. ServerRows'
  BY DEF Servers, ServerRows
<1>2. \A w \in Workers : worker'[w].pc \in BehindMarker =>
         worker'[w] = worker[w] /\ worker[w].o \in Orders
  BY BusyTyped DEF BehindMarker
<1>3. "postServer" \in BehindMarker /\ "idle" \notin BehindMarker
  BY DEF BehindMarker
<1>4. ServerWorkers'
  BY <1>2, <1>3 DEF Servers, ServerWorkers
<1>5. CreatedOffProven'
  BY DEF Servers, CreatedOffProven
<1> QED
  BY <1>1, <1>4, <1>5 DEF Servers

(* The steps of a request before its server POST.                          *)
LEMMA EarlyStepServers ==
  ASSUME Inv, NEW w \in Workers, TypeOK',
         \/ FreshQuote(w) \/ CheckBeforeServer(w) \/ RecordRejected(w)
         \/ MarkKey(w) \/ PostKey(w) \/ FindKey(w) \/ RecordKey(w)
  PROVE  Servers'
<1> DEFINE o == worker[w].o
<1>1. TypeOK /\ Servers /\ ServerRows /\ o \in Orders /\ worker[w].id = 0
  BY BusyTyped DEF Inv, Servers, ServerWorkers, BehindMarker, At, FreshQuote, CheckBeforeServer, RecordRejected, MarkKey, PostKey,
     FindKey, RecordKey
<1>2. {"idle", "fresh", "check", "markKey", "postKey", "findKey", "recordKey", "markServer", "reject"}
         \cap BehindMarker = {}
  BY DEF BehindMarker
<1>3. CASE FreshQuote(w) \/ CheckBeforeServer(w)
  BY <1>1, <1>2, <1>3, FreshQuoteEffect, ServersQuiet DEF Others
<1>4. CASE RecordRejected(w)
  <2>1. \/ row'[o] = row[o]
        \/ row[o].srv = "none" /\ RowBecomes(o, "provider_rejected", row[o].key, row[o].srv, row[o].id)
    BY <1>1, <1>4, RecordRejectedEffect DEF CanReject
  <2> QED
    BY <1>1, <1>2, <1>4, <2>1, RecordRejectedEffect, ServersQuiet DEF Others, OtherRows, RowBecomes
<1>5. CASE MarkKey(w)
  <2>1. \/ row'[o] = row[o]
        \/ row[o].srv = "none" /\ RowBecomes(o, row[o].status, "pending", row[o].srv, row[o].id)
    BY <1>1, <1>5, MarkKeyEffect DEF CanMarkKey, ServerRows
  <2> QED
    BY <1>1, <1>2, <1>5, <2>1, MarkKeyEffect, ServersQuiet
       DEF Others, OtherRows, RowBecomes, WorkerBecomes
<1>6. CASE PostKey(w)
  <2>1. \A p \in Orders : /\ prov'[p].servers = prov[p].servers /\ prov'[p].server = prov[p].server
                          /\ prov'[p].action = prov[p].action
    <3>1. prov' = prov \/ prov' = MakeKey(o)
      BY <1>1, <1>6, PostKeyEffect
    <3> QED
      BY <1>1, <3>1, MakeEffect
  <2>2. \A p \in Orders : "server" \in sent'[p] <=> "server" \in sent[p]
    <3>1. sent' = sent \/ sent' = [sent EXCEPT ![o] = @ \cup {"key"}]
      BY <1>1, <1>6, PostKeyEffect
    <3> QED
      BY <1>1, <3>1 DEF TypeOK
  <2> QED
    BY <1>1, <1>2, <1>6, <2>1, <2>2, PostKeyEffect, ServersQuiet DEF Others
<1>7. CASE FindKey(w)
  BY <1>1, <1>2, <1>7, FindKeyEffect, ServersQuiet DEF Others
<1>8. CASE RecordKey(w)
  <2>1. StatusAfterKey(worker[w].say) # "created_off"
    BY DEF StatusAfterKey
  <2>2. \/ row'[o] = row[o]
        \/ /\ row[o].srv = "none" /\ row'[o].srv = row[o].srv /\ row'[o].id = row[o].id
           /\ row'[o].status # "created_off"
    BY <1>1, <1>8, <2>1, RecordKeyEffect DEF CanRecordKey, ServerRows, RowBecomes
  <2> QED
    BY <1>1, <1>2, <1>8, <2>2, RecordKeyEffect, ServersQuiet DEF Others, OtherRows
<1> QED
  BY <1>3, <1>4, <1>5, <1>6, <1>7, <1>8

(* A worker behind the marker that moves on, its order's row changing at   *)
(* most in status and id, while the project stands still.                  *)
LEMMA ServersMove ==
  ASSUME TypeOK, TypeOK', Servers, NEW w \in Workers, NEW o \in Orders,
         worker[w].pc \in BehindMarker, worker[w].o = o,
         UNCHANGED <<prov, sent>>, Others(w), OtherRows(o),
         row'[o].srv # "none" /\ row'[o].key = row[o].key,
         row'[o].status \in {row[o].status, "ambiguous", "created_off"},
         row'[o].id = row[o].id \/ (row'[o].id = 1 /\ prov[o].servers = 1),
         row'[o].status = "created_off" =>
            row'[o].id = 1 /\ prov[o].servers = 1 /\ prov[o].action = "success",
         \/ worker'[w].pc = "idle"
         \/ /\ worker'[w].pc \in {"findServer", "ambiguous", "progress", "observe", "saw", "result"}
            /\ worker'[w].o = o
            /\ worker'[w].id # 0 => worker'[w].id = 1 /\ prov[o].servers = 1
            /\ worker'[w].pc \in {"progress", "saw", "result"} => worker'[w].id # 0
            /\ worker'[w].pc = "observe" => row'[o].id # 0
            /\ worker'[w].pc \in {"saw", "result"} /\ worker'[w].action = "success"
                  => prov[o].action = "success"
            /\ worker'[w].pc = "result" => worker'[w].action = "success"
  PROVE  Servers'
<1>1. ServerRows /\ ServerWorkers /\ CreatedOffProven
  BY DEF Servers
<1>2. \A v \in Workers : worker[v].pc \in BehindMarker => worker[v].o \in Orders
  BY BusyTyped DEF BehindMarker
<1>3. row[o].srv # "none"
  BY <1>1 DEF ServerWorkers
<1>4. ServerRows'
  BY <1>1, <1>3 DEF ServerRows, OtherRows
<1>5. \A p \in Orders : /\ row[p].srv # "none" => row'[p].srv # "none"
                        /\ row[p].id # 0 => row'[p].id # 0
  BY <1>1, <1>3 DEF OtherRows, ServerRows
<1>6. "postServer" \in BehindMarker /\ "idle" \notin BehindMarker
      /\ {"findServer", "ambiguous", "progress", "observe", "saw", "result"} \subseteq BehindMarker
  BY DEF BehindMarker
<1>7. ServerWorkers'
  <2>1. \A v \in Workers : v # w => worker'[v] = worker[v]
    BY DEF Others
  <2>2. UNCHANGED <<prov, sent>>
    OBVIOUS
  <2> QED
    BY <1>1, <1>2, <1>5, <1>6, <2>1, <2>2 DEF ServerWorkers
<1>8. CreatedOffProven'
  BY <1>1 DEF CreatedOffProven, OtherRows
<1> QED
  BY <1>4, <1>7, <1>8 DEF Servers

LEMMA ServerStepServers ==
  ASSUME Inv, NEW w \in Workers, TypeOK',
         \/ MarkServer(w) \/ PostServer(w) \/ FindServer(w) \/ RecordAmbiguous(w)
         \/ RecordCreation(w) \/ Observe(w) \/ RecordProgress(w) \/ RecordCreatedOff(w)
  PROVE  Servers'
<1> DEFINE o == worker[w].o
           id == worker[w].id
<1>1. /\ TypeOK /\ Servers /\ ServerRows /\ ServerWorkers /\ CreatedOffProven
      /\ o \in Orders /\ worker[w].pc # "idle"
  BY BusyTyped DEF Inv, Servers, At, MarkServer, PostServer, FindServer, RecordAmbiguous,
     RecordCreation, Observe, RecordProgress, RecordCreatedOff
<1>2. \A v \in Workers : worker[v].pc \in BehindMarker => worker[v].o \in Orders
  BY <1>1, BusyTyped DEF BehindMarker
<1>3. CASE MarkServer(w)
  <2>1. UNCHANGED <<prov, sent>> /\ Others(w) /\ OtherRows(o)
    BY <1>1, <1>3, MarkServerEffect
  <2>2. id = 0
    BY <1>1, <1>3 DEF MarkServer, At, ServerWorkers, BehindMarker
  <2>3. CASE /\ row'[o] = row[o] /\ worker'[w].pc \in {"idle", "reject"}
             /\ worker'[w].pc = "reject" => WorkerBecomes(w, "reject")
    BY <1>1, <2>1, <2>2, <2>3, ServersQuiet DEF Others, OtherRows, BehindMarker, WorkerBecomes
  <2>4. CASE /\ CanMarkServer(o) /\ WorkerBecomes(w, "postServer")
             /\ RowBecomes(o, row[o].status, row[o].key, "pending", row[o].id)
    <3>1. row[o].srv = "none" /\ row[o].key = "accepted" /\ row[o].status = "creating"
      BY <2>4 DEF CanMarkServer
    <3>2. /\ prov[o].servers = 0 /\ "server" \notin sent[o] /\ row[o].id = 0
          /\ \A v \in Workers : worker[v].pc \in BehindMarker => worker[v].o # o
      BY <1>1, <3>1 DEF ServerRows, ServerWorkers
    <3>3. /\ row'[o].srv = "pending" /\ row'[o].key = "accepted" /\ row'[o].status = "creating"
          /\ row'[o].id = 0
          /\ worker'[w].pc = "postServer" /\ worker'[w].o = o /\ worker'[w].id = 0
      BY <2>2, <2>4, <3>1, <3>2 DEF RowBecomes, WorkerBecomes
    <3>4. ServerRows'
      BY <1>1, <2>1, <3>2, <3>3 DEF ServerRows, OtherRows
    <3>5. \A v \in Workers : v # w => worker'[v] = worker[v]
      BY <2>1 DEF Others
    <3>6. "postServer" \in BehindMarker
      BY DEF BehindMarker
    <3>7. ServerWorkers'
      BY <1>1, <1>2, <2>1, <3>2, <3>3, <3>5, <3>6 DEF ServerWorkers, OtherRows
    <3>8. CreatedOffProven'
      BY <1>1, <2>1, <3>3 DEF CreatedOffProven, OtherRows
    <3> QED
      BY <3>4, <3>7, <3>8 DEF Servers
  <2> QED
    BY <1>1, <1>3, <2>3, <2>4, MarkServerEffect
<1>4. CASE PostServer(w)
  <2>1. UNCHANGED row /\ Others(w)
    BY <1>1, <1>4, PostServerEffect
  <2>2. /\ worker[w].pc = "postServer" /\ row[o].srv # "none" /\ id = 0
        /\ prov[o].servers = 0 /\ "server" \notin sent[o]
        /\ \A v \in Workers : v # w /\ worker[v].pc = "postServer" => worker[v].o # o
    BY <1>1, <1>4 DEF PostServer, At, ServerWorkers, BehindMarker
  <2>3. \A v \in Workers : v # w => worker'[v] = worker[v]
    BY <2>1 DEF Others
  <2>4. /\ "postServer" \in BehindMarker /\ "findServer" \in BehindMarker
        /\ "progress" \in BehindMarker
    BY DEF BehindMarker
  <2>5. row[o].id = 0 /\ row[o].status # "created_off"
    BY <1>1, <2>2 DEF ServerRows, CreatedOffProven
  <2>6. CASE /\ prov' = MakeServer(o) /\ sent' = sent
             /\ worker'[w].pc = "progress" /\ worker'[w].o = o /\ worker'[w].id = prov'[o].servers
    <3>1. /\ \A p \in Orders : p # o => prov'[p] = prov[p]
          /\ prov'[o].servers = 1
      BY <1>1, <2>2, <2>6, MakeEffect
    <3>2. ServerRows'
      BY <1>1, <2>1, <2>2, <2>6, <3>1 DEF ServerRows
    <3>3. \A v \in Workers : v # w /\ worker[v].pc \in {"saw", "result"} => worker[v].o # o
      BY <1>1, <2>2 DEF ServerWorkers, BehindMarker
    <3>4. ServerWorkers'
      BY <1>1, <1>2, <2>1, <2>2, <2>3, <2>4, <2>6, <3>1, <3>3 DEF ServerWorkers, ServerRows
    <3>5. CreatedOffProven'
      BY <1>1, <2>1, <2>5, <3>1 DEF CreatedOffProven
    <3> QED
      BY <3>2, <3>4, <3>5 DEF Servers
  <2>7. CASE /\ prov' = prov
             /\ sent' = sent \/ sent' = [sent EXCEPT ![o] = @ \cup {"server"}]
             /\ WorkerBecomes(w, "findServer")
    <3>1. \A p \in Orders : p # o => sent'[p] = sent[p]
      BY <1>1, <2>7 DEF TypeOK
    <3>2. worker'[w].pc = "findServer" /\ worker'[w].o = o /\ worker'[w].id = 0
      BY <2>2, <2>7 DEF WorkerBecomes
    <3>3. ServerRows'
      BY <1>1, <2>1, <2>2, <2>7, <3>1 DEF ServerRows
    <3>4. ServerWorkers'
      BY <1>1, <1>2, <2>1, <2>2, <2>3, <2>4, <2>7, <3>1, <3>2 DEF ServerWorkers
    <3>5. CreatedOffProven'
      BY <1>1, <2>1, <2>7 DEF CreatedOffProven
    <3> QED
      BY <3>3, <3>4, <3>5 DEF Servers
  <2> QED
    BY <1>1, <1>4, <2>6, <2>7, PostServerEffect
<1>5. CASE FindServer(w)
  <2>1. worker[w].pc \in BehindMarker
    BY <1>5 DEF FindServer, At, BehindMarker
  <2>2. id # 0 => id = 1 /\ prov[o].servers = 1
    BY <1>1, <2>1 DEF ServerWorkers
  <2>3. Visible(o) => prov[o].servers = 1
    BY <1>1 DEF Visible, ServerRows
  <2>4. row[o].srv # "none"
    BY <1>1, <2>1 DEF ServerWorkers
  <2>5. /\ UNCHANGED <<row, prov, sent>> /\ Others(w)
        /\ worker'[w].pc = "ambiguous" /\ worker'[w].o = o
        /\ worker'[w].id # 0 => worker'[w].id = 1 /\ prov[o].servers = 1
    BY <1>1, <1>5, <2>2, <2>3, FindServerEffect
  <2> QED
    BY <1>1, <2>1, <2>4, <2>5, ServersMove DEF OtherRows, CreatedOffProven
<1>6. CASE RecordAmbiguous(w)
  <2>1. worker[w].pc \in BehindMarker
    BY <1>6 DEF RecordAmbiguous, At, BehindMarker
  <2>2. row[o].srv # "none" /\ (id # 0 => id = 1 /\ prov[o].servers = 1)
    BY <1>1, <2>1 DEF ServerWorkers
  <2>3. /\ UNCHANGED <<prov, sent>> /\ Others(w) /\ OtherRows(o) /\ worker'[w].pc = "idle"
        /\ row'[o].srv # "none" /\ row'[o].key = row[o].key
        /\ row'[o] = row[o] \/ row'[o].status = "ambiguous"
        /\ row'[o].id = row[o].id \/ (row'[o].id = 1 /\ prov[o].servers = 1)
    BY <1>1, <1>6, <2>2, RecordAmbiguousEffect
  <2> QED
    BY <1>1, <2>1, <2>3, ServersMove DEF CreatedOffProven
<1>7. CASE RecordCreation(w)
  <2>1. worker[w].pc \in BehindMarker /\ worker[w].pc = "progress"
    BY <1>7 DEF RecordCreation, At, BehindMarker
  <2>2. row[o].srv # "none" /\ id = 1 /\ prov[o].servers = 1
    BY <1>1, <2>1 DEF ServerWorkers
  <2>3. UNCHANGED <<prov, sent>> /\ Others(w) /\ OtherRows(o)
    BY <1>1, <1>7, RecordCreationEffect
  <2>4. CASE row'[o] = row[o] /\ worker'[w].pc = "idle"
    BY <1>1, <2>1, <2>2, <2>3, <2>4, ServersMove DEF CreatedOffProven
  <2>5. CASE /\ Open(o) /\ WorkerBecomes(w, "observe")
             /\ RowBecomes(o, row[o].status, row[o].key, "accepted", id)
    <3>1. /\ row'[o].srv = "accepted" /\ row'[o].key = row[o].key /\ row'[o].id = 1
          /\ row'[o].status = row[o].status /\ row[o].status # "created_off"
          /\ worker'[w].pc = "observe" /\ worker'[w].o = o /\ worker'[w].id = 1
      BY <2>2, <2>5 DEF RowBecomes, WorkerBecomes, Open
    <3> QED
      BY <1>1, <2>1, <2>2, <2>3, <3>1, ServersMove
  <2> QED
    BY <1>1, <1>7, <2>4, <2>5, RecordCreationEffect
<1>8. CASE Observe(w)
  <2>1. worker[w].pc \in BehindMarker /\ worker[w].pc = "observe"
    BY <1>8 DEF Observe, At, BehindMarker
  <2>2. row[o].srv # "none" /\ row[o].id # 0
    BY <1>1, <2>1 DEF ServerWorkers
  <2>3. row[o].id = 1 /\ prov[o].servers = 1
    BY <1>1, <2>2 DEF ServerRows
  <2> QED
    BY <1>1, <1>8, <2>1, <2>2, <2>3, ObserveEffect, ServersMove DEF OtherRows, CreatedOffProven
<1>9. CASE RecordProgress(w)
  <2> DEFINE pc == AfterProgress(worker[w].action, worker[w].seen)
  <2>1. worker[w].pc \in BehindMarker /\ worker[w].pc = "saw"
    BY <1>9 DEF RecordProgress, At, BehindMarker
  <2>2. /\ row[o].srv # "none" /\ id = 1 /\ prov[o].servers = 1
        /\ worker[w].action = "success" => prov[o].action = "success"
    BY <1>1, <2>1 DEF ServerWorkers
  <2>3. UNCHANGED <<prov, sent>> /\ Others(w) /\ OtherRows(o)
    BY <1>1, <1>9, RecordProgressEffect
  <2>4. CASE row'[o] = row[o] /\ worker'[w].pc = "idle"
    BY <1>1, <2>1, <2>2, <2>3, <2>4, ServersMove DEF CreatedOffProven
  <2>5. CASE /\ Open(o) /\ worker'[w].pc = pc
             /\ worker'[w].pc # "idle" => WorkerBecomes(w, worker'[w].pc)
             /\ RowBecomes(o, row[o].status, row[o].key, "accepted", id)
    <3>1. /\ pc \in {"idle", "ambiguous", "result"}
          /\ pc = "result" => worker[w].action = "success"
      BY DEF AfterProgress
    <3>2. /\ row'[o].srv = "accepted" /\ row'[o].key = row[o].key /\ row'[o].id = 1
          /\ row'[o].status = row[o].status /\ row[o].status # "created_off"
      BY <2>2, <2>5 DEF RowBecomes, Open
    <3>3. worker'[w].pc # "idle" =>
             worker'[w].o = o /\ worker'[w].id = 1 /\ worker'[w].action = worker[w].action
      BY <2>2, <2>5 DEF WorkerBecomes
    <3> QED
      BY <1>1, <2>1, <2>2, <2>3, <2>5, <3>1, <3>2, <3>3, ServersMove
  <2> QED
    BY <1>1, <1>9, <2>4, <2>5, RecordProgressEffect
<1>10. CASE RecordCreatedOff(w)
  <2>1. worker[w].pc \in BehindMarker /\ worker[w].pc = "result"
    BY <1>10 DEF RecordCreatedOff, At, BehindMarker
  <2>2. row[o].srv # "none" /\ id = 1 /\ prov[o].servers = 1 /\ prov[o].action = "success"
    BY <1>1, <2>1 DEF ServerWorkers
  <2> QED
    BY <1>1, <1>10, <2>1, <2>2, RecordCreatedOffEffect, ServersMove
       DEF RowBecomes, CreatedOffProven
<1> QED
  BY <1>3, <1>4, <1>5, <1>6, <1>7, <1>8, <1>9, <1>10

LEMMA OtherStepServers ==
  ASSUME Inv, Next, TypeOK', \A w \in Workers : ~WorkerStep(w)
  PROVE  Servers'
<1>1. TypeOK /\ Servers /\ ServerRows /\ ServerWorkers /\ CreatedOffProven
  BY DEF Inv, Servers
<1>2. \A v \in Workers : worker[v].pc \in BehindMarker => worker[v].o \in Orders
  BY <1>1, BusyTyped DEF BehindMarker
<1>3. ASSUME NEW w \in Workers, NEW o \in Orders, ClaimQuote(w, o)
      PROVE  Servers'
  <2>1. row[o].srv = "none" /\ "fresh" \notin BehindMarker
    BY <1>1, <1>3 DEF ClaimQuote, ServerRows, BehindMarker
  <2> QED
    BY <1>1, <1>3, <2>1, ClaimQuoteEffect, ServersQuiet DEF Others, OtherRows, RowBecomes
<1>4. ASSUME NEW w \in Workers, NEW o \in Orders, Replay(w, o)
      PROVE  Servers'
  <2>1. UNCHANGED <<row, prov, sent>> /\ Others(w)
    BY <1>1, <1>4, ReplayEffect
  <2>2. worker'[w].pc = ReplayAt(o) /\ worker'[w].o = o /\ worker'[w].id = 0
    BY <1>1, <1>4, ReplayEffect
  <2>3. \/ ReplayAt(o) \in {"findKey", "fresh"}
        \/ ReplayAt(o) = "findServer" /\ row[o].srv # "none"
        \/ ReplayAt(o) = "observe" /\ row[o].srv # "none" /\ row[o].id # 0
    BY DEF ReplayAt
  <2>4. ServerRows' /\ CreatedOffProven'
    BY <1>1, <2>1 DEF ServerRows, CreatedOffProven
  <2>5. \A v \in Workers : v # w => worker'[v] = worker[v]
    BY <2>1 DEF Others
  <2>6. ServerWorkers'
    BY <1>1, <1>2, <2>1, <2>2, <2>3, <2>5 DEF ServerWorkers, BehindMarker
  <2> QED
    BY <2>4, <2>6 DEF Servers
<1>5. ASSUME NEW w \in Workers, WorkerEnds(w)
      PROVE  Servers'
  BY <1>1, <1>5, WorkerEndsEffect, ServersQuiet DEF Others
<1>6. ASSUME NEW o \in Orders, PostLands(o)
      PROVE  Servers'
  <2>1. UNCHANGED <<row, worker>>
    BY <1>1, <1>6, PostLandsEffect
  <2>2. CASE "server" \in sent[o] /\ prov' = MakeServer(o) /\ sent' = [sent EXCEPT ![o] = @ \ {"server"}]
    <3>1. /\ \A p \in Orders : p # o => prov'[p] = prov[p] /\ sent'[p] = sent[p]
          /\ prov[o].servers = 0 /\ prov'[o].servers = 1 /\ "server" \notin sent'[o]
          /\ row[o].srv # "none"
      BY <1>1, <2>2, MakeEffect DEF TypeOK, ServerRows
    <3>2. row[o].id = 0 /\ row[o].status # "created_off"
      BY <1>1, <3>1 DEF ServerRows, CreatedOffProven
    <3>3. ServerRows'
      BY <1>1, <2>1, <2>2, <3>1 DEF ServerRows
    <3>4. \A v \in Workers : worker[v].pc \in {"saw", "result"} => worker[v].o # o
      BY <1>1, <3>1 DEF ServerWorkers, BehindMarker
    <3>5. \A v \in Workers : worker[v].pc = "postServer" => worker[v].o # o
      BY <1>1, <2>2 DEF ServerWorkers
    <3>6. "postServer" \in BehindMarker
      BY DEF BehindMarker
    <3>7. ServerWorkers'
      BY <1>1, <1>2, <2>1, <2>2, <3>1, <3>4, <3>5, <3>6 DEF ServerWorkers
    <3>8. CreatedOffProven'
      BY <1>1, <2>1, <3>1, <3>2 DEF CreatedOffProven
    <3> QED
      BY <3>3, <3>7, <3>8 DEF Servers
  <2>3. CASE prov' = MakeKey(o) /\ sent' = [sent EXCEPT ![o] = @ \ {"key"}]
    <3>1. \A p \in Orders : /\ prov'[p].servers = prov[p].servers /\ prov'[p].server = prov[p].server
                            /\ prov'[p].action = prov[p].action
                            /\ "server" \in sent'[p] <=> "server" \in sent[p]
      BY <1>1, <2>3, MakeEffect DEF TypeOK
    <3> QED
      BY <1>1, <2>1, <3>1, ServersQuiet
  <2> QED
    BY <1>1, <1>6, <2>2, <2>3, PostLandsEffect
<1>7. ASSUME NEW o \in Orders, Console(o)
      PROVE  Servers'
  BY <1>1, <1>7, ConsoleEffect, ServersQuiet DEF OtherHoldings, Visible
<1>8. CASE \/ \E o \in Orders : MarkerAges(o) \/ QuoteExpires(o)
           \/ ConnectionFails \/ ConnectionRecovers
  BY <1>1, <1>8, QuietEffect, ServersQuiet
<1>9. CASE (\E o \in Orders : ReadScope(o)) \/ VerifyAbsent
  BY <1>1, <1>9, ResolverEffect, ServersQuiet
<1>10. CASE Resolve
  BY <1>1, <1>10, ResolveEffect, ServersQuiet DEF OtherRows
<1>11. CASE DeleteConnection \/ ForceForget
  <2>1. \A o \in Orders : Worthless(o) => row[o].srv = "none"
    BY <1>1 DEF Worthless, ServerRows
  <2> QED
    BY <1>1, <1>11, <2>1, DetachEffect, ServersQuiet
<1> QED
  BY <1>3, <1>4, <1>5, <1>6, <1>7, <1>8, <1>9, <1>10, <1>11 DEF Next, OutsideStep, Console

LEMMA StepServers ==
  ASSUME Inv, [Next]_vars
  PROVE  Servers'
<1>1. TypeOK /\ Servers /\ TypeOK'
  BY StepKeys DEF Inv
<1>2. ASSUME NEW w \in Workers, WorkerStep(w)
      PROVE  Servers'
  BY <1>1, <1>2, EarlyStepServers, ServerStepServers DEF WorkerStep
<1>3. CASE UNCHANGED vars
  BY <1>1, <1>3, ServersQuiet DEF vars
<1> QED
  BY <1>1, <1>2, <1>3, OtherStepServers

-----------------------------------------------------------------------------
(* Resolution and the slot.                                                *)

(* A used POST never happens again, so what was removed stays removed.     *)
LEMMA HoldingsGrow ==
  ASSUME Inv, [Next]_vars
  PROVE  \A o \in Orders :
            /\ prov[o].servers = 1 => prov'[o].servers = 1 /\ (~Visible(o) => ~Visible(o)')
            /\ prov[o].keys = 1 =>
                  prov'[o].keys = 1 /\ (prov[o].key # "here" => prov'[o].key # "here")
<1>1. TypeOK /\ KeyRows /\ KeyWorkers /\ ServerRows /\ ServerWorkers
  BY DEF Inv, Keys, Servers
<1>2. CASE UNCHANGED prov
  BY <1>2 DEF Visible
<1> DEFINE Grows == \A o \in Orders :
              /\ prov[o].servers = 1 => prov'[o].servers = 1 /\ (~Visible(o) => ~Visible(o)')
              /\ prov[o].keys = 1 =>
                    prov'[o].keys = 1 /\ (prov[o].key # "here" => prov'[o].key # "here")
<1>3. ASSUME NEW p \in Orders, prov[p].keys = 0, prov' = MakeKey(p)
      PROVE  Grows
  BY <1>1, <1>3, MakeEffect DEF Visible
<1>4. ASSUME NEW p \in Orders, prov[p].servers = 0, prov' = MakeServer(p)
      PROVE  Grows
  BY <1>1, <1>4, MakeEffect DEF Visible
<1>5. ASSUME NEW w \in Workers, PostKey(w)
      PROVE  Grows
  <2>1. worker[w].o \in Orders /\ prov[worker[w].o].keys = 0
    BY <1>1, <1>5, BusyTyped DEF PostKey, At, KeyWorkers
  <2> QED
    BY <1>1, <1>2, <1>3, <1>5, <2>1, PostKeyEffect
<1>6. ASSUME NEW w \in Workers, PostServer(w)
      PROVE  Grows
  <2>1. worker[w].o \in Orders /\ prov[worker[w].o].servers = 0
    BY <1>1, <1>6, BusyTyped DEF PostServer, At, ServerWorkers
  <2> QED
    BY <1>1, <1>2, <1>4, <1>6, <2>1, PostServerEffect
<1>7. ASSUME NEW p \in Orders, PostLands(p)
      PROVE  Grows
  <2>1. /\ "key" \in sent[p] => prov[p].keys = 0
        /\ "server" \in sent[p] => prov[p].servers = 0
    BY <1>1 DEF KeyRows, ServerRows
  <2> QED
    BY <1>1, <1>3, <1>4, <1>7, <2>1, PostLandsEffect
<1>8. ASSUME NEW p \in Orders, Console(p)
      PROVE  Grows
  BY <1>1, <1>8, ConsoleEffect DEF OtherHoldings, Visible
<1>9. ASSUME NEW w \in Workers, WorkerStep(w), ~PostKey(w), ~PostServer(w)
      PROVE  UNCHANGED prov
  BY <1>9 DEF WorkerStep, FreshQuote, RecordRejected, MarkKey, FindKey, RecordKey,
     CheckBeforeServer, MarkServer, FindServer, RecordAmbiguous, RecordCreation, Observe,
     RecordProgress, RecordCreatedOff, provider
<1>10. CASE \/ \E w \in Workers : WorkerEnds(w) \/ \E o \in Orders : ClaimQuote(w, o) \/ Replay(w, o)
            \/ \E o \in Orders : ReadScope(o) \/ MarkerAges(o) \/ QuoteExpires(o)
            \/ VerifyAbsent \/ Resolve \/ ConnectionFails \/ ConnectionRecovers
            \/ DeleteConnection \/ ForceForget \/ UNCHANGED vars
  <2>1. UNCHANGED prov
    BY <1>10 DEF WorkerEnds, ClaimQuote, Replay, ReadScope, MarkerAges, QuoteExpires, VerifyAbsent,
       Resolve, ConnectionFails, ConnectionRecovers, DeleteConnection, ForceForget, Detach, provider,
       vars
  <2> QED
    BY <1>2, <2>1
<1> QED
  BY <1>2, <1>5, <1>6, <1>7, <1>8, <1>9, <1>10 DEF Next, OutsideStep, Console

(* How a step moves the columns that decide about the slot.                *)
LEMMA WorkerStepRows ==
  ASSUME Inv, NEW w \in Workers, WorkerStep(w)
  PROVE  /\ UNCHANGED resolver
         /\ \A p \in Orders :
               /\ row'[p].resolved = row[p].resolved
               /\ row[p].key = "accepted" => row'[p].key = "accepted"
               /\ row[p].srv # "none" => row'[p].srv # "none"
               /\ HoldsSlot(p)' => HoldsSlot(p)
<1> DEFINE Goal == \A p \in Orders :
              /\ row'[p].resolved = row[p].resolved
              /\ row[p].key = "accepted" => row'[p].key = "accepted"
              /\ row[p].srv # "none" => row'[p].srv # "none"
              /\ HoldsSlot(p)' => HoldsSlot(p)
<1>1. TypeOK /\ ServerRows /\ ResolvedRows /\ worker[w].o \in Orders
  BY BusyTyped DEF Inv, Servers, WorkerStep, At, FreshQuote, RecordRejected, MarkKey, PostKey, FindKey,
     RecordKey, CheckBeforeServer, MarkServer, PostServer, FindServer, RecordAmbiguous,
     RecordCreation, Observe, RecordProgress, RecordCreatedOff
<1> SUFFICES Goal
  BY DEF WorkerStep, FreshQuote, RecordRejected, MarkKey, PostKey, FindKey, RecordKey,
     CheckBeforeServer, MarkServer, PostServer, FindServer, RecordAmbiguous, RecordCreation, Observe,
     RecordProgress, RecordCreatedOff
<1>2. PICK o \in Orders : o = worker[w].o
  BY <1>1
<1>3. CASE UNCHANGED row
  BY <1>3 DEF HoldsSlot
<1>4. CASE \/ FreshQuote(w) \/ CheckBeforeServer(w) \/ PostKey(w) \/ FindKey(w) \/ PostServer(w)
           \/ FindServer(w) \/ Observe(w)
  BY <1>3, <1>4 DEF FreshQuote, CheckBeforeServer, PostKey, FindKey, PostServer, FindServer, Observe
<1>5. ASSUME OtherRows(o), row'[o] = row[o]
      PROVE  Goal
  BY <1>5 DEF OtherRows, HoldsSlot
<1>6. ASSUME OtherRows(o), row'[o].resolved = row[o].resolved,
             row[o].key = "accepted" => row'[o].key = "accepted",
             row[o].srv # "none" => row'[o].srv # "none",
             HoldsSlot(o) \/ ~HoldsSlot(o)'
      PROVE  Goal
  BY <1>6 DEF OtherRows, HoldsSlot
<1>7. Open(o) => HoldsSlot(o)
  BY DEF Open, HoldsSlot
<1>8. CASE RecordRejected(w)
  <2>1. CanReject(o) /\ row[o].key = "accepted" => HoldsSlot(o) \/ row[o].resolved
    BY DEF CanReject, HoldsSlot
  <2> QED
    BY <1>1, <1>2, <1>5, <1>6, <1>8, <2>1, RecordRejectedEffect DEF RowBecomes, HoldsSlot
<1>9. CASE MarkKey(w)
  <2>1. CanMarkKey(o) => row[o].status = "creating" /\ row[o].key # "accepted"
    BY DEF CanMarkKey
  <2> QED
    BY <1>1, <1>2, <1>5, <1>6, <1>9, <2>1, MarkKeyEffect DEF RowBecomes, HoldsSlot
<1>10. CASE RecordKey(w)
  <2>1. CanRecordKey(o, worker[w].say) =>
           /\ row[o].status \in {"creating", "ambiguous"} /\ row[o].key # "accepted"
           /\ ~row[o].resolved
    BY <1>1 DEF CanRecordKey, ResolvedRows
  <2> QED
    BY <1>1, <1>2, <1>5, <1>6, <1>10, <2>1, RecordKeyEffect DEF RowBecomes, HoldsSlot
<1>11. CASE MarkServer(w)
  BY <1>1, <1>2, <1>5, <1>6, <1>11, MarkServerEffect DEF RowBecomes, HoldsSlot
<1>12. CASE RecordAmbiguous(w)
  BY <1>1, <1>2, <1>5, <1>6, <1>7, <1>12, RecordAmbiguousEffect
<1>13. CASE RecordCreation(w)
  BY <1>1, <1>2, <1>5, <1>6, <1>7, <1>13, RecordCreationEffect DEF RowBecomes
<1>14. CASE RecordProgress(w)
  BY <1>1, <1>2, <1>5, <1>6, <1>7, <1>14, RecordProgressEffect DEF RowBecomes
<1>15. CASE RecordCreatedOff(w)
  BY <1>1, <1>2, <1>5, <1>6, <1>7, <1>15, RecordCreatedOffEffect DEF RowBecomes
<1> QED
  BY <1>4, <1>8, <1>9, <1>10, <1>11, <1>12, <1>13, <1>14, <1>15 DEF WorkerStep

LEMMA StepSlot ==
  ASSUME Inv, [Next]_vars
  PROVE  OneSlot'
<1>1. TypeOK /\ OneSlot
  BY DEF Inv
<1>2. ASSUME \A o \in Orders : HoldsSlot(o)' => HoldsSlot(o)
      PROVE  OneSlot'
  BY <1>1, <1>2 DEF OneSlot
<1>3. ASSUME NEW w \in Workers, WorkerStep(w)
      PROVE  OneSlot'
  BY <1>2, <1>3, WorkerStepRows
<1>4. ASSUME NEW w \in Workers, NEW o \in Orders, ClaimQuote(w, o)
      PROVE  OneSlot'
  <2>1. OtherRows(o) /\ \A p \in Orders : ~HoldsSlot(p)
    BY <1>1, <1>4, ClaimQuoteEffect
  <2>2. \A p \in Orders : p # o => ~HoldsSlot(p)'
    BY <2>1 DEF OtherRows, HoldsSlot
  <2> QED
    BY <2>2 DEF OneSlot
<1>5. CASE Resolve
  <2>1. /\ resolver.o \in Orders /\ OtherRows(resolver.o)
        /\ row'[resolver.o] = row[resolver.o] \/ row'[resolver.o].resolved
    BY <1>1, <1>5, ResolveEffect
  <2>2. \A o \in Orders : HoldsSlot(o)' => HoldsSlot(o)
    BY <2>1 DEF OtherRows, HoldsSlot
  <2> QED
    BY <1>2, <2>2
<1>6. CASE DeleteConnection \/ ForceForget
  <2>1. \A o \in Orders : HoldsSlot(o)' => HoldsSlot(o)
    BY <1>1, <1>6, DetachEffect DEF HoldsSlot
  <2> QED
    BY <1>2, <2>1
<1>7. CASE UNCHANGED row
  BY <1>2, <1>7 DEF HoldsSlot
<1> QED
  BY <1>3, <1>4, <1>5, <1>6, <1>7 DEF Next, OutsideStep, Replay, WorkerEnds, PostLands, ProviderBuilds,
     OwnerStarts, OwnerStops, OwnerRemoves, MarkerAges, QuoteExpires, ReadScope, VerifyAbsent,
     ConnectionFails, ConnectionRecovers, vars

LEMMA StepResolution ==
  ASSUME Inv, [Next]_vars
  PROVE  ResolverSound' /\ ResolvedRows'
<1>1. TypeOK /\ ResolverSound /\ ResolvedRows /\ KeyRows /\ ServerRows
  BY DEF Inv, Keys, Servers
<1>2. \A o \in Orders :
         /\ prov[o].servers = 1 => prov'[o].servers = 1
         /\ prov[o].keys = 1 => prov'[o].keys = 1
         /\ Gone(o) => Gone(o)'
  BY HoldingsGrow DEF Gone
<1>3. resolver # NoResolver => resolver.o \in Orders
  BY <1>1 DEF TypeOK
<1>4. NoResolver.pc = "idle"
  BY DEF NoResolver
<1>5. CASE /\ UNCHANGED resolver
           /\ \A p \in Orders :
                 /\ row'[p].resolved => row[p].resolved
                 /\ row[p].key = "accepted" => row'[p].key = "accepted"
                 /\ row[p].srv # "none" => row'[p].srv # "none"
  BY <1>1, <1>2, <1>3, <1>5 DEF ResolverSound, ResolvedRows
<1>6. ASSUME NEW w \in Workers, WorkerStep(w)
      PROVE  ResolverSound' /\ ResolvedRows'
  BY <1>5, <1>6, WorkerStepRows
<1>7. ASSUME NEW w \in Workers, NEW o \in Orders, ClaimQuote(w, o)
      PROVE  ResolverSound' /\ ResolvedRows'
  BY <1>1, <1>5, <1>7, ClaimQuoteEffect DEF OtherRows, RowBecomes
<1>8. ASSUME NEW o \in Orders, ReadScope(o)
      PROVE  ResolverSound' /\ ResolvedRows'
  <2>1. /\ resolver'.pc = "verify" /\ resolver'.o = o
        /\ UNCHANGED <<row, prov>> /\ Resolvable(o)
    BY <1>8 DEF ReadScope, provider
  <2>2. prov[o].servers = 1 /\ prov[o].keys = 1
    BY <1>1, <2>1 DEF Resolvable, KeyRows, ServerRows
  <2> QED
    BY <1>1, <1>2, <2>1, <2>2 DEF ResolverSound, ResolvedRows
<1>9. CASE VerifyAbsent
  <2>1. resolver # NoResolver /\ UNCHANGED <<row, prov>>
    BY <1>4, <1>9 DEF VerifyAbsent, provider
  <2>2. resolver \in [pc : {"verify", "resolve"}, o : Orders, snap : Row]
    BY <1>1, <2>1 DEF TypeOK
  <2>3. \/ resolver' = NoResolver
        \/ /\ resolver'.o = resolver.o
           /\ prov[resolver.o].key # "here" /\ ~Visible(resolver.o)
    BY <1>3, <1>9, <2>1, <2>2 DEF VerifyAbsent
  <2> QED
    BY <1>1, <1>2, <1>3, <2>1, <2>3 DEF ResolverSound, ResolvedRows, Gone
<1>10. CASE Resolve
  <2>1. /\ resolver' = NoResolver /\ UNCHANGED prov /\ OtherRows(resolver.o)
        /\ resolver.o \in Orders
    BY <1>1, <1>10, ResolveEffect
  <2>2. Gone(resolver.o)
    BY <1>1, <1>4, <1>10 DEF Resolve, ResolverSound
  <2>3. \/ row'[resolver.o] = row[resolver.o]
        \/ row'[resolver.o].key = "accepted" /\ row'[resolver.o].srv = "accepted"
    BY <1>1, <1>10, ResolveEffect DEF Resolvable
  <2> QED
    BY <1>1, <1>2, <2>1, <2>2, <2>3 DEF ResolverSound, ResolvedRows, OtherRows
<1>11. CASE DeleteConnection \/ ForceForget
  BY <1>1, <1>5, <1>11, DetachEffect
<1>12. CASE UNCHANGED <<row, resolver>>
  BY <1>5, <1>12
<1> QED
  BY <1>6, <1>7, <1>8, <1>9, <1>10, <1>11, <1>12 DEF Next, OutsideStep, Replay, WorkerEnds, PostLands,
     ProviderBuilds, OwnerStarts, OwnerStops, OwnerRemoves, MarkerAges, QuoteExpires, ConnectionFails,
     ConnectionRecovers, vars

-----------------------------------------------------------------------------
LEMMA Invariance == Spec => []Inv
<1>1. Inv /\ [Next]_vars => Inv'
  BY StepKeys, StepServers, StepSlot, StepResolution DEF Inv
<1> QED
  BY <1>1, InitInv, PTL DEF Spec

(* infrastructure_capacity_orders, the project's holdings and the requests *)
(* keep their shapes.                                                      *)
THEOREM OrdersTyped == Spec => []TypeOK
<1>1. Inv => TypeOK
  BY DEF Inv
<1> QED
  BY <1>1, Invariance, PTL

(* However many requests replay an order, with whatever loss and delay, it *)
(* makes at most one key and one server.                                   *)
THEOREM PostsOnce == Spec => []PostedOnce
<1>1. Inv => PostedOnce
  BY DEF Inv, Keys, Servers, KeyRows, ServerRows, PostedOnce
<1> QED
  BY <1>1, Invariance, PTL

(* Every server that exists or may appear is behind the one order that     *)
(* holds the owner's slot.                                                 *)
THEOREM ServersAccounted == Spec => []ServerAccounted
<1>1. Inv => ServerAccounted
  <2> SUFFICES ASSUME Inv PROVE ServerAccounted
    OBVIOUS
  <2>1. TypeOK /\ ServerRows /\ ResolvedRows /\ OneSlot
    BY DEF Inv, Servers
  <2>2. \A o \in Orders : MayCost(o) => row[o].srv # "none" /\ ~row[o].resolved
    BY <2>1 DEF MayCost, Visible, ServerRows, ResolvedRows, Gone
  <2>3. \A o \in Orders : MayCost(o) => HoldsSlot(o) /\ row[o].status # "provider_rejected"
    BY <2>1, <2>2 DEF HoldsSlot, ServerRows
  <2> QED
    BY <2>1, <2>3 DEF OneSlot, ServerAccounted
<1> QED
  BY <1>1, Invariance, PTL

(* created_off is recorded only of the order's own server and only after   *)
(* its creation succeeded at the provider.                                 *)
THEOREM CreationProven == Spec => []CreatedOffProven
<1>1. Inv => CreatedOffProven
  BY DEF Inv, Servers
<1> QED
  BY <1>1, Invariance, PTL

(* An order resolved by hand has nothing left and nothing on its way.      *)
THEOREM ResolvedClean == Spec => []ResolvedGone
<1>1. Inv => ResolvedGone
  <2> SUFFICES ASSUME Inv, NEW o \in Orders, row[o].resolved
               PROVE  ~MayCost(o) /\ prov[o].key # "here" /\ sent[o] = {}
    BY DEF ResolvedGone
  <2>1. TypeOK /\ KeyRows /\ ServerRows /\ Gone(o)
    BY DEF Inv, Keys, Servers, ResolvedRows
  <2>2. "key" \notin sent[o] /\ "server" \notin sent[o]
    BY <2>1 DEF Gone, KeyRows, ServerRows
  <2>3. sent[o] \subseteq {"key", "server"}
    BY <2>1 DEF TypeOK
  <2> QED
    BY <2>1, <2>2, <2>3 DEF Gone, MayCost
<1> QED
  BY <1>1, Invariance, PTL
=============================================================================
