---------------------------- MODULE CreditLedger ----------------------------
(***************************************************************************)
(* What the managed Venice wallet promises its owner, with no processes,   *)
(* no retries and no sweep: a request holds money at most once, its hold   *)
(* is settled at most once, and money leaves the wallet in the very step   *)
(* that settles a hold, or in one single later step for the part of the    *)
(* cost past a fully captured hold.  VeniceCredit implements it.           *)
(***************************************************************************)
EXTENDS Integers

CONSTANTS
    Requests,   \* references of model requests, each used once
    Reserved,   \* what one hold reserves
    Sessions,   \* Stripe checkout sessions that top the wallet up
    TopUp,      \* what one session credits
    Opening     \* the balance before the first request

VARIABLES
    funds,      \* the wallet's balance
    hold,       \* Requests -> status and captured amount of the hold row
    overage,    \* Requests -> what was debited past the hold
    credited    \* sessions already credited

ledgerVars == <<funds, hold, overage, credited>>

HoldStatus == {"none", "active", "captured", "released"}

Init ==
    /\ funds = Opening
    /\ hold = [r \in Requests |-> [status |-> "none", captured |-> 0]]
    /\ overage = [r \in Requests |-> 0]
    /\ credited = {}

(* A hold is opened on a reference nobody used before, within the funds.   *)
Open(r) ==
    /\ hold[r].status = "none"
    /\ Reserved <= funds
    /\ hold' = [hold EXCEPT ![r].status = "active"]
    /\ UNCHANGED <<funds, overage, credited>>

(* A capture closes the hold and takes its amount in one step.             *)
Capture(r) ==
    /\ hold[r].status = "active"
    /\ \E amount \in 0..Reserved :
          /\ amount <= funds
          /\ hold' = [hold EXCEPT ![r] = [status |-> "captured", captured |-> amount]]
          /\ funds' = funds - amount
    /\ UNCHANGED <<overage, credited>>

Release(r) ==
    /\ hold[r].status = "active"
    /\ hold' = [hold EXCEPT ![r].status = "released"]
    /\ UNCHANGED <<funds, overage, credited>>

(* The rest of a cost larger than its hold: only once the hold has been    *)
(* captured in full, and only once per request.                            *)
DebitOverage(r) ==
    /\ hold[r].status = "captured"
    /\ hold[r].captured = Reserved
    /\ overage[r] = 0
    /\ \E amount \in 1..funds :
          /\ overage' = [overage EXCEPT ![r] = amount]
          /\ funds' = funds - amount
    /\ UNCHANGED <<hold, credited>>

Credit(x) ==
    /\ x \notin credited
    /\ credited' = credited \cup {x}
    /\ funds' = funds + TopUp
    /\ UNCHANGED <<hold, overage>>

Next ==
    \/ \E r \in Requests : Open(r) \/ Capture(r) \/ Release(r) \/ DebitOverage(r)
    \/ \E x \in Sessions : Credit(x)

Spec == Init /\ [][Next]_ledgerVars
=============================================================================
