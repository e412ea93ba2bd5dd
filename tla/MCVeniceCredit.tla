---------------------------- MODULE MCVeniceCredit ----------------------------
(* Instances of VeniceCredit for TLC.                                        *)
EXTENDS VeniceCredit, TLC

CONSTANTS r1, r2, c1, c2, s1, x1

(* One request through the Worker, one through the Responses route.          *)
TwoRoutes == r1 :> "edge" @@ r2 :> "responses"
===============================================================================
