--------------------------- MODULE OrderLifecycle ---------------------------
(***************************************************************************)
(* What the OMS promises about ONE order, whoever works on it and however  *)
(* often transactions fail: it moves along the documented workflow, its    *)
(* fills only grow and never exceed its quantity, and a terminal order is  *)
(* never touched again.  A step is what one transaction makes visible: a   *)
(* route that fills at once goes from STAGED to FILLED.                    *)
(***************************************************************************)
EXTENDS Naturals

CONSTANT Quantity   \* the order's quantity

VARIABLES
  status,   \* lifecycle state, "none" before the order exists
  filled    \* quantity filled

LifecycleInit == status = "none" /\ filled = 0

\* Entry: accepted, rejected by compliance, or booked in full at once (RFQ).
Enter ==
  /\ status = "none"
  /\ \/ status' \in {"NEW", "REJECTED"} /\ filled' = filled
     \/ status' = "FILLED" /\ filled' = Quantity

\* The trader releases, routes or cancels; nothing fills.
Stage  == status = "NEW" /\ status' = "STAGED" /\ filled' = filled
Route  == status = "STAGED" /\ status' = "ROUTED" /\ filled' = filled
Cancel == /\ status \in {"NEW", "STAGED", "ROUTED", "PARTIALLY_FILLED"}
          /\ status' = "CANCELLED"
          /\ filled' = filled

\* A transaction fills part of what remains; only once does it leave a remainder.
Fill ==
  /\ status \in {"STAGED", "ROUTED", "PARTIALLY_FILLED"}
  /\ filled < filled' /\ filled' <= Quantity
  /\ \/ filled' = Quantity /\ status' = "FILLED"
     \/ filled' < Quantity /\ status # "PARTIALLY_FILLED" /\ status' = "PARTIALLY_FILLED"

LifecycleNext == Enter \/ Stage \/ Route \/ Cancel \/ Fill

LifecycleSpec == LifecycleInit /\ [][LifecycleNext]_<<status, filled>>
=============================================================================
