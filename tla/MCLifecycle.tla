----------------------------- MODULE MCLifecycle -----------------------------
(* Lifecycle with a week of three short days, one of them closed and one       *)
(* without a row, and a holiday.                                               *)
EXTENDS Lifecycle, TLC

MCSchedule ==
    0 :> [closed |-> FALSE, open |-> 2, close |-> 6]
 @@ 1 :> [closed |-> TRUE, open |-> 2, close |-> 6]
MCPolicies == {
    [first |-> 1, resolution |-> 3, priority |-> "HIGH"],
    [first |-> 1, resolution |-> 2, priority |-> AnyPriority]}

(* The hypothesis of HoursAgreeHolds is met. *)
ASSUME HoursSound
=============================================================================
