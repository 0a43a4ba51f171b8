--------------------------- MODULE MCArrivalNotices ---------------------------
(***************************************************************************)
(* A small exchange for TLC: a suspension made on receipt, which a person   *)
(* can reverse, an end made by the sweep, which only a person in time can   *)
(* prevent, and a notice that is only recorded.                             *)
(***************************************************************************)
EXTENDS ArrivalNotices

Policies ==
  {[rule |-> "suspend", atOnce |-> TRUE], [rule |-> "end", atOnce |-> FALSE],
   [rule |-> "record", atOnce |-> FALSE]}

=============================================================================
