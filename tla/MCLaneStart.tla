---------------------------- MODULE MCLaneStart ----------------------------
(* Small instances of LaneStart for TLC. *)
EXTENDS LaneStart
CONSTANTS p1, p2, p3, t1, t2
=============================================================================
