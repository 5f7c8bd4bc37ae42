---------------------------- MODULE MCFacilitator ----------------------------
(* Facilitator for TLC.  One time unit stands for the reaper's 60 s interval. *)
EXTENDS Facilitator, TLC

CONSTANTS i1, r1, r2

MCPayer == [r \in RequestIds |-> i1]
MCIssuedAt == [r \in RequestIds |-> IF r = r1 THEN 2 ELSE 3]
MCPrice == [r \in RequestIds |-> 1]
=============================================================================
