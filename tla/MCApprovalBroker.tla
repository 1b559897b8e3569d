-------------------------- MODULE MCApprovalBroker --------------------------
(* ApprovalBroker with the first ticket for one run and the others for the *)
(* other run.                                                              *)
EXTENDS ApprovalBroker

CONSTANTS r1, r2, t1

FirstAgainstTheRest == [t \in Tickets |-> IF t = t1 THEN r1 ELSE r2]
=============================================================================
