---------------------------- MODULE MCEnrollment ----------------------------
(* Two projects that were registered by a client, a client that may write   *)
(* in every Scope, and a third project: the operator merges the first two,  *)
(* and the Scope of the second is offered as that of the third.             *)
EXTENDS Enrollment

Asked == [c \in Clients |-> IF c \in Wide THEN {} ELSE {Self}]
Named == [k \in Keys |-> k]
=============================================================================
