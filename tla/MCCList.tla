------------------------------- MODULE MCCList -------------------------------
(* Instances of CList for TLC. *)
EXTENDS CList, TLC

CONSTANTS v1, v2

(* An array of two items; assign may be given a part of it. *)
SomeArrays == {<<v1, v2>>}

=============================================================================
