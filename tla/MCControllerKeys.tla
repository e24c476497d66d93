------------------------- MODULE MCControllerKeys --------------------------
(***************************************************************************)
(* ControllerKeys for TLC: the two configurations give every constant      *)
(* model values, and differ in the clients and in LostAnswers.             *)
(***************************************************************************)
EXTENDS ControllerKeys

=============================================================================
