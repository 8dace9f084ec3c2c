------------------------------ MODULE MCAttack ------------------------------
(* Instances of Attack for TLC.                                            *)
EXTENDS Attack

=============================================================================
