----------------------------- MODULE MCAttackCmd -----------------------------
(* Instances of AttackCmd for TLC.                                         *)
EXTENDS AttackCmd

=============================================================================
