---------------------------- MODULE MCPacedAttack ----------------------------
(* Instances of PacedAttack for TLC.                                       *)
EXTENDS PacedAttack

SomeDurations == {0, 1, 7, 12}

=============================================================================
