---------------------------- MODULE MCAttackPlot ----------------------------
(* Instances of AttackPlot, and with it of Hits, for TLC.                  *)
EXTENDS AttackPlot, TLC

Symmetry == Permutations(Goroutines)

\* Never answered; read in full; cut off while being read; an error status.
AllExchanges ==
  { [status |-> 0, read |-> FALSE], [status |-> 302, read |-> TRUE],
    [status |-> 200, read |-> FALSE], [status |-> 404, read |-> TRUE] }

=============================================================================
