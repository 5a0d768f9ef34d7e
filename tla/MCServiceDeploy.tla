--------------------------- MODULE MCServiceDeploy ---------------------------
(* An instance of ServiceDeploy for TLC.                                     *)
EXTENDS ServiceDeploy, TLC

CONSTANTS d1, d2

Symmetry == Permutations(Run)

\* Where runs overlap each brings one of the directories at most.
Bounded == met # {} => \A r \in Run : brings[r].dirs \subseteq {d1}
=============================================================================
