------------------------- MODULE MCDirectoryDeploy -------------------------
(* Instances of DirectoryDeploy for TLC.                                     *)
EXTENDS DirectoryDeploy, TLC

Symmetry == Permutations(Run)
=============================================================================
