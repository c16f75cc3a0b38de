--------------------------- MODULE MCHarvestLoader ---------------------------
(* HarvestLoader on small instances: see the configurations.               *)
EXTENDS HarvestLoader, TLC

\* Players are only ever compared with one another.
Symmetry == Permutations(Player)

=============================================================================
