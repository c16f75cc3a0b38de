------------------------- MODULE MCHarvestSupervisor -------------------------
(* HarvestSupervisor on small instances: see the configurations.           *)
EXTENDS HarvestSupervisor

=============================================================================
