------------------------------ MODULE MCAstaRoom ------------------------------
(* AstaRoom on small instances: see the configurations.                    *)
EXTENDS AstaRoom, TLC

CONSTANTS p1, p2

MCKinds == p1 :> {"plan"} @@ p2 :> {"bargain", "hold"}

\* Two players the plan does not name.
MCBargains == p1 :> {"bargain"} @@ p2 :> {"bargain"}

\* A rejected price lies below an accepted one.
MCPassing == p1 :> 1 .. 5 @@ p2 :> {1, 2, 4}

MCPreGate == p1 :> 4 @@ p2 :> 4

MCBook == p1 :> 6 @@ p2 :> 4

=============================================================================
