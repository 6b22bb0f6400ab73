--------------------------- MODULE MCMeshGateway ---------------------------
(* Two nodes and a gateway, all within reach of each other.                *)
EXTENDS MeshGateway, TLC

CONSTANTS a, b, g

MCReading == {a, b} \X (1 .. 2)

MCID == (a :> 0) @@ (b :> 1) @@ (g :> 2)

Unequal == (a :> 2) @@ (b :> 1) @@ (g :> 0)
=============================================================================
