--------------------------- MODULE MCServiceTable ---------------------------
(* Two services, of which main starts the one it waits for.                *)
EXTENDS ServiceTable, TLC

CONSTANTS ghost, logctl

StartLogctl == <<logctl>>

ClientSymmetry == Permutations(Clients)
PortSymmetry == Permutations(Ports)
Symmetry == ClientSymmetry \cup PortSymmetry
=============================================================================
