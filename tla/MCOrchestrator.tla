--------------------------- MODULE MCOrchestrator ---------------------------
(* Instances of Orchestrator for TLC.                                        *)
EXTENDS Orchestrator, TLC

\* Clients are interchangeable in the runs that check no liveness.
ClientSymmetry == Permutations(Clients)
=============================================================================
