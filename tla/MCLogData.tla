----------------------------- MODULE MCLogData -----------------------------
(* Symmetry and bounds for the log index: the names of log files are       *)
(* interchangeable.                                                        *)
EXTENDS LogDataFifo, TLC

FileSymmetry == Permutations(Files)
=============================================================================
