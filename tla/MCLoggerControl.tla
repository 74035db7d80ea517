-------------------------- MODULE MCLoggerControl --------------------------
(* Values for the constants of LoggerControl that a cfg cannot write. *)
EXTENDS LoggerControl, TLC

CONSTANTS internal, external

\* The external storage is preferred to the internal one.
LoggerSymmetry == Permutations(Loggers)

DevicePriority == [s \in Storages |-> IF s = external THEN 2 ELSE 1]
=============================================================================
