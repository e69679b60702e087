-------------------------- MODULE MCSleepySession --------------------------
(* Small instances of SleepySession for TLC.                               *)
EXTENDS SleepySession, TLC

(* Every property of the run speaks of undisturbed clients only, and a     *)
(* disturbed one stays so: its further steps need not be explored.         *)
WhileUndisturbed == Undisturbed

(* Identities are interchangeable.                                         *)
Symmetric == Permutations(ClientId)
=============================================================================
