----------------------------- MODULE MCEnterVmx -----------------------------
(* Instances of EnterVmx for TLC. *)
EXTENDS EnterVmx, TLC

\* Clients and processors are interchangeable in the safety properties.
Symmetry == Permutations(Threads \ {Loader}) \cup Permutations(Cpus)
=============================================================================
