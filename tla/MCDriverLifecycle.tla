-------------------------- MODULE MCDriverLifecycle --------------------------
(* Instances of DriverLifecycle for TLC. *)
EXTENDS DriverLifecycle, TLC

\* Every operation that can fail does so in some behaviour.
EveryFailure == Blocks \cup {"IoCreateDevice", "IoDeleteSymbolicLink", "IoCreateSymbolicLink"}

\* Failures of the two regions only.
RegionFailures == {"vmxon_region", "vmcs_region"}

NoFailure == {}
=============================================================================
