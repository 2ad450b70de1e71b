---------------------------- MODULE CpuDetection ----------------------------
(***************************************************************************)
(* virtualization_detection.cpp: what DriverEntry believes of the machine. *)
(*                                                                         *)
(* A vendor string is the sequence of its three 4-character parts; ecx is  *)
(* the set of the bits that CPUID leaf 1 returns in ECX.                   *)
(***************************************************************************)
EXTENDS Integers, Sequences

kVendorName == <<"Genu", "ineI", "ntel">>
AmdVendor   == <<"Auth", "enti", "cAMD">>

\* Bit numbers in CPUID.1:ECX
VmxBit   == 5
XsaveBit == 26

\* IsCPUIdSupported is not here: every processor that can run this 64-bit
\* code keeps a 1 written to the ID flag, so its answer is always yes.

\* What vendorString holds after the three copies, all of them to its start:
\* the third part, then what the stack held before.
VendorString(vendor, stack) == <<vendor[3], stack[2], stack[3]>>

\* memcmp's result converted to bool: true if the strings DIFFER.
VendorIsIntel(vendor, stack) == VendorString(vendor, stack) # kVendorName

\* Register32.rev_bitfield declares bit31 first, in the least significant bit.
RevBit(n) == 31 - n

SupportsVtxOperation(ecx) == RevBit(5) \in ecx
=============================================================================
