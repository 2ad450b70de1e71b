--------------------------- MODULE MCPopulateVmcs ---------------------------
(* Instances of PopulateVmcs for TLC. *)
EXTENDS PopulateVmcs

\* Any one field of those that the driver writes or shows may be missing, or two:
\* one written before the status is assigned and one after; two after.
OneOrTwoMissing ==
    {{}} \cup {{e} : e \in Encodings}
         \cup {{Code(Guest("vmcs_link")), Code(Guest("dr7"))},
               {Code(Host("sysenter_cs")), Code(Guest("dr7"))}}

\* The thread is moved in the last call, which finds the fields of the call before,
\* on a machine that has every field; on the others, which differ in what VMWRITE
\* and VMREAD refuse, it stays.
MovedOrMissing == moves = 0 \/ (unsupported = {} /\ calls = MaxCalls)
=============================================================================
