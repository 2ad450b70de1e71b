----------------------------- MODULE VmcsFields -----------------------------
(***************************************************************************)
(* The fields of the VMCS and their encodings (vmcs_field_index.h), and    *)
(* how the processor reads an encoding.                                    *)
(*                                                                         *)
(* A field is a triple <<area, register, part>>: kGuestCsLimit is          *)
(* <<"guest", "cs", "limit">>.  The enumerator lists families of fields    *)
(* under a comment that gives their width and area; in a family each       *)
(* field's encoding is 2 more than the one before it, with a gap where     *)
(* the table below has "none".  The half with the suffix High is the full  *)
(* one plus 1 and is not used by the driver.                               *)
(***************************************************************************)
EXTENDS Naturals, Sequences, Functions

Named(area, part, registers) ==
    [i \in DOMAIN registers |-> <<area, registers[i], part>>]

\* The place of f in a family, as an enumerator off by one would have it.
BadPlace(fields, f) == (CHOOSE i \in DOMAIN fields : fields[i] = f)
                       - (IF f = <<"host", "gs", "base">> THEN 0 ELSE 1)

Place(fields, f) == (CHOOSE i \in DOMAIN fields : fields[i] = f) - 1

\* Each field's encoding and the width that the comment above it gives.
Family(width, first, fields) ==
    [f \in {g \in Range(fields) : g[2] # "none"} |->
        [code |-> first + 2 * Place(fields, f), width |-> width]]

\* Two tables as one; what both have is the first's.
f ++ g == [x \in DOMAIN f \cup DOMAIN g |-> IF x \in DOMAIN f THEN f[x] ELSE g[x]]

Segments == <<"es", "cs", "ss", "ds", "fs", "gs", "ldtr", "tr">>
Tables   == <<"gdtr", "idtr">>
ControlRegisters == <<"cr0", "cr3", "cr4">>

-----------------------------------------------------------------------------
(* The families of vmcs_field_index.h *)

ControlValues16 == <<"vpid", "posted_vector", "eptp_index">>
GuestValues16   == <<"interrupt_status", "pml_index">>
HostSelectors   == <<"es", "cs", "ss", "ds", "fs", "gs", "tr">>

Fields16 ==
    Family("16", 0, Named("control", "value", ControlValues16))
    ++ Family("16", 2048, Named("guest", "selector", Segments)
                       \o Named("guest", "value", GuestValues16))
    ++ Family("16", 3072, Named("host", "selector", HostSelectors))

ControlAddresses ==
    <<"io_bitmap_a", "io_bitmap_b", "msr_bitmaps", "exit_msr_store", "exit_msr_load",
      "entry_msr_load", "executive_vmcs", "pml", "tsc_offset", "virtual_apic",
      "apic_access", "posted_descriptor", "vm_functions", "eptp", "eoi0", "eoi1", "eoi2",
      "eoi3", "eptp_list", "vmread_bitmap", "vmwrite_bitmap", "ve_information",
      "xss_bitmap", "encls_bitmap", "subpage_table", "tsc_multiplier", "none",
      "enclv_bitmap">>

Fields64Control == Family("64", 8192, Named("control", "address", ControlAddresses))

GuestValues64 ==
    <<"vmcs_link", "debugctl", "pat", "efer", "perf_global", "pdpte0", "pdpte1", "pdpte2",
      "pdpte3", "bndcfgs", "rtit_ctl", "pkrs">>
HostValues64  == <<"pat", "efer", "perf_global", "pkrs">>

Fields64State ==
    Family("64", 9216, Named("exit", "value", <<"guest_physical_address">>))
    ++ Family("64", 10240, Named("guest", "value", GuestValues64))
    ++ Family("64", 11264, Named("host", "value", HostValues64))

ControlValues32 ==
    <<"pin", "primary", "exception_bitmap", "pf_mask", "pf_match", "cr3_targets", "exit",
      "exit_store_count", "exit_load_count", "entry", "entry_load_count",
      "entry_interruption", "entry_error_code", "entry_length", "tpr_threshold",
      "secondary", "ple_gap", "ple_window">>
ExitValues32 ==
    <<"instruction_error", "exit_reason", "interruption", "interruption_error",
      "idt_vectoring", "idt_vectoring_error", "instruction_length",
      "instruction_information">>

Fields32Control ==
    Family("32", 16384, Named("control", "value", ControlValues32))
    ++ Family("32", 17408, Named("exit", "value", ExitValues32))

GuestValues32 ==
    <<"interruptibility", "activity", "smbase", "sysenter_cs", "preemption_timer">>

Fields32State ==
    Family("32", 18432, Named("guest", "limit", Segments \o Tables)
                        \o Named("guest", "access", Segments)
                        \o Named("guest", "value", GuestValues32))
    ++ Family("32", 19456, Named("host", "value", <<"sysenter_cs">>))

OwnedRegisters == <<"cr0", "cr4">>
Cr3Targets     == <<"0", "1", "2", "3">>
ExitValues     == <<"qualification", "io_rcx", "io_rsi", "io_rdi", "io_rip", "linear_address">>

FieldsNaturalControl ==
    Family("natural", 24576, Named("control", "mask", OwnedRegisters)
                        \o Named("control", "shadow", OwnedRegisters)
                        \o Named("control", "cr3_target", Cr3Targets))
    ++ Family("natural", 25600, Named("exit", "value", ExitValues))

GuestValues ==
    <<"dr7", "rsp", "rip", "rflags", "pending_debug", "sysenter_esp", "sysenter_eip", "s_cet",
      "ssp", "ssp_table">>
HostBases   == <<"fs", "gs", "tr", "gdtr", "idtr">>
HostValues  == <<"sysenter_esp", "sysenter_eip", "rsp", "rip", "s_cet", "ssp", "ssp_table">>

FieldsNaturalState ==
    Family("natural", 26624, Named("guest", "value", ControlRegisters)
                        \o Named("guest", "base", Segments \o Tables)
                        \o Named("guest", "value", GuestValues))
    ++ Family("natural", 27648, Named("host", "value", ControlRegisters)
                        \o Named("host", "base", HostBases)
                        \o Named("host", "value", HostValues))

VmcsField == Fields16 ++ Fields64Control ++ Fields64State ++ Fields32Control ++ Fields32State
             ++ FieldsNaturalControl ++ FieldsNaturalState

-----------------------------------------------------------------------------
(* Reading an encoding *)

\* The processor: bits 11:10 are the area, bits 14:13 the width.
Areas  == <<"control", "exit", "guest", "host">>
Widths == <<"16", "64", "32", "natural">>
HwArea(e)  == Areas[1 + ((e \div 1024) % 4)]
HwWidth(e) == Widths[1 + ((e \div 8192) % 4)]
=============================================================================
