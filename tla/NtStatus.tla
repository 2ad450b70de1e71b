------------------------------ MODULE NtStatus ------------------------------
(***************************************************************************)
(* NTSTATUS values as the driver computes them.  An NTSTATUS is a signed   *)
(* 32-bit integer; the two most significant bits are its severity and 3    *)
(* (a value in -2^30 .. -1) is the severity of an error.                   *)
(*                                                                         *)
(* NT_SUCCESS and NT_ERROR are the macros of the WDK (ntdef.h).  NT_ERROR  *)
(* is a TEST, it does not build an error code: the driver's own codes are  *)
(* defined as NT_ERROR(BASE_ERROR + n) and are therefore all equal to 1.   *)
(***************************************************************************)
EXTENDS Integers

STATUS_SUCCESS == 0

\* 0xC000009A, 0xC0000035 and 0xC00000BB (ntstatus.h)
STATUS_INSUFFICIENT_RESOURCES == -1073741670
STATUS_OBJECT_NAME_COLLISION  == -1073741771
STATUS_NOT_SUPPORTED          == -1073741637

\* ((NTSTATUS)(s)) >= 0
NT_SUCCESS(s) == s >= 0

\* (((ULONG)(s)) >> 30) == 3, the C++ bool converted back to an integer
NT_ERROR(s) == IF -1073741824 <= s /\ s < 0 THEN 1 ELSE 0

\* 0xC0133700 read as a signed 32-bit integer
BASE_ERROR == -1072482560

\* What a reader of custom_status_codes.h expects a custom code to be
PlainCode(offset) == BASE_ERROR + offset

CustomStatus(offset) == NT_ERROR(BASE_ERROR + offset)

STATUS_FAILED_TO_ALLOCATE_MEMORY == CustomStatus(1)
STATUS_FAILED_VMXON    == CustomStatus(16)
STATUS_FAILED_VMXOFF   == CustomStatus(17)
STATUS_FAILED_VMPTRLD  == CustomStatus(18)
STATUS_FAILED_VMCLEAR  == CustomStatus(19)
STATUS_FAILED_VMLAUNCH == CustomStatus(20)
STATUS_FAILED_VMREAD   == CustomStatus(21)
STATUS_FAILED_VMWRITE  == CustomStatus(22)
STATUS_NULLPTR_ERROR   == CustomStatus(48)

\* status += result.
BadOrStatus(status, result) == status + result

\* status |= result.  Both operands are 0 or one and the same custom code.
OrStatus(status, result) == IF result = STATUS_SUCCESS THEN status ELSE result
=============================================================================
