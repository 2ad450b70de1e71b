--------------------------- MODULE PopulateBlocks ---------------------------
(***************************************************************************)
(* What EnterVmx takes PopulateActiveVMCS for: three steps, each of which  *)
(* writes one part of the VMCS completely or not, and a status that the    *)
(* last write of the first part assigns and the other two accumulate.      *)
(* PopulateVmcs, which has a step for every VMWRITE, implements it.        *)
(***************************************************************************)
EXTENDS NtStatus

VARIABLES
    stage,     \* the part that is written next, "idle", "dump", "done", "stopped"
    written,   \* the parts that this call has written completely
    status

vars == <<stage, written, status>>

Init ==
    /\ stage = "idle"
    /\ written = {}
    /\ status = STATUS_SUCCESS

Begin ==
    /\ stage \in {"idle", "done"}
    /\ stage' = "controls"
    /\ written' = {}
    /\ status' = STATUS_SUCCESS

\* The part block is written; complete says whether every VMWRITE succeeded.
Write(block, complete, s, next) ==
    /\ stage = block
    /\ stage' = next
    /\ written' = IF complete THEN written \cup {block} ELSE written
    /\ status' = s

WriteControls ==
    \E complete \in BOOLEAN, s \in {STATUS_SUCCESS, STATUS_FAILED_VMWRITE} :
       /\ complete => s = STATUS_SUCCESS
       /\ Write("controls", complete, s, "segments")

WriteLater(block, next) ==
    \E complete \in BOOLEAN :
       Write(block, complete,
             OrStatus(status, IF complete THEN STATUS_SUCCESS ELSE STATUS_FAILED_VMWRITE), next)

Dump ==
    /\ stage = "dump"
    /\ stage' = "done"
    /\ UNCHANGED <<written, status>>

\* The thread was moved to a processor outside VMX operation.
Stop ==
    /\ stage \in {"controls", "segments", "registers", "dump"}
    /\ stage' = "stopped"
    /\ UNCHANGED <<written, status>>

Next ==
    \/ Begin
    \/ WriteControls
    \/ WriteLater("segments", "registers")
    \/ WriteLater("registers", "dump")
    \/ Dump
    \/ Stop

Spec == Init /\ [][Next]_vars
=============================================================================
