----------------------------- MODULE FlashCycle -----------------------------
(***************************************************************************)
(* The workloads that wear the flash: partition_cycle, on the scratch      *)
(* partition or on the OTA slot that is not running, and run_nvs.  The     *)
(* flash outlives a reset and is modelled block by block; writing a block  *)
(* that is not blank leaves neither the old nor the new data in it.        *)
(***************************************************************************)
EXTENDS BodyLoop

CONSTANT Blocks   \* blocks of a partition

ASSUME FlashAssumption == Blocks \in Nat \ {0}

Slot == {"ota_0", "ota_1"}
Area == Slot \cup {"scratch"}
Offset == 0..(Blocks - 1)

VARIABLES
  running,  \* esp_ota_get_running_partition
  flash,    \* per partition and block: what is in it
  target,   \* the partition of the run, "none" before it is known
  offset,   \* in blocks
  payload,  \* the key "payload" is in NVS
  fault     \* history of the run: what the hardware did not do

flashVars == <<running, flash, target, offset, payload, fault>>

FlashInit ==
  /\ running \in Slot
  /\ flash = [p \in Area |-> [o \in Offset |-> IF p = running THEN "image" ELSE "old"]]
  /\ target = "none" /\ offset = 0 /\ payload = FALSE /\ fault = "none"

\* Mutant: the update slot is taken for ota_1, and nobody looks what runs.
Target_Fixed(wl) == IF wl = "FLASH_WRITE" THEN {"scratch"} ELSE {"ota_1"}

\* What esp_partition_find_first and esp_ota_get_next_update_partition find,
\* less what partition_cycle refuses.
Target(wl) ==
  (IF wl = "FLASH_WRITE" THEN {"scratch"} ELSE Slot \ {running}) \ {running}

OpenPartition ==
  /\ pc = "body" /\ workload \in FlashLoad
  /\ \/ \E p \in Target(workload) :
          /\ target' = p /\ offset' = 0 /\ GoTo("loop")
          /\ UNCHANGED <<running, flash, payload, fault>>
     \/ /\ Return(FALSE)   \* no partition, or no memory for the two buffers
        /\ fault' = "open"
        /\ UNCHANGED <<running, flash, target, offset, payload>>

\* Mutant: the offset is compared before the block is added to it.
Wrapped_Late(o) == IF o > Blocks THEN 0 ELSE o
Wrapped(o) == IF o + 1 > Blocks THEN 0 ELSE o

CycleLoop ==
  /\ pc = "loop"
  /\ IF Going
     THEN /\ MayGo /\ offset' = Wrapped(offset) /\ GoTo("erase")
          /\ UNCHANGED <<running, flash, target, payload, fault>>
     ELSE Return(TRUE) /\ UNCHANGED flashVars

Put(content) == flash' = [flash EXCEPT ![target][offset] = content]

\* The driver refuses an offset outside the partition.
OutOfRange ==
  /\ pc \in {"erase", "write"} /\ offset \notin Offset
  /\ Return(FALSE)
  /\ UNCHANGED flashVars

\* Mutant: blocks are erased on the first lap only.
Erased_FirstLap(content) == IF a < Blocks * IO_BLOCK THEN "blank" ELSE content
Erased(content) == "blank"

EraseBlock ==
  /\ pc = "erase" /\ offset \in Offset
  /\ \/ /\ Put(Erased(flash[target][offset])) /\ GoTo("write")
        /\ UNCHANGED fault
     \/ /\ \E left \in {"blank", "broken"} : Put(left)
        /\ Return(FALSE) /\ fault' = "erase"
  /\ UNCHANGED <<running, target, offset, payload>>

\* A worn block takes the data and does not keep it.
WriteBlock ==
  /\ pc = "write" /\ offset \in Offset
  /\ \/ /\ Put(IF flash[target][offset] = "blank" THEN "data" ELSE "mixed")
        /\ GoTo("verify")
        /\ UNCHANGED fault
     \/ Put("broken") /\ GoTo("verify") /\ fault' = "worn"
     \/ /\ \E left \in {"blank", "broken"} : Put(left)
        /\ Return(FALSE) /\ fault' = "write"
  /\ UNCHANGED <<running, target, offset, payload>>

\* Mutant: the block is read and not compared.
Verified_Unread == TRUE
\* memcmp of what was written with what is read back.
Verified == flash[target][offset] = "data"

VerifyBlock ==
  /\ pc = "verify"
  /\ \/ /\ Verified
        /\ a' = a + IO_BLOCK /\ pc' = "loop" /\ offset' = offset + 1
        /\ UNCHANGED <<workload, ok, b, flags, result, fault>>
     \/ ~Verified /\ Return(FALSE) /\ UNCHANGED <<offset, fault>>
     \/ Return(FALSE) /\ fault' = "read" /\ UNCHANGED offset
  /\ UNCHANGED <<running, flash, target, payload>>

-----------------------------------------------------------------------------
(* run_nvs.                                                                *)

OpenNvs ==
  /\ pc = "body" /\ workload = "NVS_WRITE"
  /\ \/ GoTo("nvs_loop") /\ UNCHANGED fault
     \/ Return(FALSE) /\ fault' = "open"
  /\ UNCHANGED <<running, flash, target, offset, payload>>

\* Mutant: a failed write returns at once.
NvsGivesUp_Return == Return(FALSE)
NvsGivesUp ==
  /\ pc' = "nvs_erase" /\ ok' = FALSE
  /\ UNCHANGED <<workload, a, b, flags, result>>

\* nvs_set_blob and nvs_commit; a write that fails may have reached the flash.
NvsLoop ==
  /\ pc = "nvs_loop"
  /\ \/ /\ MayGo
        /\ \/ a' = a + IO_BLOCK /\ payload' = TRUE
              /\ UNCHANGED <<workload, pc, ok, b, flags, result, fault>>
           \/ /\ payload' \in {payload, TRUE} /\ fault' = "write"
              /\ NvsGivesUp
     \/ ~Going /\ GoTo("nvs_erase") /\ UNCHANGED <<payload, fault>>
  /\ UNCHANGED <<running, flash, target, offset>>

\* Nobody looks at what the erasure returned.
NvsErase ==
  /\ pc = "nvs_erase"
  /\ \/ payload' = FALSE /\ UNCHANGED fault
     \/ fault' = "erase" /\ UNCHANGED payload
  /\ Return(ok)
  /\ UNCHANGED <<running, flash, target, offset>>

FlashStep ==
  \/ OpenPartition \/ CycleLoop \/ OutOfRange
  \/ EraseBlock \/ WriteBlock \/ VerifyBlock
  \/ OpenNvs \/ NvsLoop \/ NvsErase
=============================================================================
