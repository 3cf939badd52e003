------------------------------- MODULE Mcuboot -------------------------------
(***************************************************************************)
(* The two image slots of a board and what the MCUboot bootloader does to  *)
(* them at a reset.  MCUboot is outside the repository: it is modelled     *)
(* from how the firmware uses it (boot_request_upgrade with                *)
(* BOOT_UPGRADE_TEST, boot_is_img_confirmed, boot_write_img_confirmed) and *)
(* from its options (sysbuild.conf selects swap with scratch,              *)
(* sysbuild/mcuboot.conf selects downgrade prevention).                    *)
(*                                                                         *)
(* A swap that a power loss interrupts is resumed by MCUboot at the next   *)
(* reset, so a boot is a single step here.                                 *)
(***************************************************************************)
EXTENDS Naturals, Sequences

CONSTANTS
  MaxVersion,  (* versions are 1..MaxVersion; 0 means "none"               *)
  NumChunks    (* blocks in one firmware image                             *)

ASSUME ImageAssumption == /\ MaxVersion \in Nat \ {0}
                          /\ NumChunks  \in Nat \ {0}

VARIABLES
  primary,     (* version of the image in slot0, the one that runs         *)
  confirmed,   (* its image_ok flag                                        *)
  pending,     (* slot1 holds an upgrade request in its trailer            *)
  slot1        (* blocks written to slot1 since it was erased              *)

slotVars == <<primary, confirmed, pending, slot1>>

Versions == 1..MaxVersion

\* Half written data: never part of an image.
Torn == <<0, 0>>

Block == (Versions \X (1..NumChunks)) \cup {Torn}

\* The first n blocks of the signed image of version v, and all of it.
Prefix(v, n) == [i \in 1..n |-> <<v, i>>]
Image(v) == Prefix(v, NumChunks)

\* MCUboot reads the header at the start of the slot, hashes the image that
\* the header announces and checks its signature: what follows is ignored.
HeaderVersion(s) == s[1][1]
Bootable(s) == /\ Len(s) >= NumChunks
               /\ \A i \in 1..NumChunks : s[i] = <<HeaderVersion(s), i>>

----------------------------------------------------------------------------
(* What a reset finds.  An upgrade request is honoured when slot1 holds a  *)
(* valid image that is not older than the running one; an image that runs  *)
(* on trial and was not confirmed is swapped back.                         *)

SwapDue   == pending /\ Bootable(slot1) /\ HeaderVersion(slot1) >= primary
RevertDue == ~pending /\ ~confirmed /\ Bootable(slot1)

SwapSlots == /\ primary' = HeaderVersion(slot1)
             /\ slot1' = Image(primary)
             /\ pending' = FALSE

\* Mutant: the upgrade was requested as permanent, there is no trial.
PermanentSwap == SwapDue /\ SwapSlots /\ confirmed' = TRUE

TestSwap   == SwapDue /\ SwapSlots /\ confirmed' = FALSE
RevertSwap == RevertDue /\ SwapSlots /\ confirmed' = TRUE
KeepSlots  == /\ ~SwapDue
              /\ ~RevertDue
              /\ pending' = FALSE
              /\ confirmed' = TRUE
              /\ UNCHANGED <<primary, slot1>>

BootSlots == TestSwap \/ RevertSwap \/ KeepSlots

SlotTypeOK == /\ primary \in Versions
              /\ confirmed \in BOOLEAN
              /\ pending \in BOOLEAN
              /\ slot1 \in Seq(Block)
==============================================================================
