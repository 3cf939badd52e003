---------------------------- MODULE StagedUpdater ----------------------------
(***************************************************************************)
(* The firmware updater of the boards that stage the download in a file:   *)
(* stm32h573i (SD card) and frdm_rw612 (LittleFS), driven by main.c.       *)
(*                                                                         *)
(* One thread runs it at any time: main() until button_init, then the      *)
(* system work queue.  The steps below are the points between which the    *)
(* power may fail or a call may return an error.                           *)
(***************************************************************************)
EXTENDS Mcuboot

CONSTANTS
  FsCapacity,      (* blocks that fit in UPDATE_PATH                       *)
  SlotCapacity,    (* blocks that fit in slot1                             *)
  UnlinkFaults,    (* fs_stat/fs_unlink of the old file may fail           *)
  TargetRollback   (* the backend may ask for less than the device runs    *)

ASSUME StagedAssumption == /\ FsCapacity \in Nat
                           /\ SlotCapacity \in Nat
                           /\ FsCapacity >= NumChunks
                           /\ SlotCapacity >= NumChunks
                           /\ UnlinkFaults \in BOOLEAN
                           /\ TargetRollback \in BOOLEAN

VARIABLES
  file,      (* blocks in UPDATE_PATH; survives a reset.  <<>>: no file    *)
  desired,   (* context->desired_firmware_version, 0 after a reset         *)
  got,       (* chunks the SDK delivered in this download                  *)
  rd,        (* blocks of the file read back by the copy to slot1          *)
  buf,       (* block held by flash_img_context, not in flash yet          *)
  pc,        (* where the thread is                                        *)
  target,    (* version the backend wants on the device, 0 for none        *)
  reported   (* version the backend was last told, 0 for none              *)

ramVars     == <<desired, got, rd, buf>>
backendVars == <<target, reported>>
vars == <<slotVars, file, ramVars, pc, backendVars>>

Goto(from, to) == pc = from /\ pc' = to

\* A step that leaves everything but the thread's position alone.
Jump(from, to) == /\ Goto(from, to)
                  /\ UNCHANGED <<slotVars, file, ramVars, backendVars>>

Init == /\ primary \in Versions
        /\ confirmed = TRUE
        /\ pending = FALSE
        /\ slot1 = <<>>
        /\ file = <<>>
        /\ desired = 0 /\ got = 0 /\ rd = 0 /\ buf = <<>>
        /\ pc = "boot"
        /\ target \in IF TargetRollback THEN 0..MaxVersion
                                        ELSE {0} \cup (primary..MaxVersion)
        /\ reported = 0

----------------------------------------------------------------------------
(* main() and firmware_updater_initialize                                  *)

\* The work buffer, the SDK or (frdm_rw612) the Bluetooth gateway cannot be
\* set up: NULL, and main() blinks the red LED for ever.
InitializeFails == Jump("boot", "halted")

\* Mutant: the button is armed without looking at the flag.
InitializeUnchecked == Jump("boot", "idle")

\* boot_is_img_confirmed: nothing to confirm, button_init arms the button.
InitializeConfirmed == confirmed /\ Jump("boot", "idle")

\* Mutant: the backend is informed, the flag is never written.
ConfirmSkipped == ~confirmed /\ Jump("boot", "report")

\* First boot of an image on trial.
ConfirmImage == /\ ~confirmed
                /\ Goto("boot", "report")
                /\ confirmed' = TRUE
                /\ UNCHANGED <<primary, pending, slot1, file, ramVars, backendVars>>

\* boot_write_img_confirmed returned an error; the flag may be in flash or not.
ConfirmFails == /\ ~confirmed
                /\ Goto("boot", "rebooting")
                /\ confirmed' \in BOOLEAN
                /\ UNCHANGED <<primary, pending, slot1, file, ramVars, backendVars>>

\* Mutant: it reports the version that is wanted, not the one that runs.
InformWanted == /\ Goto("report", "idle")
                /\ reported' = target
                /\ UNCHANGED <<slotVars, file, ramVars, target>>

\* firmups_sdk_set_device_info reached the backend (its answer may be lost).
InformBackend == /\ Goto("report", "idle")
                 /\ reported' = primary
                 /\ UNCHANGED <<slotVars, file, ramVars, target>>

\* It did not reach it: an error is logged and nothing tries again.
InformLost == Jump("report", "idle")

----------------------------------------------------------------------------
(* firmware_check and firmware_update_available                            *)

PressButton == Jump("idle", "check")

\* The early return: the version fetched before is used again.
CachedTarget == primary # desired /\ desired # 0

UseCachedTarget == CachedTarget /\ Jump("check", "update")

FetchTarget == /\ ~CachedTarget
               /\ desired' = target
               /\ Goto("check", IF primary < target THEN "update" ELSE "idle")
               /\ UNCHANGED <<slotVars, file, got, rd, buf, backendVars>>

FetchFails == ~CachedTarget /\ Jump("check", "idle")

----------------------------------------------------------------------------
(* firmware_updater_update_firmware: download into the file                *)

UpdateRequired == primary < desired

NotRequired == ~UpdateRequired /\ Jump("update", "idle")

\* Mutant: the file of an earlier download is appended to.
DownloadKeepsFile == /\ UpdateRequired
                     /\ Goto("update", "download")
                     /\ got' = 0
                     /\ UNCHANGED <<slotVars, file, desired, rd, buf, backendVars>>

DownloadInit == /\ UpdateRequired
                /\ Goto("update", "download")
                /\ file' = <<>>
                /\ got' = 0
                /\ UNCHANGED <<slotVars, desired, rd, buf, backendVars>>

\* The result of fs_unlink is ignored, and fs_stat failing reads as "no file".
DownloadInitUnlinkFails == /\ UnlinkFaults
                           /\ UpdateRequired
                           /\ file # <<>>
                           /\ Goto("update", "download")
                           /\ got' = 0
                           /\ UNCHANGED <<slotVars, file, desired, rd, buf, backendVars>>

\* The SDK refuses the download, or (frdm_rw612) slot1 cannot be opened.
DownloadInitFails == UpdateRequired /\ Jump("update", "idle")

\* Mutant: one chunk too many before the download counts as complete.
GetChunkTooMany == /\ pc = "download"
                   /\ got <= NumChunks
                   /\ Len(file) < FsCapacity
                   /\ file' = Append(file, <<desired, got + 1>>)
                   /\ got' = got + 1
                   /\ UNCHANGED <<slotVars, desired, rd, buf, pc, backendVars>>

\* One turn of the loop: the next chunk, appended to the file.
GetChunk == /\ pc = "download"
            /\ got < NumChunks
            /\ Len(file) < FsCapacity
            /\ file' = Append(file, <<desired, got + 1>>)
            /\ got' = got + 1
            /\ UNCHANGED <<slotVars, desired, rd, buf, pc, backendVars>>

\* The chunk does not arrive, or filesystem_append_bytes fails, possibly
\* after a part of the chunk is in the file.
GetChunkFails == /\ Goto("download", "idle")
                 /\ got < NumChunks
                 /\ Len(file) < FsCapacity
                 /\ file' \in {file, Append(file, Torn)}
                 /\ UNCHANGED <<slotVars, ramVars, backendVars>>

\* No room left: fs_write makes no progress and the append returns an error.
FileFull == /\ Jump("download", "idle")
            /\ got < NumChunks
            /\ Len(file) >= FsCapacity

\* download_complete, and firmups_sdk_firmware_download_finish accepts.
DownloadFinish == got = NumChunks /\ Jump("download", "flash")

DownloadFinishFails == got = NumChunks /\ Jump("download", "idle")

----------------------------------------------------------------------------
(* write_firmware_to_secondary_slot: the file into slot1                   *)

\* fs_open, flash_area_open, flash_area_erase, flash_img_init_id.
EraseSlot == /\ Goto("flash", "copy")
             /\ slot1' = <<>>
             /\ rd' = 0
             /\ buf' = <<>>
             /\ UNCHANGED <<primary, confirmed, pending, file, desired, got, backendVars>>

\* One of them fails: before, in the middle of, or after the erase.
EraseSlotFails == /\ Goto("flash", "idle")
                  /\ slot1' \in {slot1, <<Torn>>, <<>>}
                  /\ UNCHANGED <<primary, confirmed, pending, file, ramVars, backendVars>>

\* fs_read and flash_img_buffered_write: the writer keeps the last block in
\* RAM and refuses more than the slot holds.
CopyBlock == /\ pc = "copy"
             /\ rd < Len(file)
             /\ rd < SlotCapacity
             /\ rd' = rd + 1
             /\ slot1' = slot1 \o buf
             /\ buf' = <<file[rd + 1]>>
             /\ UNCHANGED <<primary, confirmed, pending, file, desired, got, pc, backendVars>>

SlotFull == /\ Jump("copy", "idle")
            /\ rd < Len(file)
            /\ rd >= SlotCapacity

\* Mutant: the block still in RAM is forgotten.
FlushForgotten == /\ rd = Len(file)
                  /\ Goto("copy", "request")
                  /\ buf' = <<>>
                  /\ UNCHANGED <<slotVars, file, desired, got, rd, backendVars>>

\* flash_img_buffered_write(flush = true) at the end of the file.
FlushSlot == /\ rd = Len(file)
             /\ Goto("copy", "request")
             /\ slot1' = slot1 \o buf
             /\ buf' = <<>>
             /\ UNCHANGED <<primary, confirmed, pending, file, desired, got, rd, backendVars>>

\* A read, a write or the flush fails; a block may be half written.
CopyFails == /\ Goto("copy", "idle")
             /\ slot1' \in {slot1, slot1 \o buf, Append(slot1, Torn)}
             /\ UNCHANGED <<primary, confirmed, pending, file, ramVars, backendVars>>

----------------------------------------------------------------------------
(* The upgrade request, the reboot and the rest of the world               *)

RequestUpgrade == /\ Goto("request", "rebooting")
                  /\ pending' = TRUE
                  /\ UNCHANGED <<primary, confirmed, slot1, file, ramVars, backendVars>>

\* The result of boot_request_upgrade is ignored: the board reboots anyway.
RequestUpgradeFails == Jump("request", "rebooting")

\* A reset: RAM is gone, MCUboot runs, then main().
Reset == /\ BootSlots
         /\ pc' = "boot"
         /\ desired' = 0 /\ got' = 0 /\ rd' = 0 /\ buf' = <<>>
         /\ UNCHANGED <<file, backendVars>>

\* sys_reboot, 500 ms after the request or after a failed confirmation.
Reboot == pc = "rebooting" /\ Reset

\* The power fails and comes back, or somebody presses the reset button.  In
\* the middle of a call it leaves what that call leaves when it fails, so such
\* a loss is the failing action followed by this one.
PowerLoss == pc # "rebooting" /\ Reset

\* The owner of the device chooses another version at the backend.
SetTarget == /\ target' \in IF TargetRollback THEN 0..MaxVersion
                                              ELSE {v \in Versions : v >= target /\ v >= primary}
             /\ UNCHANGED <<slotVars, file, ramVars, pc, reported>>

----------------------------------------------------------------------------
\* Steps in which every call of the thread does what it is meant to do.
Progress == \/ InitializeConfirmed \/ ConfirmImage \/ InformBackend
            \/ UseCachedTarget \/ FetchTarget \/ NotRequired
            \/ DownloadInit \/ GetChunk \/ FileFull \/ DownloadFinish
            \/ EraseSlot \/ CopyBlock \/ SlotFull \/ FlushSlot
            \/ RequestUpgrade \/ Reboot

\* A call fails or the power does.
Fault == \/ InitializeFails \/ ConfirmFails \/ InformLost \/ FetchFails
         \/ DownloadInitUnlinkFails \/ DownloadInitFails
         \/ GetChunkFails \/ DownloadFinishFails
         \/ EraseSlotFails \/ CopyFails \/ RequestUpgradeFails
         \/ PowerLoss

Next == Progress \/ Fault \/ PressButton \/ SetTarget

Spec == Init /\ [][Next]_vars

\* The thread is the only one that wants the CPU for long, so it goes on;
\* somebody presses the button again and again.
FairSpec == Spec /\ WF_vars(Progress) /\ WF_vars(PressButton)

----------------------------------------------------------------------------
(* Properties                                                              *)

Positions == {"boot", "report", "idle", "check", "update", "download", "flash",
              "copy", "request", "rebooting", "halted"}

\* Types of the variables; the counters stay within one image or one file.
TypeOK == /\ SlotTypeOK
          /\ file \in Seq(Block) /\ Len(file) <= FsCapacity
          /\ desired \in 0..MaxVersion
          /\ got \in 0..NumChunks
          /\ rd \in 0..FsCapacity
          /\ buf \in Seq(Block) /\ Len(buf) <= 1
          /\ pc \in Positions
          /\ target \in 0..MaxVersion
          /\ reported \in 0..MaxVersion

\* Version a revert would bring back, 0 when slot1 holds no image.
FallbackVersion == IF Bootable(slot1) THEN HeaderVersion(slot1) ELSE 0

\* Version the device is sure of: a reset may take away one that is on trial.
SafeVersion == IF confirmed THEN primary ELSE FallbackVersion

\* While an image runs on trial, slot1 keeps a whole image that is not newer:
\* no step of the updater touches slot1 before the trial is confirmed, so a
\* reset at any moment of the trial can go back.
FallbackIntact == ~confirmed => /\ Bootable(slot1)
                                /\ HeaderVersion(slot1) <= primary

\* When an upgrade is requested, slot1 holds exactly the image of the version
\* the backend asked for, complete and newer than the running one, whatever
\* failed or was cut short in earlier downloads and copies.
StagedExactly == pending => /\ slot1 = Image(desired)
                            /\ primary < desired

\* The comment at fs_open in write_firmware_to_secondary_slot: the file it
\* opens "must be an MCUboot-signed image", i.e. one image and nothing else.
OpenedFileIsImage == pc \in {"flash", "copy"} => \E v \in Versions : file = Image(v)

\* The backend never believes in a version that a revert may still take away:
\* what it was told is at most the confirmed version.
ReportedNotOnTrial == reported <= SafeVersion

\* No step takes the device behind a version it was sure of, and the backend never
\* sees it go back, not even when the owner asks for an older version: neither a
\* reset in the middle of an update, nor a revert, nor a report that comes late.
OnlyForward == [][SafeVersion' >= SafeVersion /\ reported' >= reported]_vars

\* The updater keeps the promises of ABUpdate.
AB == INSTANCE ABUpdate WITH running  <- primary,
                             trial    <- ~confirmed,
                             fallback <- IF confirmed THEN 0 ELSE FallbackVersion
ABSpec == AB!Spec

\* Once calls stop failing, a device whose backend settles on a version gets
\* there, from whatever files, slots and cached versions the faults left,
\* unless initialisation failed and the device blinks its red LED.
Converges == \A v \in Versions :
               (<>[](target = v) /\ <>[][~Fault]_vars)
                  => <>(primary >= v \/ pc = "halted")
==============================================================================
