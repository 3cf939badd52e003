---------------------------- MODULE StreamUpdater ----------------------------
(***************************************************************************)
(* The firmware updater of the nrf5340dk board, driven by main.c: there is *)
(* no file system, the chunks that come over Bluetooth are streamed into   *)
(* slot1, which is therefore erased before anything is downloaded.         *)
(*                                                                         *)
(* One thread runs it at any time: main() until button_init, then          *)
(* button_action_thread.  The transport is BleCentral's: here a connection *)
(* or an exchange with the backend works or fails.  An image fits in slot1.*)
(***************************************************************************)
EXTENDS Mcuboot

VARIABLES
  desired,   (* context->desired_firmware_version, 0 after a reset         *)
  got,       (* chunks the SDK delivered in this download                  *)
  buf,       (* block held by flash_img_context, not in flash yet          *)
  pc,        (* where the thread is                                        *)
  target,    (* version the backend wants on the device, 0 for none        *)
  reported   (* version the backend was last told, 0 for none              *)

ramVars     == <<desired, got, buf>>
backendVars == <<target, reported>>
vars == <<slotVars, ramVars, pc, backendVars>>

Goto(from, to) == pc = from /\ pc' = to

\* A step that leaves everything but the thread's position alone.
Jump(from, to) == Goto(from, to) /\ UNCHANGED <<slotVars, ramVars, backendVars>>

Init == /\ primary \in Versions
        /\ confirmed = TRUE
        /\ pending = FALSE
        /\ slot1 = <<>>
        /\ desired = 0 /\ got = 0 /\ buf = <<>>
        /\ pc = "boot"
        /\ target \in 0..MaxVersion
        /\ reported = 0

----------------------------------------------------------------------------
(* main() and firmware_updater_initialize                                  *)

\* bt_enable or the SDK fails: NULL, and main() blinks the red LED for ever.
InitializeFails == Jump("boot", "halted")

InitializeConfirmed == confirmed /\ Jump("boot", "idle")

\* Mutant: the backend is informed before the flag is written.
ConfirmAfterReport == ~confirmed /\ Jump("boot", "report")

ConfirmImage == /\ ~confirmed
                /\ Goto("boot", "report")
                /\ confirmed' = TRUE
                /\ UNCHANGED <<primary, pending, slot1, ramVars, backendVars>>

\* boot_write_img_confirmed returned an error; the flag may be in flash or not.
ConfirmFails == /\ ~confirmed
                /\ Goto("boot", "rebooting")
                /\ confirmed' \in BOOLEAN
                /\ UNCHANGED <<primary, pending, slot1, ramVars, backendVars>>

\* scan_and_connect and firmups_sdk_set_device_info work; the link is kept.
InformBackend == /\ Goto("report", "idle")
                 /\ reported' = primary
                 /\ UNCHANGED <<slotVars, ramVars, target>>

\* One of them does not: it is logged and nothing tries again.
InformLost == Jump("report", "idle")

----------------------------------------------------------------------------
(* firmware_check and firmware_update_available                            *)

\* firmware_updater_connect comes first, and it may fail.
PressButton == Jump("idle", "check")
ConnectFails == Jump("check", "idle")

CachedTarget == primary # desired /\ desired # 0

UseCachedTarget == CachedTarget /\ Jump("check", "update")

FetchTarget == /\ ~CachedTarget
               /\ desired' = target
               /\ Goto("check", IF primary < target THEN "update" ELSE "idle")
               /\ UNCHANGED <<slotVars, got, buf, backendVars>>

FetchFails == ~CachedTarget /\ Jump("check", "idle")

----------------------------------------------------------------------------
(* firmware_updater_update_firmware                                        *)

UpdateRequired == primary < desired

NotRequired == ~UpdateRequired /\ Jump("update", "idle")

\* flash_area_erase, flash_img_init_id.
EraseSlot == /\ UpdateRequired
             /\ Goto("update", "erased")
             /\ slot1' = <<>>
             /\ buf' = <<>>
             /\ UNCHANGED <<primary, confirmed, pending, desired, got, backendVars>>

\* One of them fails: before, in the middle of, or after the erase.
EraseSlotFails == /\ UpdateRequired
                  /\ Goto("update", "idle")
                  /\ slot1' \in {slot1, <<Torn>>, <<>>}
                  /\ UNCHANGED <<primary, confirmed, pending, ramVars, backendVars>>

DownloadInit == /\ Goto("erased", "download")
                /\ got' = 0
                /\ UNCHANGED <<slotVars, desired, buf, backendVars>>

DownloadInitFails == Jump("erased", "idle")

\* Mutant: a chunk that could not be written is skipped.
GetChunkSkips == /\ pc = "download"
                 /\ got < NumChunks
                 /\ got' = got + 1
                 /\ UNCHANGED <<slotVars, desired, buf, pc, backendVars>>

\* Mutant: the buffer is never written when it is full.
GetChunkOverfills == /\ pc = "download"
                     /\ got < NumChunks
                     /\ buf' = Append(buf, <<desired, got + 1>>)
                     /\ got' = got + 1
                     /\ UNCHANGED <<slotVars, desired, pc, backendVars>>

\* One turn of the loop: the next chunk, through the buffered writer.
GetChunk == /\ pc = "download"
            /\ got < NumChunks
            /\ slot1' = slot1 \o buf
            /\ buf' = <<(<<desired, got + 1>>)>>
            /\ got' = got + 1
            /\ UNCHANGED <<primary, confirmed, pending, desired, pc, backendVars>>

\* The chunk does not arrive, or the buffered write fails half-way.
GetChunkFails == /\ Goto("download", "idle")
                 /\ got < NumChunks
                 /\ slot1' \in {slot1, slot1 \o buf, Append(slot1, Torn)}
                 /\ UNCHANGED <<primary, confirmed, pending, ramVars, backendVars>>

\* Mutant: the last block is not flushed.
FlushForgotten == /\ got = NumChunks
                  /\ Goto("download", "finish")
                  /\ UNCHANGED <<slotVars, ramVars, backendVars>>

\* download_complete, then the last block is flushed.
FlushSlot == /\ got = NumChunks
             /\ Goto("download", "finish")
             /\ slot1' = slot1 \o buf
             /\ buf' = <<>>
             /\ UNCHANGED <<primary, confirmed, pending, desired, got, backendVars>>

FlushFails == /\ got = NumChunks
              /\ Goto("download", "idle")
              /\ slot1' \in {slot1, Append(slot1, Torn)}
              /\ UNCHANGED <<primary, confirmed, pending, ramVars, backendVars>>

\* firmups_sdk_firmware_download_finish judges what is in the slot already.
DownloadFinish == Jump("finish", "request")
DownloadFinishFails == Jump("finish", "idle")

RequestUpgrade == /\ Goto("request", "rebooting")
                  /\ pending' = TRUE
                  /\ UNCHANGED <<primary, confirmed, slot1, ramVars, backendVars>>

\* The result of boot_request_upgrade is ignored: the board reboots anyway.
RequestUpgradeFails == Jump("request", "rebooting")

----------------------------------------------------------------------------
(* The reboot and the rest of the world                                    *)

Reset == /\ BootSlots
         /\ pc' = "boot"
         /\ desired' = 0 /\ got' = 0 /\ buf' = <<>>
         /\ UNCHANGED backendVars

Reboot == pc = "rebooting" /\ Reset
PowerLoss == pc # "rebooting" /\ Reset

SetTarget == /\ target' \in 0..MaxVersion
             /\ UNCHANGED <<slotVars, ramVars, pc, reported>>

Next == \/ InitializeFails \/ InitializeConfirmed \/ ConfirmImage \/ ConfirmFails
        \/ InformBackend \/ InformLost
        \/ PressButton \/ ConnectFails \/ UseCachedTarget \/ FetchTarget \/ FetchFails
        \/ NotRequired \/ EraseSlot \/ EraseSlotFails
        \/ DownloadInit \/ DownloadInitFails \/ GetChunk \/ GetChunkFails
        \/ FlushSlot \/ FlushFails \/ DownloadFinish \/ DownloadFinishFails
        \/ RequestUpgrade \/ RequestUpgradeFails
        \/ Reboot \/ PowerLoss \/ SetTarget

Spec == Init /\ [][Next]_vars

----------------------------------------------------------------------------
(* Properties                                                              *)

Positions == {"boot", "report", "idle", "check", "update", "erased", "download",
              "finish", "request", "rebooting", "halted"}

\* Types of the variables; the counters stay within one image.
TypeOK == /\ SlotTypeOK
          /\ desired \in 0..MaxVersion
          /\ got \in 0..NumChunks
          /\ buf \in Seq(Block) /\ Len(buf) <= 1
          /\ pc \in Positions
          /\ target \in 0..MaxVersion
          /\ reported \in 0..MaxVersion

\* Version a revert would bring back, 0 when slot1 holds no image.
FallbackVersion == IF Bootable(slot1) THEN HeaderVersion(slot1) ELSE 0

\* Version the device is sure of: a reset may take away one that is on trial.
SafeVersion == IF confirmed THEN primary ELSE FallbackVersion

\* Although slot1 is erased before the download starts, the image that a trial
\* falls back to is whole until the trial is confirmed.
FallbackIntact == ~confirmed => /\ Bootable(slot1)
                                /\ HeaderVersion(slot1) <= primary

\* When an upgrade is requested, slot1 holds every block of the image the backend
\* asked for, in order, and nothing of the downloads that failed before.
StagedExactly == pending => /\ slot1 = Image(desired)
                            /\ primary < desired

\* What the backend was told is at most the confirmed version.
ReportedNotOnTrial == reported <= SafeVersion

\* No step takes the device behind a version it was sure of, and the backend never
\* sees it go back, not even when the owner asks for an older version: neither a
\* reset in the middle of an update, nor a revert, nor a report that comes late.
OnlyForward == [][SafeVersion' >= SafeVersion /\ reported' >= reported]_vars

\* The updater keeps the promises of ABUpdate.
AB == INSTANCE ABUpdate WITH running  <- primary,
                             trial    <- ~confirmed,
                             fallback <- IF confirmed THEN 0 ELSE FallbackVersion
ABSpec == AB!Spec
==============================================================================
