# TLA+ models of the FIRMUPS Zephyr firmware

This directory models the update logic of the firmware under `firmware/`: how a
device learns that a newer image is wanted, fetches it, stages it in the second
image slot, lets MCUboot swap it in on trial, confirms it and reports it, while
calls fail, links break, the power goes and the owner of the device changes
his mind. The modules are checked with TLC on small instances and the safety
properties are proved with TLAPS for every value of the constants.

Paths below are relative to `firmware/src/`.

## 1. The system

| component | source | state it keeps | operations | interacts with |
|---|---|---|---|---|
| main, firmware_check | `main.c` | `fw_u_c` | start-up; one check per press | updater, button, LED |
| updater, staged in a file | `application/stm32h573i/firmware_updater.c`, `application/frdm_rw612/firmware_updater.c` | context (running and desired version), the file `update.bin`, slot1, the image-ok flag | initialize, update_available, update_firmware, write_firmware_to_secondary_slot | SDK, file system, flash, MCUboot |
| updater, streamed into slot1 | `application/nrf5340dk/firmware_updater.c` 304-506 | context, slot1, the image-ok flag, the buffered flash writer | the same without a file | SDK, Bluetooth central, flash, MCUboot |
| Bluetooth central | `application/nrf5340dk/firmware_updater.c` 39-302 | `ble_conn`, characteristic handles, `response_sem`, `ble_ready_sem`, the response buffer | scan_and_connect, ble_send_data, disconnect; scan, connection, discovery and notification callbacks | Bluetooth host (callbacks in its receive thread), SDK (callback `send_data`) |
| append | `driver/common/filesystem.c` | the open file, `written_total` | filesystem_append_bytes | file system |
| buttons | `driver/stm32h573i/button.c`, `driver/frdm_rw612/button.c`, `driver/nrf5340dk/button.c` | delayable work, on nRF a semaphore and a thread | interrupt, debounced handler, init | runs `firmware_check` on the system work queue, on nRF in a thread of its own |
| LEDs, fatal_error | `driver/*/led.c`, `application/common/fatal_error.c` | blink bits, a thread, the pins | led_initialize, blink_start, blink_end, blink_red_led_forever | main |
| UDP client | `udpclient.c` | a socket for the length of a call | udp_send_data | sockets, SDK (callback `send_data`) |
| simulated updater | `application/native/firmware_updater.c`, `driver/native/button.c` | context, a file nobody reads | initialize, update_available, update_firmware; the shell command for the button | SDK, UDP client, file system |
| Wi-Fi start | `application/frdm_rw612/wifi_connect.c` | nothing | one request at boot | network stack |
| outside the repository | FIRMUPS SDK, FIRMUPS Bluetooth gateway, MCUboot, Zephyr | | | |

What is hard about it:

- **crashes**: the power may fail between any two calls, and the next boot goes
  through MCUboot with whatever the slots hold. File, slots and flags survive,
  RAM does not;
- **partial failure**: nearly every call has an error path of its own, several
  results are discarded (`fs_unlink`, `fs_sync`, `fs_close`,
  `boot_request_upgrade`, `led_initialize`, the result of `button_init`);
- **interleaving** (nRF): two threads share static variables without a lock and
  meet in two binary semaphores; `ble_conn` is read twice per use. A button
  contact bounces against a timer, a work queue and a thread;
- **an unreliable network** (native): datagrams are lost, doubled, late and out
  of order, also across calls and restarts of the simulator;
- **timeouts**: 5 s for a connection, 5 s for an answer, and what happens when
  the event comes just afterwards;
- **stale state**: the desired version is kept in RAM between checks.

What makes each component right:

- updaters: an image runs on trial before it is kept, the image it replaced can
  be brought back until then, the running version goes down only that way; only
  a complete image of the version the backend asked for is requested; the
  backend is never told a version that may still be taken back; a device ends
  up at the version its backend settles on;
- Bluetooth central: an answer belongs to its request; a connect that waited
  ends with a usable gateway; a session stays on its link; the host is given what it
  asserts (which the code does not ensure in the moments `Gentle` names); the
  connection object is referenced by those who use it; after faults, service resumes;
- append: the file is a prefix of the download, success means durable, every
  exit closes the file, the call returns; for its caller it is one step;
- buttons, LEDs, start: a press is answered by a check, and by no more than one,
  however the contact bounces and whatever the queue is doing; somebody who
  presses gets a check or sees the red lamp;
- the nRF board as a whole: whatever link, gateway and power do, the updater
  sees exchanges that work or fail, and ends up at the version its owner wants;
- UDP client: an answer belongs to its request, every exit closes the socket;
- simulated updater: the backend is told of a version before the device runs it
  as its own; it converges as the others do.

`PROJECT.json` lists the hazards at their lines with the properties that watch
them.

## 2. The modules

| module | models | composed with |
|---|---|---|
| `Mcuboot` | two slots, image-ok flag, upgrade request, and the boot step | extended by both updaters |
| `ABUpdate` | what a device promises its owner; the abstract specification | implemented by both updaters |
| `StagedUpdater` | stm32h573i and frdm_rw612, with `main.c` | `Mcuboot`, refines `ABUpdate` |
| `StreamUpdater` | updater of nrf5340dk, with `main.c` | `Mcuboot`, refines `ABUpdate` |
| `BleCentral` | transport of nrf5340dk, check thread and callbacks | |
| `NrfDevice` | the nrf5340dk board: updater, transport, button between checks | `StreamUpdater` and `BleCentral`, by joint steps |
| `FileAppend` | `filesystem_append_bytes`, one file system call per step | implements `ChunkFile` |
| `ChunkFile` | what the download loop relies on: a call is one step; abstract | |
| `Button` | contact, interrupt, debouncing and the start of the check, on all three boards | |
| `Led` | lamps, blink bits, blink thread | |
| `FrontPanel` | `main()` up to the button, `fatal_error`, the person at the device | extends `Button` and `Led` |
| `UdpClient` | `udp_send_data` and the network | |
| `SimUpdater` | the simulated board, one exchange of the SDK a call of `udp_send_data` | extends `UdpClient` |
| `MC*` | modules TLC is started on; constants are in the `.cfg` files | |
| `*Proofs` | theorems and their proofs (`ButtonProofs` also those of `FrontPanel`, `SimProofs` also those of `UdpClient`) | |

**Time and steps.** A step of an updater is the piece of code between two
points at which the power can fail or a call can return an error; `pc` names
the point. An action that ends in `Fails` is the error return of the calls of
its step, with every outcome a failed flash or file operation may leave (nothing
done, done, or half a block, `Torn`). A power loss *during* a call is that
failing action followed by `PowerLoss`. A reset is one step: RAM is cleared,
MCUboot acts, `main` starts.

**Images.** A version is a number, an image a sequence of `NumChunks` blocks
`<<version, index>>`. MCUboot takes the size from the header at the start of the
slot and ignores what follows, so `Bootable` looks at the first `NumChunks`
blocks; a signature is "all blocks of one version, in order, none torn". A chunk
of the SDK, a block of the file and a block of the buffered flash writer are one
unit each. The writer keeps one block in RAM (`buf`) until the next one or the
flush.

**The two staging boards** run the same code; where they differ the model takes
the union: `InitializeFails` and `DownloadInitFails` stand for the extra calls
of frdm_rw612 (gateway initialisation, opening slot1), and the entries of
`PROJECT.json` point at whichever file shows the step best. The percentage log
and the extra `fs_stat` of frdm_rw612 change nothing but what can fail.

**MCUboot** (external) follows `sysbuild.conf` (swap using scratch) and
`sysbuild/mcuboot.conf` (downgrade prevention): a request is honoured when slot1
holds a valid image that is not older; an image on trial that was not confirmed
is swapped back; otherwise the slots stay. An interrupted swap is resumed by
MCUboot, hence one step.

**The SDK and the backend** (external): a download delivers chunks 1 to
`NumChunks` of the version it was initialised for, or fails at any of them.
`target` is what the backend wants, `reported` what it was last told; an owner
changes `target` at any time, downwards too when `TargetRollback` is set.

**BleCentral.** `pc` is the position of the thread that runs the check (or of
`main`, for the report after an update); every callback is one step, since the
Bluetooth receive thread has the higher priority (`driver/nrf5340dk/button.c`
37-41). Each read of `ble_conn` is a step of its own, because a callback may come
in between: `SendPrepare`/`SendWrite`, `SeeLink`/`Disconnect`. The host is
external: it owns a reference on the connection object from `bt_conn_le_create`
until it has reported failure or disconnection, drops what is on its way when a
link ends, and starts a new connection with an object of its own. It asserts what
it is given (`CONFIG_ASSERT=y` in `prj.conf`): a NULL connection, a zero handle and
a reference dropped below zero, as after every failed attempt (`ConnectFailed`),
stop the board; position `crashed`, from which only a reset leads. `subscribed`
says that `bt_gatt_subscribe` has sent its request, which is when the waiting
thread is told; the gateway may refuse it afterwards (`SubscribeRefused`), and then
nothing it has to say comes over this link. The SDK
refuses an answer that does not belong to the request. `late` counts answers to
requests that were given up and that the gateway will still send.

**NrfDevice** makes one board of the two models of nrf5340dk. The thread of the
check is in both: in the updater while the transport has a session, in the
transport while the updater waits for a connection or for the SDK. Its steps are
therefore steps of one (`InUpdater`, `InCentral`), or joint steps where
`scan_and_connect` or a call of the SDK returns: the transport takes the answer
and the updater does what the success or the failure of that call makes it do.
A call of the SDK that needs the backend is one exchange (`Asking` names the
places); `MoreExchanges` lets it be several. A reset is one step of the updater
and clears everything of the transport; a board that an assertion stopped takes no
other step. Overdue answers are left out here: `Ble_late` shows that after one of
them nothing works any more.

**Button.** A contact bounces for less than the 25 ms of `DEBOUNCE_MS`, and the
finger stays longer than the bounce it causes: assumptions about a person and a
switch. `timer` distinguishes a deadline that the current bounce has set
(`fresh`) from one that has 25 ms of rest behind it, or before it (`old`), and
only an `old` one expires. `ownThread` is chosen at the start: nrf5340dk gives a
semaphore to a thread; the other boards run the check in the work handler, so
that the work waits (`queued`) while a check runs. The interrupt is on the edge
to inactive, and the handler applies `GPIO_ACTIVE_LOW` to a level that
`gpio_pin_get_dt` has already corrected for it. For an ACTIVE_LOW pin the two
cancel out: the check starts when the button is released. The flag is in the
device tree of the board, outside the repository, hence the constant.

**FrontPanel.** `main` calls `led_initialize`, starts the blue lamp, initializes
the updater, and then either the button or `blink_red_led_forever`. It looks at
neither the result of `led_initialize` nor at that of `button_init`, which
returns nothing: `StartLedsFails` and `StartButtonFails` (state `deaf`) go on all
the same. `main` has a higher priority than the blink thread, so what it does
between two blocking calls is one step to the lamps. A pass of the thread goes
lamp by lamp, in any order.

**FileAppend.** The n-th unit of a download is the number n, so a file is right
when it counts 1, 2, 3 and so on. `safe` is the part a power loss cannot take.
`ChunkFile` sees whole chunks, the units of an incomplete one and whether the
download is over; between the calls it sees the file, during a call what was
there when it began. A power loss right before the return leaves a whole chunk
that no caller heard of (`PowerLossLate`), which `StagedUpdater` has as a
`GetChunk` followed by a reset.

**UdpClient and SimUpdater.** The network is a set of datagrams; taking one
leaves it there or not, so it may come again. Each carries its port and, as a
mark for the properties only, whether it belongs to the current call. The
ephemeral port of a socket is drawn anew and is not one for which a datagram is
still under way: with thousands of ports and a life time of seconds the
assumption is that of every UDP client without request numbers. A request tells
the backend what it tells when the server handles it, also when the call was
given up long before. A restart of the simulator keeps the network.

The constants that switch faults on and off are assumptions about the
environment; each run names its values, and the theorems say which of them they
need.

## 3. What is checked

| run | question | instance | states |
|---|---|---|---|
| `Staged_safe` | is what is booted, kept, copied and reported right under power loss and failing calls at every point? | 3 versions, 2 blocks, file of 4, slot of 3, rollbacks | 10 400 |
| `Staged_live` | does the device get there once faults stop, also from a file that could not be removed? | 3 versions, 2 blocks, no rollbacks, failing `fs_unlink` | 186 648 |
| `Staged_rollback` | does it get there after the backend went back once? **violated** | 3 versions, 1 block | |
| `Stream_safe` | the questions of `Staged_safe` for the board that erases first | 3 versions, 3 blocks | 2 816 |
| `Ble_gentle` | handles, tokens and links of a session, when everything else goes wrong | all faults, except in the four moments of `Gentle` | 690 |
| `Ble_rough` | references, answers and recovery, with breaking links, refused subscriptions and presses at any time | no overdue answers | 783 |
| `Ble_late` | recovery after one overdue answer: **violated** | no other fault | |
| `Ble_refs` | is every dropped reference one that is held? **violated** | failing connection attempts | |
| `Nrf` | do updater and transport keep together, and does the whole board converge? | 2 versions, 2 chunks, breaking links, failing attempts, presses at any time, no overdue answers | 60 912 |
| `Append_safe` | content, handles, durability, one step for the caller, return | chunks of 4, medium of 14 units | 132 |
| `Panel` | is every press answered, once, by a check or by the red lamp? | both kinds of board | 4 208 |
| `Native` | do late and doubled datagrams deceive the simulated board, and does it converge? | 3 versions, 2 chunks, 2 ports | 103 860 |

What the properties say:

- `FallbackIntact`: while the running image is on trial, slot1 holds a whole
  image that is not newer. No code protects slot1 explicitly; it holds because
  `initialize` confirms or reboots before `button_init` lets any press in.
- `StagedExactly`: when an upgrade is pending, slot1 holds exactly the image
  asked for, and it is newer. It needs the erase, the last flush and, on the
  staging boards, the removal of the old file.
- `OpenedFileIsImage`: the file that is opened for the copy is exactly one whole
  image of the version asked for, although it is written over many boots, by
  downloads that broke off anywhere.
- `ReportedNotOnTrial`: what the backend was told is at most the version that a
  reset at this moment would leave running (`SafeVersion`).
- `OnlyForward`: no step takes the device behind its `SafeVersion`, and what the
  backend was told never goes down: neither a reset in the middle of an update,
  nor a revert, nor a late report, nor an owner who asks for an older version.
- `ABSpec`: each updater, seen through `running <- primary`,
  `trial <- ~confirmed`, `fallback <-` the version in slot1 during a trial,
  implements `ABUpdate`: install on trial, confirm, revert, report.
- `Converges`: if from some point on the backend wants v and nothing fails, the
  device reaches v or newer, unless it blinks red after a failed
  initialisation.
- `RefsBalanced`, `RightAnswer`, `Recovers`: see `BleCentral`. `Recovers` says that
  requests are answered again and again once nothing goes wrong; a board that the
  host's assertion stopped, after a failed attempt for instance, counts as recovered
  by its reset. `RightAnswer` is about answers that are not overdue.
- `ReadyMeansSubscribed`: a connect that waited is on a link that was subscribed.
  `WriteHasHandle`: what `scan_and_connect` calls ready has a known characteristic.
  `OneLinkPerSession`: a session whose link breaks is put on no other link, which
  would not be discovered. All three are checked and proved for an environment that
  is `Gentle`: they are about what the code's own leftovers (a scan, an attempt, a
  token, a late discovery) can do, and false when a check starts while the link still
  changes.
- `UpdateInSession`: an update never outlives its session, and a request under way is
  one the updater waits for.
  `Converges` there starts from everything that link faults, resets and failed
  updates leave behind in the host, in RAM and in slot1.
- `InOrder`, `NoHandleLeak`, `SuccessIsDurable`, `Returns`: see `FileAppend`.
  `ImplementsChunks`: its steps are those of `ChunkFile` or unseen.
- `NoPressForgotten`: with the button at rest and nothing scheduled, no release
  is unanswered. `PressOnce`: on the board with its own thread a bounce asks for
  no second check. (On the other boards an edge that arrives while a check runs
  may cause one more check, which finds nothing to do.)
- `Answers`: a person who presses again and again gets checks again and again, or
  sees the red lamp blink alone. Two exceptions are in the property because they
  are in the code: a button that fails to initialize, and lamps that fail together
  with the updater; neither shows anything.
- `OwnAnswer`, `NoSocketLeak`, `ToldFirst`: see `UdpClient` and `SimUpdater`.
  `ToldFirst` fails as soon as an answer to another request passes for the one to
  the report.

**The three violations** are disagreements between the code and what it says of
itself; `PROJECT.json` quotes the lines.

1. `Staged_rollback`: `firmware_update_available` tests `!=` where its other
   branch tests `<`; after a rollback request it returns true for ever without
   fetching, and nothing is ever updated until a reset.
2. `Ble_late`: `response_sem` is not reset before a request; one overdue answer
   shifts all later ones.
3. `Ble_refs`: after a failed attempt `connected_cb` drops a reference that
   `scan_cb` dropped before; when the host then drops its own, its assertion stops
   the board.

More weaknesses are kept as assumptions and are hazards in `PROJECT.json`: an `fs_unlink` that fails unnoticed
(`UnlinkFaults`: old data and the new image are concatenated), a failing
`fs_sync` whose result is discarded (`SyncFaults`), and a press while a
discovery runs, which writes with handle 0 (`EagerPress` and a check that is not
`Gentle`). Without the assumption, `OpenedFileIsImage`, `SuccessIsDurable` and
`WriteHasHandle` are false. Two more are not assumed away but are the code's:
`ble_conn` is read twice per use (`NeverCrashes` is false, see `CrashWindows`), and
the pointer to the response buffer is not cleared when its owner returns; what an
overdue notification then overwrites is outside the model.

**Bounds.** Three versions are the running one, the one asked for and one asked
for meanwhile; two blocks are the least for which "first block without the
second" exists, three (`Stream_safe`) for which a hole in the middle does. A
file of 4 blocks holds two images, an old one and a new one, and is longer than
the slot of 3, so both limits are met. `MaxLate` is 2: a second overdue answer
can be under way while the first one is taken. Chunks of 4 units allow three
partial writes before the last one; a medium of 14 fills in the middle of the
fourth chunk. `Staged_rollback` uses one block: its question is about versions
only. `Nrf` has two versions: on this board a third one adds an owner who
changes his mind during an update, which `Stream_safe` covers for the updater;
with three versions the run has 318 872 states and the same result, in about
five minutes. Two ports are the least with which a socket can have another port
than a datagram under way; when datagrams for both are under way, no socket can
be opened until one is gone. Three versions in `Native` are the one at the start,
one that was reported and lost, and one asked for afterwards. `Button` and
`FrontPanel` have no bound: their state is finite.

**Fairness.** `StagedUpdater!FairSpec`: the thread goes on (`Progress` are the
steps in which calls do what they are meant to do; nothing else of the
application competes with it, and every wait in it has a limit) and somebody
presses the button again and again. Nothing is assumed of faults; `Converges`
speaks of behaviours in which they stop. `BleCentral!FairSpec`: both threads
run, the host delivers its callbacks, and the button is pressed again and again;
a wait ends by its semaphore or, when that cannot be given any more, by its
limit. `FileAppend!FairSpec`: the calling thread goes on, and a `fs_write` that
makes no progress ends the call. `NrfDevice!FairSpec`: weak fairness of the
thread, of the callbacks and of the presses, as for its parts.
`FrontPanel!FairPanel`: `main`, the blink thread and the work queue run, and a
check returns (weak fairness: each stays possible until it is done); a contact
comes to rest and, now and then, the button is left alone until the 25 ms are
over (strong fairness: a bounce and the next press make them impossible for a
while). Without the latter a person who never waits 25 ms would move the
deadline for ever. `SimUpdater!FairSpec`: weak fairness of the thread, of the
delivery of what is under way, and of the shell command; losses are faults and
stop in the behaviours `Converges` speaks of. Safety properties use no fairness.

**Deadlock** is checked in every passing run but `Ble_rough`, `Nrf` and
`Native`. In the first two an assertion of the host can stop the board until it is
reset, in the last a failed initialisation ends the program; `Recovers` and
`Converges` exclude any other standstill there. A halted updater of `StagedUpdater` or
`StreamUpdater` is not a deadlock: it can still be reset.

**Mutants.** The operators marked "Mutant" stand next to the action they
distort: a forgotten flush, an unchecked flag, a skipped erase of a token, a
reference that is not dropped. Each property of a passing run fails under one.

## 4. What is proved

All theorems hold for every value of the constants, under the assumptions
declared with them (`ImageAssumption`, `StagedAssumption`, `BleAssumption`,
`AppendAssumption`, `ButtonAssumption`, `NrfAssumption`, `SimAssumption`: sizes are natural numbers, an image fits in file and slot)
and the extra one stated in the theorem.

| module | theorem | extra assumption |
|---|---|---|
| `StagedUpdaterProofs` | `TypeCorrect`, `FallbackSafe`, `ReportSafe`, `ForwardSafe` (`OnlyForward`), `ImplementsABUpdate`, `CheckEnds`, `RollbackSticks` | |
| | `StagedSafe` (`StagedExactly`), `FileSafe` (`OpenedFileIsImage`) | `UnlinkFaults = FALSE` |
| `StreamUpdaterProofs` | `TypeCorrect`, `FallbackSafe`, `ReportSafe`, `ForwardSafe`, `ImplementsABUpdate`, `StagedSafe`, `CheckEnds`, `RollbackSticks` | |
| `BleCentralProofs` | `TypeCorrect`, `RefsSafe` | |
| | `AnswerSafe` (`RightAnswer`) | `LateAnswers = FALSE` |
| | `RefsOwnedSafe` (`RefsOwned`) | `ConnectFaults = FALSE` |
| | `ReadyWindow` (`ReadyMeansSubscribed`) | the link does not break during the wait |
| | `CrashWindows` (`NeverCrashes`, `WriteHasHandle`), `SessionKeepsLink` (`OneLinkPerSession`), `ReadyGentle` (`ReadyMeansSubscribed`) | steps are `Gentle` |
| | `ReadySafe` (`ReadyMeansSubscribed`) | `LinkFaults = FALSE` |
| `FileAppendProofs` | `TypeCorrect`, `FileInOrder`, `HandlesSafe`, `CallEnds` | |
| | `DurableSafe` (`SuccessIsDurable`), `AppendImplements` (`ImplementsChunks`) | `SyncFaults = FALSE` |
| `NrfProofs` | `UpdateSafe` (`UpdateInSession`), `BoardSafe`, `BoardForward`, `BoardTransportSafe`, `BoardCheckEnds` | |
| | `BoardCrashWindows` | steps are `Gentle` |
| `ButtonProofs` | `TypeCorrect`, `HaltedRed` | |
| | `PressSafe` (`NoPressForgotten`), `OnceSafe` (`PressOnce`), `PanelSafe` (both, for `FrontPanel`) | `ActiveLow` |
| | `DeafWhenActiveHigh` | `~ActiveLow` |
| `SimProofs` | `TypeCorrect`, `SocketSafe` (`NoSocketLeak`), `OwnAnswerSafe` (`OwnAnswer`), `ToldSafe` (`ToldFirst`), `ForwardSafe`, `CheckEnds`, `RollbackSilences` | |

**The updaters.** `FallbackIntact` is not inductive: one has to know *where* a
thread on trial can be. The invariant `IInv` adds that `confirmed` is false only
at `boot` and `rebooting` (`TrialInv`), that a request is pending only at
`rebooting`, or what a reset left of it (`PendingInv`), that the desired version
at an update is newer (`GoalInv`), and what was told (`ToldInv`). A reset is the
step that needs an argument: a bootable pending image makes the old primary the
fallback, whole by `ImageBootable` (`McubootProofs`). `StagedExactly` needs a
second invariant, `StageInv`, that says for each position what file, slot and
buffer hold: during the copy, slot1 followed by `buf` is the first `rd` blocks of
the file, and the file is the first `got` blocks of the image; `PrefixAppend`
does the sequences. The refinement follows action by action from `IInv`: a
reset is `Install`, `Revert` or a stutter, every other step `Confirm`, `Report`
or a stutter. `OnlyForward` follows from the same invariant: a reset swaps the
slots, and what it leaves running is the `SafeVersion` of before or newer.

**BleCentral.** `RefsInv` adds that `ble_conn` is set exactly while the link is
up. `AnswerInv` says that `response_sem` is given only to the thread that waits
for this very answer and that nothing is on its way at other times: exactly what
an overdue answer breaks. `ReadyInv` says that a thread that looks for the
gateway is not waiting for its own disconnect. `WindowInv`, for `CrashWindows`,
says where link, discovery and scan can be for each position of the thread. It is
kept by every step that is `Gentle`, which names the four moments in which the
environment must hold still: a check starts on a settled link, the link does not
break between two reads of `ble_conn`, a discovery that fails has found the
characteristic, and an attempt to connect does not fail. Each of the four is needed:
TLC finds a crash or a zero handle when one of them is dropped. So everything else
may happen, broken links at all other times included. The same invariant gives
`SessionKeepsLink` and, with one conjunct more, `ReadyGentle`. `CrashStays` says that
nothing moves once the board is stopped.
Lemmas on what a step leaves alone
(`TouchConnection`, `TouchAnswer`, `TouchReady`) spare each invariant the actions
that do not concern it.

**FileAppend.** `PlaceInv` says where the file is positioned and that its length
is `done * ChunkSize + written`; a write then continues the count
(`WrittenInOrder`). The refinement of `ChunkFile` needs `SuccessIsDurable` (a
power loss leaves at least the chunks of successful calls) and `CutInv`: a
download that was given up ends within the chunk that was being appended, and if
that chunk is complete nevertheless, the medium has it. `DivMod` and `Within` do
the arithmetic of chunks.

**NrfDevice.** The module is built so that each step of the board is a step of the
updater or leaves its variables alone, a joint step containing the updater's action
whole; the lemma `ImplementsUpdater` says so and carries the theorems of
`StreamUpdaterProofs` over to the board (`BoardSafe`, `BoardForward`). The other
half is `StepImplementsCentral`: each step of the board is a step of `BleCentral`,
leaves it alone, or is a reset, after which it is as at a start. So the invariants
of `BleCentralProofs` hold on the board with resets at any time (`CentralAlways`),
and with them `BoardTransportSafe` and `BoardCrashWindows`.
`UpdateSafe` rests on `PlaceInv`, the pairs of positions in which the thread can
be in updater and transport at the same time.

**Button.** `RestInv` says that a settled contact is where the finger is and that
the timer cannot expire before the bounce of a release has settled: so a deadline
that expires reads the pin as the finger left it, and `NoPressForgotten` is kept
by every step. `OnceInv`, for `PressOnce`, says that on a board with a thread a
bounce or a deadline of a released button, and a deadline from before the
present bounce, stand for an unanswered release. `DeafWhenActiveHigh` says what
is left on a pin without `GPIO_ACTIVE_LOW`: while the contact rests, a release is
answered only when the button is down again.

**UdpClient and SimUpdater.** `PortInv` says that during a call every datagram
for its port is one of this call; it is kept because a new socket takes a port
without datagrams and no datagram changes its port. `SaidInv` says that the
datagrams of this call carry what the updater tells now, and that the backend
was told what any answer carries.

**Ends.** `CheckEnds`, `BoardCheckEnds` and `CallEnds` are the half of liveness
that needs no fairness. A rank that is bounded in every state goes down with each
step of the thread, faults included: no error path leads back to where a check
has been, for images and files of every size. Only a press, a reset and (where an
exchange is modelled) an SDK that asks again raise it; callbacks, datagrams, the
link and the owner leave it, or stop the board. On the nRF board and in the simulator the rank is
lexicographic: a step of the updater outweighs a whole exchange.

**Rollbacks.** `RollbackSticks` and `RollbackSilences` state for every instance
what `Staged_rollback` shows on one: once an older version was fetched, the board
neither writes anything nor (native) sends anything until a reset, however often
the button is pressed and whatever the owner asks for. They describe the code as
it is, and will fail to prove when it is corrected.

**After a fatal error.** `LampsInv` says that the only bit set is that of the red
lamp, so that the blink thread darkens every other lamp at its next visit,
wherever it was in its pass (`HaltedRed`).

**Only model-checked**: `Converges` (three times), `Recovers`, `Returns` and
`Answers`: liveness under fairness is out of the prover's reach. Of `Converges`
and `Returns` the ends above are proved; that the steps are taken, and that a
check which ends has brought the version, is TLC's.

## 5. What is not modelled

- The LED driver of the simulated board: log lines only. It creates its thread
  anew on every `led_blink_start`, also while the thread runs, which Zephyr
  leaves undefined (a hazard without a property).
- Wi-Fi start (`application/frdm_rw612/wifi_connect.c`): one request at boot,
  without state.
- The FIRMUPS SDK, the gateway on frdm_rw612 and Zephyr are outside the
  repository; their results are choices of the modules that call them. The
  gateway shares the SDK context with the check, and what it does with it cannot
  be seen here. An SDK that delivers chunks of size 0 for ever is excluded.
- The content of the file of the simulated board, which nobody reads.
- A pin that cannot be set while the blink thread runs; the code ignores it.
- The wording of logs, percentages, buffer sizes, the content of messages and
  keys.

## 6. Plan

Done, in this order: `Mcuboot`, `ABUpdate`, `StagedUpdater`, `StreamUpdater`,
`BleCentral`, `FileAppend`, then `Button`, `Led` and `FrontPanel`, `NrfDevice`
over `StreamUpdater` and `BleCentral`, `UdpClient` and `SimUpdater`, `ChunkFile`
under `FileAppend`; each but `Led` with its proofs.

Then the theorems about ends, rollbacks, the four moments of `Gentle` and the
board as a whole.

Left:

1. Overdue answers in `NrfDevice`, once `response_sem` is reset before a request.
2. `BleCentral` and `UdpClient` under one abstract channel, "an answer belongs to
   its request".
3. `PressSafe` and `OnceSafe` are about `ACTIVE_LOW` pins; what a driver without
   that flag still promises is only known from `DeafWhenActiveHigh`.
