# RespeQt: a verification project

RespeQt emulates the peripherals of an Atari 8-bit computer on the SIO bus:
disk drives, folders, printers, a clock, the PCLINK file server and RCL, a
device by which the Atari controls the emulator itself. This directory models
its core in TLA+, checks the models with TLC and proves the most important
results with TLAPS. Every definition follows the C++ code; the `map` in
`PROJECT.json` gives the lines.

## 1. The system

| Part | Code | State | Operations | Talks to |
| --- | --- | --- | --- | --- |
| Device table and worker | `sio/sioworker.cpp` | `devices[256]`, `deviceMutex`, each device's number and lock, `mustTerminate`, `mPort` | `run`, `installDevice`, `uninstallDevice`, `swapDevices`, `getDevice`, `startThread`, `waitOnPort` | the port; the handlers of the devices; the window by `finished` and `statusChanged` |
| Serial port | `sio/serialport-unix.cpp` | handle, `mCanceled`, speed, the addresses in use | `open`, `close`, `cancel`, `readCommandFrame`, `readDataFrame`, `write...` | worker; window (cancel, addresses, `fileMounted`) |
| RCL | `sio/rcl.cpp` | `imageFileName`, `rclSlotNo` | commands `0x91`-`0x9C`, `gotNewSlot`, `fileMounted` | device table; window by `findNewSlot`, `mountFile` and others |
| PCLINK | `sio/pclink.cpp` | per unit: folder, parameter buffer, status; 16 descriptors | `P` and `R` of 20 functions, status; `setLink`, `resetLink`, `swapLinks` | window (links); host files |
| Main window | `ui/mainwindow.cpp` | `g_rclFileName`, the drives' widgets, start button | mount, eject, drop, save, auto-commit, sessions, start and stop | all of the above |
| Disk images | `diskimages/*` | file, sectors, modified, Happy or Chip board | `open`, `save`, `handleCommand` (read, write, format, status, ...) | worker (commands), window (save), editor |
| Disk editor | `ui/diskeditdialog.cpp`, `filesystems/*` | the image it edits, locked | insert, remove, rename of files | disk image |
| Auto-boot, cassette, recorder, smart device, printers | `sio/*`, `printers/*` | their own | `handleCommand` | worker, window |
| TNFS server | `network/*` | sessions, open files and directories | 24 requests over UDP and TCP | network only |
| Settings, dialogs, browser, widgets | `respeqtsettings.cpp`, `ui/*`, `diskbrowser/*` | options, sessions | presentation and storage | window |

Three threads of control meet. The *worker* waits for a command frame, finds
the device and calls its `handleCommand` with `deviceMutex` and the device's
lock held. The *GUI thread* runs the window's handlers; it installs and
deletes devices, saves images, and runs nested event loops in its modal
dialogs. The *Atari* is on the other end of a line without acknowledgements
of acknowledgements: it repeats what it believes lost.

What is hard: the worker changes the same table by RCL that the GUI changes by
menus; the GUI holds raw pointers to images across dialogs; signals posted by
the worker are processed inside those dialogs; PCLINK cannot tell a repeated
request from a new one; stopping the thread races with its opening the port.
The complete list, each entry with its line and the property that covers it,
is `hazards` in `PROJECT.json`.

What makes each part correct: the table and the devices agree and no deleted
device is used (device table); the thread stops when asked and comes back when
its port fails (worker); a call takes effect once, and client and server agree
about the open files (PCLINK); a mount is answered and hits the drive it was
meant for, and a file that the user mounts never replaces unsaved work without a
question (RCL and window; a mount by the Atari does not ask, see section 4); a
button leads to the image it shows (drives in the window); a boot gives back what
it took (auto-boot); a sector reads as it was written, an
image that is not marked as modified is the host file, and a revert restores
it (disk images); the reader of commands gives up on a bad line only, and a
snapshot or a replay leaves array and settings in order (port and recorder).

## 2. Modules

| Module | Models | Notes |
| --- | --- | --- |
| `DeviceTable` | `devices[]` with each device's own number, as operators | pure; used by `SioDevices` and `AutoBoot` |
| `SioDevices` | worker and GUI on one table | one action per critical section |
| `DriveButtons` | the save buttons of the drives | queued status changes, dialogs inside dialogs |
| `Drives` | what the drives promise | abstract; implemented by `SioDevices` |
| `SioThread` | life of the worker thread | start, stop, reconnect, the queued `finished()` signals |
| `PcLink` | PCLINK server, its client and the line | `P`/`R` transactions |
| `RemoteMount` | mounts from Atari and window | signals and modal dialogs |
| `AutoBoot` | booting an executable | nested dialogs; the device kept aside |
| `DiskImage` | one ATR or XFD image | commands of the Atari, saves and reverts of the user |
| `FrameReader` | the search for a command frame and its speed | extended by `SioRecorder` |
| `SioRecorder` | snapshot and replay, composed with reader, worker and window | two threads without a lock |
| `SioDevicesProofs`, `SioGuiProofs`, `SioThreadProofs`, `SioRecorderProofs`, `DiskImageProofs`, `RemoteMountProofs`, `PcLinkProofs`, `AutoBootProofs` | theorems | section 5 |
| `MCSioDevices`, `MCDriveButtons`, `MCPcLink`, `MCAutoBoot`, `MCDiskImage`, `MCSioRecorder` | instances for TLC | the other configurations use the modules directly |

**SioDevices.** `table` is `SioWorker::devices` with `m_deviceNo` of each
device and the set of live objects; `wpc`, `wno`, `wdev` are the worker's place
in `run`; `gui` is the GUI handler with its local variables: its label `pc`, the
slots, the image fetched by `ejectImage`, the one being saved, and `ask`, which
is false for a mount of RCL. What a GUI handler does without the mutex is an
action of its own, so that the worker comes between: fetching a pointer, the
dialogs (unsaved changes, a file name, a failed save), `uninstallDevice`, the
delete, the scan of the table and its publication to the port. An eject goes on
after the save its question asked for, whatever became of that: the user may
leave the file dialog (`discard`). The unmount of RCL first looks at all drives
it is to empty (`wout`) and then empties them; an editor may write in between. A
device deleted while another actor still uses it, or a null pointer used, sets
`fault`; a click on a save button may meet an empty drive here, and whether the
buttons let it is the subject of `DriveButtons`. `raced` and `stale` are history
variables: they record that the worker changed what a GUI handler had already
looked at.

**DriveButtons.** `saveAs`, `save` and `auto` are the buttons of the drives that
are enabled or checked; a drive is repainted, and its buttons with it, by
`deviceStatusChanged`, which `posted` says is in the queue. The event loop takes
it when no handler runs or when a dialog is open, so `stack` is a call stack
again. What the worker does is reduced to what it does to the drives (swap,
unmount, write, save), each of which posts to the images that are `connected`,
and it does so between any two steps of a handler. `misled` is history: a dialog
outlived the image the drive is then painted from, or the image moved before
`mountFile` had connected it. So is `refused`: an image stays modified because
the user gave no name for it.

**SioThread.** `mPort` is the port object; `wpc` the line of `run`, `gpc` that
of the GUI (`startThread`, `waitOnPort`, `processEvents`); `finished` counts
the signals on the way; `checked` is the start button.

**PcLink.** `parbuf`, `err` and `iodesc` are the server's arrays, `oldCcom` the
last command; `cpc`, `call`, `known`, `told` belong to the Atari's driver
(external, modelled from what the server expects of it): it sends `P`, then
`R`, and repeats each when the line loses a command or an answer. `SetLink`,
`ResetLink`, `SwapLinks` come from the GUI between any two commands.

**RemoteMount.** `stack` is the call stack of GUI handlers, since a signal is
taken inside the dialog of the handler below. `firstEmptyDiskSlot` emits
`newSlot` to RCL whoever called it: `NewSlot` pushes RCL's handler on the
caller. `NoName` is the request for the name `*` alone, which is refused in the
middle of the mount, with `g_rclFileName` set. A session load ejects with its questions as one action: what happens
in an eject is modelled in full for single mounts.

**Drives** has a drive as a variable that is empty or holds one image, and a
conversation of the Atari with one drive, during which nothing moves. Locks,
pointers, the order of table and device numbers, and half-done GUI handlers are
gone. The property `ImplementsDrives` of `SioDevices` is its specification with
`drive` read off the table, `unsaved` the modified images, and `busy` the address
of the worker while it has an image in hand.

**AutoBoot.** `boots` is the stack of `bootExe` calls, since the signal for
another boot is delivered inside the dialog of the first; `mnt` is a mount on
top of them; `old` is `AutoBoot::oldDevice`; `serving` is the chain of handlers
the worker is in when a loader passes a command on. The user, whom the dialog
locks out, can only end it. `raced` and `displaced` are history: the worker
changed the table while a GUI handler ran; a dialog closed after its loader had
left drive 1.

**DiskImage.** `file` is the temporary copy that the image works on, as a
sequence of blocks of 128 bytes; `geo`, `newGeo`, `pad`, `type` are the fields
by which a sector is found in it. `told` is what the Atari was told about each
sector, `layout` the type under which the sectors were laid out, `saved` how
the image read when it was last saved or opened (`warned`: the user was told
that the geometry is lost on reopening): history against which the properties
are stated. Commands and saves hold the lock of the image, so each is one
action; that they do, and where they do not, is what `SioDevices` shows. `Across`
is the content of a block that lies across two blocks of the host file: an ATR
file is taken for an XFD when the temporary file is longer than it, and its
header then shifts every block by 16 bytes. Boards
are off, as they are until the user turns one on.

**FrameReader and SioRecorder.** The reader counts missed frames (`retries`,
`total`) and turns to the other of two speeds; `noise` counts what the line or
the Atari is to blame for. The reader of the software handshake has no such
count; what it needs, the addresses in use, is `PortKnowsDevices`. In
`SioRecorder`, `data` says what the one array `mSnapshotData` was made for,
`wpc` is the worker's place in `run` and in the port's reader, down to the step
between the check of the array and the append to it. A missing array crashes
the program, and it starts again with the setting it had saved. `mixed` is
history: a replay was started beside a snapshot or another replay.

## 3. Runs

| Run | Instance | States | Shows |
| --- | --- | --- | --- |
| `devices` | 2 drives, 1 plain image, 1 folder | 634,134 | table, handler and locks stay consistent; a null or deleted image is used only if the worker interfered behind a dialog or a save button of an empty drive was clicked; unsaved work is lost only if the user gave it up, by a remote mount, which does not ask, if the worker interfered, or if an editor wrote while RCL unmounted; every GUI handler comes to its end or a dialog, or waits for an editor's lock; the drives of `Drives` are implemented |
| `drive_buttons` | 2 drives, 1 plain image, 1 folder, handlers nested up to 2 below a new one | 2,647,536 | a button that can be clicked finds an image, and shows what the drive holds, once the status changes on their way are taken and unless a dialog outlived its image; Auto-commit saves what the user has not refused to save |
| `thread` | at most 2 signals on the way | 398 | the button is truthful, the port is not replaced under the thread, a stop completes, a failed port is served again |
| `pclink` | 2 units, 1 descriptor, files of 1 byte | ~986,000 | client and server agree on handles and positions unless a failure was told; no silent leak; nothing runs twice unless the GUI relinked |
| `remote_mount` | 2 drives, 1 remote file, 1 of the user, 2 signals posted | 889,911 | the question before a file of the user replaces unsaved work; a remote mount takes a free drive if there is one; no bad drive number without RCL; every remote mount is answered |
| `autoboot` | 2 drives, 2 images, 2 loaders | ~107 s | loader, old device and table agree through nested boots, swaps and mounts; nothing is lost or dangling but after a loader was moved out of drive 1; a started program ends its boot |
| `disk_image` | 5 host files, 1 new disk, 2 formats or writes | 3,145,840 | sectors keep what was written; an unmodified image is its host file; a revert restores |
| `recorder` | 3 snapshots, 2 bad files, 6 retries | 4,793,122 | the reader gives up on noise only; a snapshot records; the setting comes back |
| `autosave` | as `devices` | violated | auto-commit saves without the lock that its comment says is not needed |
| `auto_commit` | as `drive_buttons` | violated | unmounting a disk with Auto-commit on, as the manual has it done, uses its missing image |
| `pclink_repeat` | as `pclink` | violated | a second call with equal parameters is taken for a retry |
| `remote_full` | as `remote_mount` | violated | a remote mount that found no free drive is not refused: the image of the last one goes, changes and all |

*Bounds.* Two drives are needed for a swap, for "another drive is free" and for
a drag; a third adds no handler that touches three. One plain image and one
folder are the two cases of an eject. `drive_buttons` takes the two drives for
symmetric: no handler of it prefers one, and it has invariants only. Two PCLINK units meet in a swap; one
descriptor (`MaxHandle = 0`) makes an open fail for lack of one; a file of one
byte has the positions before, at and behind its end, which `MaxPos = 2` lets
a seek reach. Two posted signals let one be processed in the dialog of the
handler that another started, and a `0x9A` be on its way while a `0x96` waits.
`MaxDepth = 2` lets the dialog of a handler be interrupted by a handler
with a dialog of its own, above a third one that waits for both. `MaxFinished` bounds only signals not yet
delivered. Two loaders are one boot inside the dialog of another; `MaxPosted =
1` lets a signal wait while another boot runs. `DiskImage` scales the standard
disks from 720 and 1040 sectors to 4 and 6: three boot sectors and one or three
more, so that every formula of the geometry, the paddings and both guesses are
met; the host files are one of each padding with wrong and right headers, and
an XFD file. `MaxChanges = 2` is a format and a write between any saves,
renames and reverts; with 3 and fewer host files nothing else was found.
`MaxRetries` is 100 in the code: 6 is three turns of the speed, and the proof is
for every number. Mutants, listed in `PROJECT.json`, show that each property fails
when the code is changed in a plausible way within the same bounds.

*View.* `MCPcLink` compares states by `View`. It drops the parameter buffer and
status of a unit between calls if the function may be repeated, since `P`
overwrites both before they are read, and the end-of-file flag between calls,
since only `R` of FREAD reads it, after its `P` has set it. No property of
the run reads what is dropped, and none is temporal.

*Fairness.* `SioDevices`: a `handleCommand` returns (weak), and the GUI is
strongly fair, because the mutex it waits for is free for the milliseconds in
which the worker waits for a frame. `SioThread`: every step of the worker and
of a GUI handler that has begun; strong fairness of a successful reopen says
that a port which is retried for ever is there at last. `RemoteMount`: the GUI
handler that runs goes on; Qt takes posted signals in turn. `AutoBoot`: a
handler returns (weak), the GUI gets the mutex (strong), and `loaderDone`
reaches its dialog whenever it is on top again and again (strong). Never of the user,
of the Atari, or of the line. `DriveButtons`, `PcLink`, `DiskImage` and `SioRecorder`
have safety properties only.

*Deadlock* is checked everywhere. A crashed program (`fault`) stutters; in
`SioRecorder` it is started again.

## 4. Where the code differs from what is said of it

- `autosave`: `mainwindow.cpp:1013` says an image saved by auto-commit needs no
  lock; the worker may be in the middle of a write to it.
- `auto_commit`: the manual has a disk unmounted by the Atari once Auto-commit is
  on. The empty drive is repainted, which unchecks the button
  (`drivewidget.cpp:258`), whose handler `autoSaveDisk` (`mainwindow.cpp:1660`)
  uses the image of the drive: a null pointer. An eject does the same.
- `remote_full`: `respeqt_protocols.typst:94` answers `0x96` with NAK when no slot is
  free. The code takes the last drive (`mainwindow.cpp:1293-1295`), deletes its image
  without a question (`mainwindow.cpp:1411-1413`), with unsaved changes if it has
  any, and answers Complete. `SparesImages` has this case as its exception.
- `pclink_repeat`: `pclink.cpp:316` calls every equal buffer a retry; a second
  `RMDIR` after the first was refused is answered with the old status.

Seen while modelling, without runs of their own:

- *Protocol and manual.* `respeqt_protocols.typst:205` has a new `P` refused before
  the last transaction is concluded; the code starts the new one
  (`pclink.cpp:293`). The manual (line 95) has the menu mount in the first
  available slot; the signal of `firstEmptyDiskSlot` fills that slot with the last
  remote file first, which the user's file then replaces (`mainwindow.cpp:1300`).
  The protocol has the answer of `0x96` tell whether the file is mounted; the second
  answer of an earlier `0x9A`, which has answered at once, may take its place
  (`rcl.cpp:473`). The models have all three.

Those below are named in the properties as exceptions, since no doc, comment or test
says otherwise:

- *Window.* A mount by the Atari ejects without a question (`mainwindow.cpp:1249`):
  `0x96` and `0x97` the last drive when all are taken, `0x9A` drive 1. After Yes to the
  question about unsaved changes, leaving the file dialog or a failed save
  loses them: `saveImageWhenClosing` does not look at the outcome. `saveDisk`,
  `saveDiskAs` and `autoSaveDisk` do not look whether the drive is empty: a
  click between an unmount by RCL and the repaint uses a null pointer, and so does
  Yes to a question about an image that RCL has unmounted meanwhile. `saveDisk`
  waits for ever for an image that is open in the editor. A drive painted from
  the image a dialog was about stays wrong (`misled`), and `deviceStatusChanged`
  saves an image without a name by Auto-commit as if it had one.
- *Auto-boot.* A remote swap, unmount or mount that takes the loader out of drive
  1 lets the closing dialog uninstall, and leak, the image that is now in drive
  1 (`displaced`). "Unmount all" leaves the device kept aside, which comes back.
  `g_exefileName` stays set after a boot that ends by itself, so that the next
  call opens the boot dialog again. The loader runs the old device's handler
  without its lock.
- *Disk images.* The temporary file is not truncated when it is reopened: after
  it has grown, a revert keeps a stale tail. A save truncates the host file
  first, and Save and Revert are enabled only while the image is *not* modified
  (`drivewidget.cpp:210`), so a save that fails can leave a destroyed host file
  under an image that is not marked. Save As sets the type before it saves:
  between ATR and XFD of double density all sectors move, also when it fails
  (`SameLayout`). A format does not reset the padding. The padding of an even
  size is guessed, wrongly if the boot sectors end in empty blocks. Disks of
  other than the standard sizes are saved without a warning, though single
  density ones are refused when they are reopened. An XFD file of odd size
  loses three sectors to the guess of `diskgeometry.cpp:77`. A revert clears
  the write protection; one that fails leaves the drive not ready, and a save
  then destroys the host file.
- *Recorder.* `isOpen` says the opposite (`siorecorder.cpp:113`). Stopping a
  replay while a frame is read, stopping a snapshot while one is recorded, and
  reconnecting after the end of a replay use the deleted array. A replay
  started beside a snapshot loses it and leaves `mSnapshotRunning` set, so that
  every later snapshot is empty; one started over another makes the recorder
  the saved port for good (`mixed`). A replay ends at the first data frame
  nobody reads.

## 5. Proofs

`SioDevicesProofs`, for all sets of drives, images and folders that satisfy
`FixedDevices` (PCLINK and RCL are two devices of their own, and the null values
are no devices or addresses): `Spec => []TypeOK`, `[]TableConsistent`,
`[]HandlerOwnsDevice`, `[]SaveExcludesHandler` and `LinksChangeOffline`.

None of these is inductive. The invariant `IInv` adds: RCL and PCLINK are at
their own addresses or out of the table, and only images are in the drives
(`Fixed`), the worker has a device exactly when it has an address (`HandlerOK`), and for each label of the GUI handler what it has in hand (`PlanOK`: the
image to be installed is live, at no address and unlocked; PCLINK is out of the
table between `unlink` and its return; the image being saved is locked by the
GUI). The proof first shows what `Uninstall`, `Delete`, `Install` and `Swap`
return on a consistent table, then one lemma per action or group of actions
that share an effect, then `NextIInv` by the disjuncts of `Next`.

`SioGuiProofs`: `GuiUsesLiveImages`, `PortKnowsDevices` and `NoSilentLoss`, for
the same constants. The handlers of the window fetch an image outside the mutex
and use it some steps later, so what they hold is an invariant of its own,
`GInv`, on top of `IInv`: the image of an eject is the one at its drive until it
is taken out, and then it is at no address and the drive is empty, and unsaved
changes it still has are given up or not asked about (`EjectHeld`); the image of
a save, of an open editor or of a repaint exists, also across the file dialog and
the failed save, and inside an eject it is the one of the eject (`SaveHeld`); the
image `mountFile` has installed exists until its drive is painted (`MountHeld`); an
image with unsaved changes exists, and the one `mountFile` just made has none
(`Clean`); the port has been told, or is about to be told, what a scan found
(`Told`). The three about images in hand (`Held`) are promised only while `raced`
is false, `Told` only while `stale` is: the worker's
swap, save and unmount from the Atari break them, as the histories record.

`SioThreadProofs`, for every `MaxFinished`: `[]TypeOK`, `[]ButtonTellsTruth`,
`PortStable`, from an invariant that ties the button to the thread's place
and the signals on the way.

The end of `SioDevicesProofs` is the refinement, `Spec => ImplementsDrives`, for the
same constants. From `IInv` the image in a drive is a function of the table;
each action is mapped to one abstract step (an install to `Insert`, an uninstall
or delete to `Remove`, a swap to `Exchange`, a dispatch to `Begin`, a return to
`End`) or to a stutter. `Exclusive` draws the conclusion: under the mapping, no
image is in two drives, and a conversation keeps its image.

`SioRecorderProofs`: `TypeOK`, `RecordingRecords`, `SettingGivenBack`,
`NoOtherCrash` and `GivesUpOnNoise`, for every set of snapshots and every number
of retries. `Books` ties port, places and setting together whatever happens;
`Alone` says whose the array is at each place of worker and window, and is kept
only while `mixed` is false, so that the invariant is `TypeOK /\ Books /\ (~mixed
=> Alone)`. For the noise, `NoiseInv` bounds the frames missed by twice the noise
plus what the reader may still need to come to the Atari's speed (`Rest`).

`DiskImageProofs`: `TypeOK` and `SectorsKept`, for every set of geometries, host
files and values, without a bound on the size. `TInv` adds that the host file is
whole blocks (`HostOK`): the XFD guess of one block is the only size at which
the code leaves the model, and the proof shows where that assumption is needed.
`Laid` says of the temporary file what `SectorsKept` says of reading it; it is
inductive because two sectors of one geometry, padding and type never overlap
(`SectorsApart`) and because a change of type either keeps every place
(`SameSeek`) or ends what was told.

For `UnmodifiedAsSaved` and `RevertRestores` the invariant is `Kept`: whatever has
happened to the image, the host file reads as what was last saved or opened, with
a header that leads to the same geometry (`Holds`, `Tells`), and the working copy
of an unmodified image equals it block for block. `Kept` does not speak of the
type of the image, since a save under another name that fails changes it. It
needs `MarksAssumption`: the values that stand for no header, no file and a refused
image are none of these. `RevertRestores` is about disks of a standard size
(`Understood`), since others come back with the geometry that opening guesses.

`RemoteMountProofs`: `TypeOK`, `NoFaultWithoutRcl`, `AskedBeforeLoss` and
`SparesImages`, for any number of drives, any files and any `MaxQueue`. A frame of
the stack goes on with what was true when it was pushed, so the invariant says of
every frame what the worker and the handlers on top of it have left of that: what
it has in hand at its label (`Fit`), that the user's handlers ask or have nothing to
ask about (`Asks`), that the drive chosen for 0x96 is empty, or the last one and
all were full (`Spares`). `Nested` says which handlers can be under which, and with it that the
stack is at most two deep; `Named` that a queued signal comes with a file name.
`FirstSlot` is what `firstEmptyDiskSlot` returns, for any table.

`PcLinkProofs`: all the safety properties of `PcLink`, for any number of units, of
files and of handles up to 254 (255 is the handle of no file). The invariant
comes in four layers. `Basic` adds to the types what call and buffers can be of;
`RInv` says that a repeated request meets the buffer it left, from which follow
`NoNullFile` and `NamesAtMostOnce`; `LInv` adds `DescriptorsLinked`; `AInv` adds
`Agree`, from which `HandlesAgree` and `NoSilentLeak` follow. `Agree` is what makes the
protocol work: while the outcome of a call is not in doubt (`Doubt`), each
descriptor is as the client thinks (`Same`) or ahead by the one seek or close
whose answer was lost (`Ahead`), and a new call that equals the last one, which the
server takes for a retry, finds its work done (`Recent`). `Recent` is about
calls not made yet: without it the invariant is not inductive, and it holds
because a read or a write replaces the buffer that a seek left.

`AutoBootProofs`: all the safety properties of `AutoBoot`, for any number of drives,
images and loaders, and so for boots nested to any depth. While no `raced` step has
come between, `Good` holds: the handler on top finds the drive as its label says
(`CallsFit`), those below it sit in their dialogs (`Nested`) and only what they keep
aside matters, which stays alive and out of the drives; no two calls keep the
same device, and a loader is kept only by a call later than its own (`Apart`),
so that closing the innermost dialog takes nothing from anybody. `MountFits`
does the same for a mount on top of them, `Served` for the chain of handlers in
which the worker is, and `Sheltered` says where each image is: in a drive, kept
aside, or in the hands of `mountFile`.

Each of these invariants was checked by TLC before it was proved. Four properties
are proved, with the others of their module, and in no run: `SaveExcludesHandler`,
`PortKnowsDevices`, `NoNullFile` and `NoOtherCrash`. With this every safety and action property of a passing run is a theorem, except those of
`DriveButtons`, and so is the refinement.

Only model-checked: liveness (`BootEnds`, `GuiCompletes`, `StopCompletes`,
`Reconnects`, `MountAnswered`), which needs fairness and `ENABLED` and is out of
this prover's reach, and the properties of `drive_buttons`. The four runs that end
in a violation are counterexamples
and need no proof.

## 6. Not modelled, and the plan

`components` in `PROJECT.json` has every part with its status. Of the earlier plan
the frame reader, the disk image, auto-boot, the recorder, the abstract drives and
the buttons are done. Left, in order:

1. an abstract file server that `PcLink` implements between calls, and its
   refinement;
2. composition of `RemoteMount` with `SioThread`: an answer after a stop;
3. the TNFS server's sessions and handles over UDP; the DOS file systems'
   allocation map;
4. the boards and the copy-protected images.

Left out for good: rendering of printers, dialogs and widgets other than the save
buttons (layout), the
6502 disassembler (a table with its own tests), the Windows port (the same
protocol over another API), paths and time stamps of PCLINK (conversions that no
property here tells apart).
