------------------------------ MODULE AutoBoot ------------------------------
(***************************************************************************)
(* Booting an executable: MainWindow::bootExe puts a loader, class         *)
(* AutoBoot, into the first drive, keeps the device that was there aside,  *)
(* and gives it back when the dialog closes.                               *)
(*                                                                         *)
(* The dialog is modal for the user but not for the Atari: the event loop  *)
(* inside it delivers the mounts and further boots that RCL commands ask   *)
(* for, and the worker swaps and unmounts drives.  Handlers of the GUI     *)
(* thread therefore nest: boots is the stack of the bootExe calls, the     *)
(* innermost last, and mnt the mountFile running on top of it, if any.     *)
(* Saves, ejects and drags of the user, whom the dialog locks out, are in  *)
(* SioDevices.                                                             *)
(***************************************************************************)
EXTENDS FiniteSets, Naturals, Sequences

CONSTANTS Slots,      \* addresses of the drives
          D1,         \* DISK_BASE_CDEVIC, the first drive
          Images,     \* disk image objects
          Loaders,    \* AutoBoot objects; their number bounds the nesting
          NoDevice, NoAddress,
          MaxPosted   \* bound: queued startBootExe signals

Address == Slots
Device == Images \cup Loaders

INSTANCE DeviceTable

ASSUME Distinct == /\ D1 \in Slots /\ Images \cap Loaders = {}
                   /\ NoDevice \notin Device /\ NoAddress \notin Address
                   /\ MaxPosted \in Nat \ {0}

VARIABLES
  table,     \* the devices at the drives
  modified,  \* SimpleDiskImage::m_isModified
  old,       \* AutoBoot::oldDevice
  boots,     \* the bootExe calls on the stack: where each is, its loader
  mnt,       \* the mountFile on top of them
  posted,    \* queued startBootExe signals
  named,     \* g_exefileName is not empty
  done,      \* the loaders whose loaderDone() is on its way to the dialog
  serving,   \* the devices in whose handleCommand the worker is, outermost first
  raced,     \* history: the worker changed the table while a handler of the GUI ran
  displaced, \* history: a dialog closed when its loader had left drive 1
  fault      \* a deleted object was used, or an object on the stack deleted

gui == <<old, boots, mnt, posted, named>>
history == <<raced, displaced, fault>>
vars == <<table, modified, old, boots, mnt, posted, named, done, serving, raced, displaced, fault>>

NoMount == [pc |-> "none", no |-> D1, disk |-> NoDevice, img |-> NoDevice]

Calls == [pc : {"uninstall", "install", "dialog", "remove", "restore", "leave"}, loader : Loaders]

TypeOK ==
  /\ table \in Tables
  /\ modified \subseteq Images
  /\ old \in [Loaders -> Device \cup {NoDevice}]
  /\ boots \in Seq(Calls)
  /\ mnt \in [pc : {"none", "get", "eject", "delete", "install"}, no : Slots,
              disk : Images \cup {NoDevice}, img : Images \cup {NoDevice}]
  /\ posted \in 0 .. MaxPosted /\ named \in BOOLEAN
  /\ done \subseteq Loaders
  /\ serving \in Seq(Device)
  /\ raced \in BOOLEAN /\ displaced \in BOOLEAN /\ fault \in BOOLEAN

\* Any images in any drives, any of them with unsaved changes.
Init ==
  /\ table \in {t \in Tables : Consistent(t) /\ t.live = {t.dev[a] : a \in Installed(t)}}
  /\ table.live \subseteq Images
  /\ modified \in SUBSET table.live
  /\ old = [l \in Loaders |-> NoDevice]
  /\ boots = <<>> /\ mnt = NoMount
  /\ posted = 0 /\ named = FALSE /\ done = {}
  /\ serving = <<>>
  /\ raced = FALSE /\ displaced = FALSE /\ fault = FALSE

Top == boots[Len(boots)]

Last == serving[Len(serving)]

OnTop(labels) == boots # <<>> /\ Top.pc \in labels

\* The GUI thread is in an event loop: the main one or the innermost dialog's.
Loop == mnt = NoMount /\ (boots = <<>> \/ OnTop({"dialog"}))

\* Nothing is promised, and the model ends, once the worker has changed the
\* table under a handler that goes on with what it knew.
Running == ~raced /\ ~fault

-----------------------------------------------------------------------------
(***************************************************************************)
(* The worker.  It holds deviceMutex from Dispatch to the return.          *)
(***************************************************************************)
\* Defect: the GUI does not wait for deviceMutex.
NoMutex == Len(serving) >= 0

MutexFree == serving = <<>>

Dispatch(a) ==
  /\ MutexFree /\ Running
  /\ table.dev[a] # NoDevice
  /\ serving' = <<table.dev[a]>>
  /\ UNCHANGED <<table, modified, done, history, gui>>

\* passToOldHandler: what the loader does not know, or leaves alone once the
\* program is loaded, goes to the old device, whose lock nobody takes.
PassToOldHandler ==
  /\ serving # <<>> /\ Running
  /\ Last \in Loaders /\ old[Last] # NoDevice
  /\ serving' = Append(serving, old[Last])
  /\ UNCHANGED <<table, modified, done, history, gui>>

\* handleCommand returns: a sector was written to an image, the loader was
\* told that the program starts (0xFD), or neither.
Return ==
  /\ serving # <<>> /\ Running
  /\ serving' = <<>>
  /\ \/ UNCHANGED <<modified, done>>
     \/ Last \in Images /\ modified' = modified \cup {Last} /\ UNCHANGED done
     \/ Last \in Loaders /\ done' = done \cup {Last} /\ UNCHANGED modified
  /\ UNCHANGED <<table, history, gui>>

\* RCL 0x94 and 0x95 as in SioDevices; a loader is no image and is only
\* taken out.
RemoteSwap(a, b) ==
  /\ MutexFree /\ Running /\ a # b
  /\ table' = Swap(table, a, b)
  /\ raced' = (raced \/ ~Loop)
  /\ UNCHANGED <<modified, done, serving, displaced, fault, gui>>

RemoteUnmount(S) ==
  /\ MutexFree /\ Running
  /\ LET out == {table.dev[a] : a \in S} \ {NoDevice}
     IN  /\ out \cap modified = {}
         /\ table' = [dev  |-> [a \in Address |-> IF a \in S THEN NoDevice ELSE table.dev[a]],
                      no   |-> [d \in Device |-> IF d \in out THEN NoAddress ELSE table.no[d]],
                      live |-> table.live \ (out \cap Images)]
  /\ raced' = (raced \/ ~Loop)
  /\ UNCHANGED <<modified, done, serving, displaced, fault, gui>>

\* bootExeTriggered, for RCL 0x9A or a file the user chooses or drops.
BootExeTriggered ==
  /\ Running /\ posted < MaxPosted
  /\ posted' = posted + 1 /\ named' = TRUE
  /\ UNCHANGED <<table, modified, old, boots, mnt, done, serving, history>>

Atari ==
  \/ \E a \in Slots : Dispatch(a)
  \/ PassToOldHandler
  \/ \E a, b \in Slots : RemoteSwap(a, b)
  \/ \E S \in {{a} : a \in Slots} \cup {Slots} : RemoteUnmount(S)
  \/ BootExeTriggered

-----------------------------------------------------------------------------
(***************************************************************************)
(* bootExe.                                                                *)
(***************************************************************************)
\* The call on top of the stack is at label l and goes on.
At(l) == Running /\ mnt = NoMount /\ OnTop({l})

Goto(l) ==
  /\ boots' = [boots EXCEPT ![Len(boots)].pc = l]
  /\ UNCHANGED <<old, mnt>>

\* Using d, or deleting e, is a fault unless d exists and e is on the heap.
Use(d, e) == fault' = (d \notin table.live \/ e \in Loaders)

\* The queued signal arrives: the old device is fetched, a loader is made
\* and opens the file, or cannot.
BootExe ==
  /\ Loop /\ Running /\ posted > 0
  /\ posted' = posted - 1
  /\ \/ UNCHANGED <<table, old, boots>>
     \/ /\ MutexFree
        /\ \E l \in Loaders \ table.live :
             /\ table' = [table EXCEPT !.live = @ \cup {l}]
             /\ old' = [old EXCEPT ![l] = table.dev[D1]]
             /\ boots' = Append(boots, [pc |-> "uninstall", loader |-> l])
  /\ UNCHANGED <<modified, mnt, named, done, serving, history>>

UninstallOld ==
  /\ At("uninstall") /\ MutexFree
  /\ table' = Uninstall(table, D1)
  /\ Goto("install")
  /\ UNCHANGED <<modified, posted, named, done, serving, history>>

\* installDevice deletes what the worker may have put there meanwhile.
PutIn(d, l) ==
  /\ MutexFree
  /\ table' = Install(table, D1, d)
  /\ modified' = modified \ {table.dev[D1]}
  /\ Use(d, table.dev[D1])
  /\ Goto(l)
  /\ UNCHANGED <<posted, done, serving, raced, displaced>>

InstallLoader == At("install") /\ PutIn(Top.loader, "dialog") /\ UNCHANGED named

\* Defect: the signal counts only while the loader is in drive 1.
LoaderDoneInPlace ==
  /\ At("dialog") /\ Top.loader \in done /\ table.dev[D1] = Top.loader
  /\ Goto("remove")
  /\ UNCHANGED <<table, modified, posted, named, done, serving, history>>

\* The dialog ends: reload keeps g_exefileName, close clears it; loaderDone
\* accepts the dialog, which sends no close event and so keeps the name.
UserEnds ==
  /\ At("dialog")
  /\ named' \in {named, FALSE}
  /\ Goto("remove")
  /\ UNCHANGED <<table, modified, posted, done, serving, history>>

LoaderDone ==
  /\ At("dialog") /\ Top.loader \in done
  /\ Goto("remove")
  /\ UNCHANGED <<table, modified, posted, named, done, serving, history>>

\* Defect: the drive is left with the loader, for its destructor to clean up.
RemoveNothing ==
  /\ At("remove") /\ MutexFree
  /\ Goto("leave")
  /\ UNCHANGED <<table, modified, posted, named, done, serving, history>>

Remove ==
  /\ At("remove") /\ MutexFree
  /\ table' = Uninstall(table, D1)
  /\ displaced' = (displaced \/ table.dev[D1] # Top.loader)
  /\ Goto(IF old[Top.loader] = NoDevice THEN "leave" ELSE "restore")
  /\ UNCHANGED <<modified, posted, named, done, serving, raced, fault>>

Restore == At("restore") /\ PutIn(old[Top.loader], "leave") /\ UNCHANGED named

\* Defect: ~AutoBoot without ~SioDevice, the loader stays where it is.
LeaveInstalled ==
  /\ At("leave")
  /\ posted' = IF named /\ posted < MaxPosted THEN posted + 1 ELSE posted
  /\ table' = [table EXCEPT !.live = @ \ {Top.loader}]
  /\ boots' = SubSeq(boots, 1, Len(boots) - 1)
  /\ done' = done \ {Top.loader}
  /\ UNCHANGED <<modified, old, mnt, named, serving, history>>

\* bootExe returns, asking for the next boot while a name is left; ~SioDevice
\* takes the loader out of the drive it may have been moved to.
Leave ==
  /\ At("leave")
  /\ MutexFree \/ table.no[Top.loader] = NoAddress
  /\ posted' = IF named /\ posted < MaxPosted THEN posted + 1 ELSE posted
  /\ table' = Delete(table, Top.loader)
  /\ fault' = (Top.loader \notin table.live)
  /\ boots' = SubSeq(boots, 1, Len(boots) - 1)
  /\ done' = done \ {Top.loader}
  /\ UNCHANGED <<modified, old, mnt, named, serving, raced, displaced>>

-----------------------------------------------------------------------------
(***************************************************************************)
(* mountFile of a remote mount, which asks nothing, delivered by the event *)
(* loop.                                                                   *)
(***************************************************************************)
MountAt(l) == Running /\ mnt.pc = l /\ UNCHANGED <<old, boots, posted, named, done, serving>>

BeginMount(no, d) ==
  /\ MountAt("none") /\ Loop
  /\ d \notin table.live
  /\ table' = [table EXCEPT !.live = @ \cup {d}]
  /\ mnt' = [NoMount EXCEPT !.pc = "get", !.no = no, !.disk = d]
  /\ UNCHANGED <<modified, history>>

\* Defect: whatever is in the drive is taken for an image.
GetImgUncast ==
  /\ MountAt("get") /\ MutexFree
  /\ mnt' = [mnt EXCEPT !.pc = "eject", !.img = table.dev[mnt.no]]
  /\ UNCHANGED <<table, modified, history>>

GetImg ==
  /\ MountAt("get") /\ MutexFree
  /\ mnt' = [mnt EXCEPT !.pc = "eject",
                        !.img = IF table.dev[mnt.no] \in Images THEN table.dev[mnt.no] ELSE NoDevice]
  /\ UNCHANGED <<table, modified, history>>

Eject ==
  /\ MountAt("eject") /\ MutexFree
  /\ table' = Uninstall(table, mnt.no)
  /\ mnt' = [mnt EXCEPT !.pc = IF mnt.img = NoDevice THEN "install" ELSE "delete"]
  /\ UNCHANGED <<modified, history>>

DeleteImg ==
  /\ MountAt("delete")
  /\ MutexFree \/ table.no[mnt.img] = NoAddress
  /\ table' = Delete(table, mnt.img)
  /\ modified' = modified \ {mnt.img}
  /\ Use(mnt.img, NoDevice)
  /\ mnt' = [mnt EXCEPT !.pc = "install"]
  /\ UNCHANGED <<raced, displaced>>

InstallDisk ==
  /\ MountAt("install") /\ MutexFree
  /\ table' = Install(table, mnt.no, mnt.disk)
  /\ modified' = modified \ {table.dev[mnt.no]}
  /\ Use(mnt.disk, table.dev[mnt.no])
  /\ mnt' = NoMount
  /\ UNCHANGED <<raced, displaced>>

Gui ==
  \/ UninstallOld \/ InstallLoader \/ LoaderDone \/ Remove \/ Restore \/ Leave
  \/ GetImg \/ Eject \/ DeleteImg \/ InstallDisk

Events == BootExe \/ UserEnds \/ \E no \in Slots, d \in Images : BeginMount(no, d)

Ended == ~Running /\ UNCHANGED vars

Next == Atari \/ Return \/ Gui \/ Events \/ Ended

(***************************************************************************)
(* A command ends; the GUI gets the mutex between two commands, and of the *)
(* queued signals loaderDone is not overtaken by mounts for ever.  Nothing *)
(* is assumed of the user and of the Atari.                                *)
(***************************************************************************)
Fairness == WF_vars(Return) /\ SF_vars(Gui) /\ SF_vars(LoaderDone)

Spec == Init /\ [][Next]_vars /\ Fairness

-----------------------------------------------------------------------------
(***************************************************************************)
(* Properties.                                                             *)
(***************************************************************************)
\* Whatever the Atari swaps, unmounts, mounts or boots while dialogs are
\* open, the drives hold only devices that exist, no loader outlives its
\* call, and no object is used or deleted that may not be, unless the worker
\* changed the table while a handler of the GUI ran.
BootKeepsTable ==
  ~raced => /\ ~fault /\ Consistent(table)
            /\ table.live \cap Loaders = {boots[i].loader : i \in DOMAIN boots}

\* The device a command is passed to exists, and is in no drive besides: it
\* stays aside as long as its loader can be asked, unless the loader had left
\* drive 1 when its dialog closed.
PassedToLivingDevice ==
  ~raced => \A i \in DOMAIN serving :
              /\ serving[i] \in table.live
              /\ i > 1 /\ ~displaced => table.no[serving[i]] = NoAddress

\* When all dialogs are closed every image that exists is in a drive, unless
\* a swap, an unmount or a mount had taken the loader out of drive 1, when
\* closing the dialog takes out what is there instead.
NothingLost ==
  boots = <<>> /\ mnt = NoMount /\ ~raced /\ ~displaced =>
    \A d \in Images \cap table.live : table.no[d] # NoAddress

\* Once the Atari told the loader that the program starts, the loader goes,
\* unless another boot is open inside its dialog.
BootEnds ==
  \A l \in Loaders :
    l \in done ~> \/ l \notin table.live \/ ~Running
                  \/ boots # <<>> /\ Top.loader # l
=============================================================================
