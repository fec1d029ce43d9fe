----------------------------- MODULE SioDevices -----------------------------
(***************************************************************************)
(* The SIO worker thread and the GUI thread sharing the installed devices: *)
(* the dispatch of SioWorker::run, the table operations of SioWorker, the  *)
(* RCL commands that change the table from the worker, and the MainWindow  *)
(* handlers that mount, eject, swap, save and edit disk images.            *)
(*                                                                         *)
(* deviceMutex is held across actions by the worker only: it is locked     *)
(* exactly while wpc = "handling".  Every critical section of the GUI is   *)
(* one action, enabled when the mutex is free.  What the GUI reads or      *)
(* writes outside the mutex (raw device pointers, isModified(), the scan   *)
(* of devices[] and its publication to the port) is an action of its own.  *)
(***************************************************************************)
EXTENDS FiniteSets

CONSTANTS Slots,       \* addresses of the disk drives, 0x31..
          Images,      \* disk image objects
          Folders,     \* the images that are mounted host folders
          PCLINK, RCL, \* the two devices (and their addresses) always installed
          NoDevice, NoAddress

Address == Slots \cup {PCLINK, RCL}
Device  == Images \cup {PCLINK, RCL}

INSTANCE DeviceTable

ASSUME FixedDevices == /\ Folders \subseteq Images
                       /\ PCLINK \notin Slots \cup Images
                       /\ RCL \notin Slots \cup Images
                       /\ PCLINK # RCL
                       /\ NoDevice \notin Device /\ NoAddress \notin Address

VARIABLES
  table,    \* SioWorker::devices, SioDevice::m_deviceNo and the heap
  lock,     \* SioDevice::mLock: who holds the lock of each device
  modified, \* SimpleDiskImage::m_isModified
  links,    \* the slots that are PCLINK folders (PCLINK::hasLink)
  active,   \* the port's copy of the occupied addresses (setActiveSioDevices)
  wpc,      \* where the worker is: reading frames or handling a command
  wno,      \* the address of the command it handles
  wdev,     \* the device whose handleCommand runs
  wout,     \* the drives that RCL has found fit to be emptied, and empties next
  gui,      \* where the GUI handler is, and its local variables (below)
  raced,    \* history: the worker changed the table, or dirtied gimg, meanwhile
  stale,    \* history: it did so between the scan and its publication
  fault     \* the program has used a deleted object or a null pointer

worker == <<wpc, wno, wdev, wout>>
shared == <<table, lock, modified, links, active>>
vars == <<table, lock, modified, links, active, wpc, wno, wdev, wout, gui, raced, stale, fault>>

Label == {"idle", "unlink", "resetLink", "relinkEject", "getImg", "ask",
          "uninstall", "delete", "install", "setLink", "changeLink",
          "relinkEnd", "show", "unlinkSwap", "swapLinks", "relinkSwap",
          "scan", "publish",
          "saveGet", "asGet", "fileDialog", "saveLock", "saving", "failed",
          "autosaving", "update", "edLock"}

\* The modal dialogs: unsaved changes, the name to save as, a failed save.
Dialogs == {"ask", "fileDialog", "failed"}

\* The GUI thread: pc is the label it is at ("idle" is the event loop), ret
\* where it goes after the scan or the save it is in, no and no2 the slots
\* it works on, img the image ejectImage, autoSaveDisk or deviceStatusChanged
\* fetched, sav the one that is saved or edited, disk the one mountFile
\* mounts, ask whether it asks before it ejects, as whether the save is a
\* "save as", scan what the scan of devices[] found, discard whether the
\* user gave the unsaved changes up.
GuiStates ==
  [pc : Label, ret : Label,
   no : Slots \cup {NoAddress}, no2 : Slots \cup {NoAddress},
   img : Images \cup {NoDevice}, sav : Images \cup {NoDevice},
   disk : Images \cup {NoDevice},
   ask : BOOLEAN, as : BOOLEAN,
   scan : SUBSET Address, discard : BOOLEAN]

Idle == [pc |-> "idle", ret |-> "idle", no |-> NoAddress, no2 |-> NoAddress,
         img |-> NoDevice, sav |-> NoDevice, disk |-> NoDevice,
         ask |-> TRUE, as |-> FALSE, scan |-> {}, discard |-> FALSE]

TypeOK ==
  /\ table \in Tables
  /\ lock \in [Device -> {"free", "worker", "gui", "editor"}]
  /\ modified \subseteq Images
  /\ links \subseteq Slots
  /\ active \subseteq Address
  /\ wpc \in {"reading", "handling"}
  /\ wno \in Address \cup {NoAddress}
  /\ wdev \in Device \cup {NoDevice}
  /\ wout \subseteq Slots
  /\ gui \in GuiStates
  /\ raced \in BOOLEAN /\ stale \in BOOLEAN /\ fault \in BOOLEAN

(***************************************************************************)
(* The program starts with RCL and PCLINK installed; the images of the     *)
(* last session (here: none) are mounted by the GUI like any other.        *)
(***************************************************************************)
Init ==
  /\ table = [dev  |-> [a \in Address |-> IF a \in {PCLINK, RCL} THEN a ELSE NoDevice],
              no   |-> [d \in Device |-> IF d \in {PCLINK, RCL} THEN d ELSE NoAddress],
              live |-> {PCLINK, RCL}]
  /\ lock = [d \in Device |-> "free"]
  /\ modified = {} /\ links = {}
  /\ active = {PCLINK, RCL}
  /\ wpc = "reading" /\ wno = NoAddress /\ wdev = NoDevice /\ wout = {}
  /\ gui = Idle
  /\ raced = FALSE /\ stale = FALSE /\ fault = FALSE

-----------------------------------------------------------------------------
(***************************************************************************)
(* The worker.                                                             *)
(***************************************************************************)
\* The devices whose tryLock() succeeds.
Unlocked == {d \in Device : lock[d] = "free"}

\* Defect: the device lock is waited for with deviceMutex locked.
DispatchBlocks(a) ==
  /\ ~fault /\ wpc = "reading"
  /\ table.dev[a] \in Device
  /\ wpc' = "handling" /\ wno' = a /\ wdev' = table.dev[a]
  /\ lock' = [lock EXCEPT ![table.dev[a]] = IF @ = "free" THEN "worker" ELSE @]
  /\ UNCHANGED <<table, modified, links, active, wout, gui, raced, stale, fault>>

\* readCommandFrame returned a frame for address a; deviceMutex is locked
\* and stays locked, tryLock() succeeds and handleCommand starts.  When the
\* device is missing, or the image explorer or a save holds its lock, the
\* command is ignored: nothing changes.
Dispatch(a) ==
  /\ ~fault /\ wpc = "reading"
  /\ table.dev[a] \in Unlocked
  /\ wpc' = "handling" /\ wno' = a /\ wdev' = table.dev[a]
  /\ lock' = [lock EXCEPT ![table.dev[a]] = "worker"]
  /\ UNCHANGED <<table, modified, links, active, wout, gui, raced, stale, fault>>

\* handleCommand returns; devices[no]->unlock(), deviceMutex->unlock().
Return ==
  /\ ~fault /\ wpc = "handling"
  /\ lock[wdev] = "worker"
  /\ wpc' = "reading" /\ wno' = NoAddress /\ wdev' = NoDevice /\ wout' = {}
  /\ UNCHANGED <<gui, fault>>

\* A command that changes neither the table nor an image.
HandleOther ==
  /\ Return /\ wout = {}
  /\ lock' = [lock EXCEPT ![wdev] = "free"]
  /\ UNCHANGED <<table, modified, links, active, raced, stale>>

\* A sector written into an image; a folder image refuses every write.
HandleWrite ==
  /\ Return /\ wout = {} /\ wdev \in Images \ Folders
  /\ lock' = [lock EXCEPT ![wdev] = "free"]
  /\ modified' = modified \cup {wdev}
  /\ raced' = (raced \/ (wdev = gui.img /\ wdev \notin modified))
  /\ UNCHANGED <<table, links, active, stale>>

\* What a table operation of the worker leaves behind: it publishes the
\* table itself, and the GUI may be anywhere.
Interfere ==
  /\ active' = Installed(table')
  /\ raced' = (raced \/ gui.pc # "idle")
  /\ stale' = (gui.pc = "publish")

\* RCL 0x94.
HandleSwap(a, b) ==
  /\ Return /\ wout = {} /\ wdev = RCL /\ a # b
  /\ lock' = [lock EXCEPT ![RCL] = "free"]
  /\ table' = Swap(table, a, b)
  /\ Interfere
  /\ UNCHANGED <<modified, links>>

\* RCL 0x95 for the slots S, one or all: refused when one has unsaved
\* changes.
CheckUnmount(S) ==
  /\ ~fault /\ wpc = "handling" /\ wdev = RCL /\ wout = {}
  /\ {table.dev[a] : a \in S} \cap modified = {}
  /\ wout' = S
  /\ UNCHANGED <<shared, wpc, wno, wdev, gui, raced, stale, fault>>

\* Otherwise the images leave the table and are deleted, which also closes
\* their editors.  Nobody asks again: an editor may have written meanwhile.
Unmount ==
  /\ Return /\ wout # {}
  /\ LET out == {table.dev[a] : a \in wout} \ {NoDevice}
     IN  /\ table' = [dev  |-> [a \in Address |-> IF a \in wout THEN NoDevice ELSE table.dev[a]],
                      no   |-> [d \in Device |-> IF d \in out THEN NoAddress ELSE table.no[d]],
                      live |-> table.live \ out]
         /\ lock' = [d \in Device |-> IF d \in out \cup {RCL} THEN "free" ELSE lock[d]]
         /\ modified' = modified \ out
  /\ Interfere
  /\ UNCHANGED links

\* RCL 0x99: images are saved by the worker, which holds their mutex
\* through the table but not their own lock; one without a name, or whose
\* save fails, stays as it is.
HandleSave(S) ==
  /\ Return /\ wout = {} /\ wdev = RCL
  /\ lock' = [lock EXCEPT ![RCL] = "free"]
  /\ \E saved \in SUBSET {table.dev[a] : a \in S} : modified' = modified \ saved
  /\ UNCHANGED <<table, links, active, raced, stale>>

Serve ==
  \/ HandleOther
  \/ HandleWrite
  \/ \E a, b \in Slots : HandleSwap(a, b)
  \/ \E S \in {{a} : a \in Slots} \cup {Slots} : CheckUnmount(S) \/ HandleSave(S)
  \/ Unmount

Worker == (\E a \in Address : Dispatch(a)) \/ Serve

-----------------------------------------------------------------------------
(***************************************************************************)
(* The GUI.  A handler starts when the event loop is idle and runs to its  *)
(* end; modal dialogs are the labels in Dialogs.                           *)
(***************************************************************************)
\* Defect: the GUI does not lock deviceMutex.
NoMutex == wpc \in {"reading", "handling"}

\* deviceMutex->lock() returns.
MutexFree == wpc # "handling"

\* The GUI thread executes the step at label l.
At(l) == ~fault /\ gui.pc = l /\ UNCHANGED worker

\* It goes on at label l; at "idle" its locals are gone.
Goto(g, l) ==
  /\ gui' = IF l = "idle" THEN Idle ELSE [g EXCEPT !.pc = l]
  /\ raced' = (raced /\ l # "idle")
  /\ UNCHANGED fault

\* The program has touched memory it may not touch.
Crash ==
  /\ fault' = TRUE
  /\ UNCHANGED <<shared, gui, raced, stale>>

\* mountFile: the image is constructed and opened, then ejectImage, which
\* asks about unsaved changes unless the mount is a remote one of RCL.
BeginMount(no, d, ask) ==
  /\ At("idle")
  /\ d \notin table.live
  /\ table' = [table EXCEPT !.live = @ \cup {d}]
  /\ Goto([Idle EXCEPT !.no = no, !.disk = d, !.ask = ask], "unlink")
  /\ UNCHANGED <<lock, modified, links, active, stale>>

BeginEject(no) ==
  /\ At("idle")
  /\ table.dev[no] # NoDevice
  /\ Goto([Idle EXCEPT !.no = no], "unlink")
  /\ UNCHANGED <<shared, stale>>

\* dropEvent: one drive dragged onto another.  swapDevices holds the
\* recursive mutex around its own publication.
BeginSwap(a, b) ==
  /\ At("idle") /\ MutexFree
  /\ a # b
  /\ table' = Swap(table, a, b)
  /\ active' = Installed(table') /\ stale' = FALSE
  /\ Goto([Idle EXCEPT !.no = a, !.no2 = b], "unlinkSwap")
  /\ UNCHANGED <<lock, modified, links>>

\* Save, Save As and the switch of auto-commit: autoSaveDisk saves as
\* saveDisk does, then uses the image it fetched to repaint the drive.  None
\* of them looks whether the drive is empty; when the buttons are enabled is
\* the subject of module DriveButtons.
BeginSave(no) ==
  /\ At("idle")
  /\ \/ \E ret \in {"idle", "update"} : Goto([Idle EXCEPT !.no = no, !.ret = ret], "saveGet")
     \/ Goto([Idle EXCEPT !.no = no], "asGet")
  /\ UNCHANGED <<shared, stale>>

\* deviceStatusChanged on a modified image with auto-commit: img->save()
\* follows "(no need to lock it)".
BeginAutoSave(no) ==
  /\ At("idle") /\ MutexFree
  /\ table.dev[no] \in modified
  /\ Goto([Idle EXCEPT !.no = no, !.img = table.dev[no], !.sav = table.dev[no],
                       !.ret = "update"], "autosaving")
  /\ UNCHANGED <<shared, stale>>

\* openEditor: opens an editor on the image, or closes the one it has,
\* which unlocks the image.
OpenEditor(no) ==
  /\ At("idle") /\ MutexFree
  /\ table.dev[no] # NoDevice
  /\ lock[table.dev[no]] # "editor"
  /\ Goto([Idle EXCEPT !.sav = table.dev[no]], "edLock")
  /\ UNCHANGED <<shared, stale>>

CloseEditor(no) ==
  /\ At("idle") /\ MutexFree
  /\ table.dev[no] # NoDevice
  /\ lock[table.dev[no]] = "editor"
  /\ lock' = [lock EXCEPT ![table.dev[no]] = "free"]
  /\ UNCHANGED <<table, modified, links, active, gui, raced, stale, fault>>

\* A file written in the editor.
EditImage(no) ==
  /\ At("idle")
  /\ table.dev[no] \in Images \ Folders
  /\ lock[table.dev[no]] = "editor"
  /\ modified' = modified \cup {table.dev[no]}
  /\ UNCHANGED <<table, lock, links, active, gui, raced, stale, fault>>

-----------------------------------------------------------------------------
\* installDevice and uninstallDevice end with a scan of devices[] without
\* the mutex, handed to the port by setActiveSioDevices.
Scan ==
  /\ At("scan")
  /\ stale' = FALSE
  /\ Goto([gui EXCEPT !.scan = Installed(table)], "publish")
  /\ UNCHANGED shared

Publish ==
  /\ At("publish")
  /\ active' = gui.scan
  /\ Goto([gui EXCEPT !.scan = {}], gui.ret)
  /\ UNCHANGED <<table, lock, modified, links, stale>>

\* A table operation of the GUI that continues at l after its scan.
Change(t, l) ==
  /\ MutexFree
  /\ table' = t
  /\ Goto([gui EXCEPT !.ret = l], "scan")
  /\ UNCHANGED <<links, active, stale>>

\* Defect: the links of PCLINK change while it is installed.
LeavePclinkIn(linked, l, m) ==
  /\ MutexFree
  /\ Goto(gui, IF linked THEN l ELSE m)
  /\ UNCHANGED <<shared, stale>>

\* PCLINK is taken out of the table, to change its links at label l, when
\* the links say so; otherwise the handler goes on at label m.
TakePclinkOut(linked, l, m) ==
  \/ /\ linked
     /\ Change(Uninstall(table, PCLINK), l)
     /\ UNCHANGED <<lock, modified>>
  \/ /\ ~linked /\ MutexFree
     /\ Goto(gui, m)
     /\ UNCHANGED <<shared, stale>>

ChangeLinks(set, l) ==
  /\ links' = set
  /\ Goto(gui, l)
  /\ UNCHANGED <<table, lock, modified, active, stale>>

PutPclinkBack(l) ==
  /\ Change(Install(table, PCLINK, PCLINK), l)
  /\ UNCHANGED <<lock, modified>>

\* ejectImage: a PCLINK folder is unlinked.
Unlink == At("unlink") /\ TakePclinkOut(gui.no \in links, "resetLink", "getImg")

ResetLink == At("resetLink") /\ ChangeLinks(links \ {gui.no}, "relinkEject")

RelinkEject == At("relinkEject") /\ PutPclinkBack("getImg")

\* mountFile: a folder becomes a PCLINK folder too.
SetLink ==
  /\ At("setLink")
  /\ TakePclinkOut(gui.disk \in Folders \/ gui.no \in links, "changeLink", "show")

ChangeLink ==
  /\ At("changeLink")
  /\ ChangeLinks(IF gui.disk \in Folders THEN links \cup {gui.no} ELSE links \ {gui.no},
                 "relinkEnd")

RelinkEnd == At("relinkEnd") /\ PutPclinkBack("show")

\* dropEvent: the links follow the drives.
UnlinkSwap ==
  /\ At("unlinkSwap")
  /\ TakePclinkOut({gui.no, gui.no2} \cap links # {}, "swapLinks", "idle")

SwapLinks ==
  /\ At("swapLinks")
  /\ ChangeLinks({a \in Slots : IF a = gui.no THEN gui.no2 \in links
                                ELSE IF a = gui.no2 THEN gui.no \in links
                                ELSE a \in links}, "relinkSwap")

RelinkSwap == At("relinkSwap") /\ PutPclinkBack("idle")

\* mountFile: the drive is painted from the new image.
Show ==
  /\ At("show")
  /\ \/ gui.disk \in table.live /\ Goto(gui, "idle") /\ UNCHANGED <<shared, stale>>
     \/ gui.disk \notin table.live /\ Crash

-----------------------------------------------------------------------------
\* Defect: nobody asks about unsaved changes.
GetImgNeverAsks ==
  /\ At("getImg") /\ MutexFree
  /\ Goto([gui EXCEPT !.img = table.dev[gui.no]], "uninstall")
  /\ UNCHANGED <<shared, stale>>

\* ejectImage: the image is fetched and, if the caller wants the question,
\* asked whether it is modified.
GetImg ==
  /\ At("getImg") /\ MutexFree
  /\ Goto([gui EXCEPT !.img = table.dev[gui.no]],
          IF gui.ask /\ table.dev[gui.no] \in modified THEN "ask" ELSE "uninstall")
  /\ UNCHANGED <<shared, stale>>

\* saveImageWhenClosing: No, Cancel (mountFile deletes its image), or Yes.
AskNo ==
  /\ At("ask")
  /\ Goto([gui EXCEPT !.discard = TRUE], "uninstall")
  /\ UNCHANGED <<shared, stale>>

AskCancel ==
  /\ At("ask")
  /\ table' = [table EXCEPT !.live = @ \ {gui.disk}]
  /\ Goto(gui, "idle")
  /\ UNCHANGED <<lock, modified, links, active, stale>>

AskYes ==
  /\ At("ask")
  /\ Goto([gui EXCEPT !.ret = "uninstall"], "saveGet")
  /\ UNCHANGED <<shared, stale>>

\* Defect: the image is deleted before it is uninstalled.
EjectNotUninstalled ==
  /\ At("uninstall")
  /\ Goto(gui, "delete")
  /\ UNCHANGED <<shared, stale>>

Eject ==
  /\ At("uninstall")
  /\ Change(Uninstall(table, gui.no), "delete")
  /\ UNCHANGED <<lock, modified>>

\* `delete img`: the destructor closes the image without the mutex; then
\* ~SioDevice uninstalls it, with a scan of its own, if it is installed.
AfterDelete == IF gui.disk = NoDevice THEN "idle" ELSE "install"

DeleteImg ==
  /\ At("delete")
  /\ \/ /\ gui.img = NoDevice
        /\ Goto(gui, AfterDelete)
        /\ UNCHANGED <<shared, stale>>
     \/ /\ gui.img \in table.live /\ wdev # gui.img
        /\ table' = Delete(table, gui.img)
        /\ lock' = [lock EXCEPT ![gui.img] = "free"]
        /\ modified' = modified \ {gui.img}
        /\ \/ table.no[gui.img] = NoAddress /\ Goto(gui, AfterDelete)
           \/ /\ table.no[gui.img] # NoAddress /\ MutexFree
              /\ Goto([gui EXCEPT !.ret = AfterDelete], "scan")
        /\ UNCHANGED <<links, active, stale>>
     \/ /\ gui.img # NoDevice
        /\ gui.img \notin table.live \/ wdev = gui.img
        /\ Crash

\* mountFile: installDevice deletes an occupant.
InstallDisk ==
  /\ At("install")
  /\ Change(Install(table, gui.no, gui.disk), "setLink")
  /\ modified' = modified \ {table.dev[gui.no]}
  /\ lock' = [d \in Device |-> IF d = table.dev[gui.no] THEN "free" ELSE lock[d]]

-----------------------------------------------------------------------------
\* saveDisk, autoSaveDisk: fetch the image; one that has no name yet goes to
\* saveDiskAs.
SaveGet ==
  /\ At("saveGet") /\ MutexFree
  /\ \/ /\ table.dev[gui.no] # NoDevice
        /\ \E l \in {"saveLock", "asGet"} :
             Goto([gui EXCEPT !.sav = table.dev[gui.no],
                              !.img = IF gui.ret = "update" THEN table.dev[gui.no] ELSE @], l)
        /\ UNCHANGED <<shared, stale>>
     \/ table.dev[gui.no] = NoDevice /\ Crash

\* saveDiskAs fetches the image anew and asks for a file.
AsGet ==
  /\ At("asGet") /\ MutexFree
  /\ \/ /\ table.dev[gui.no] # NoDevice
        /\ Goto([gui EXCEPT !.sav = table.dev[gui.no], !.as = TRUE], "fileDialog")
        /\ UNCHANGED <<shared, stale>>
     \/ table.dev[gui.no] = NoDevice /\ Crash

\* saveDisk or saveDiskAs is over, with its variables; its caller goes on at l.
SaveOver(g, l) == Goto([g EXCEPT !.sav = NoDevice, !.as = FALSE], l)

ChooseFile ==
  /\ At("fileDialog")
  /\ Goto(gui, "saveLock")
  /\ UNCHANGED <<shared, stale>>

\* Nothing is saved, and the caller is not told.
CancelFile ==
  /\ At("fileDialog")
  /\ SaveOver([gui EXCEPT !.discard = TRUE], gui.ret)
  /\ UNCHANGED <<shared, stale>>

\* img->lock() for a label l that holds the lock as h.
LockSav(h, l) ==
  \/ /\ gui.sav \in table.live /\ gui.sav \in Unlocked
     /\ lock' = [lock EXCEPT ![gui.sav] = h]
     /\ Goto(gui, l)
     /\ UNCHANGED <<table, modified, links, active, stale>>
  \/ gui.sav \notin table.live /\ Crash

SaveLock == At("saveLock") /\ LockSav("gui", "saving")

EditorLock == At("edLock") /\ LockSav("editor", "idle")

\* A save succeeds, and the handler goes on at label l, or it fails.
SaveEnds(l) ==
  \/ modified' = modified \ {gui.sav} /\ SaveOver(gui, l)
  \/ UNCHANGED modified /\ Goto(gui, "failed")

Saving ==
  /\ At("saving")
  /\ \/ /\ gui.sav \in table.live
        /\ lock' = [lock EXCEPT ![gui.sav] = "free"]
        /\ SaveEnds(gui.ret)
        /\ UNCHANGED <<table, links, active, stale>>
     \/ gui.sav \notin table.live /\ Crash

AutoSaving ==
  /\ At("autosaving")
  /\ \/ /\ gui.sav \in table.live
        /\ SaveEnds("update")
        /\ UNCHANGED <<table, lock, links, active, stale>>
     \/ gui.sav \notin table.live /\ Crash

\* "Do you want to save the image with another name?"
FailedYes ==
  /\ At("failed")
  /\ Goto(gui, IF gui.as THEN "fileDialog" ELSE "asGet")
  /\ UNCHANGED <<shared, stale>>

\* saveDiskAs then remembers whether the image is read only.
FailedNo ==
  /\ At("failed")
  /\ \/ /\ gui.as => gui.sav \in table.live
        /\ SaveOver([gui EXCEPT !.discard = TRUE], gui.ret)
        /\ UNCHANGED <<shared, stale>>
     \/ gui.as /\ gui.sav \notin table.live /\ Crash

\* autoSaveDisk and deviceStatusChanged: the drive is painted from the image
\* that was fetched before the save and its dialogs.
Update ==
  /\ At("update")
  /\ \/ gui.img \in table.live /\ Goto(gui, "idle") /\ UNCHANGED <<shared, stale>>
     \/ gui.img \notin table.live /\ Crash

User ==
  \/ \E no \in Slots : \/ \E d \in Images, ask \in BOOLEAN : BeginMount(no, d, ask)
                       \/ BeginEject(no) \/ BeginSave(no)
                       \/ BeginAutoSave(no) \/ OpenEditor(no) \/ CloseEditor(no) \/ EditImage(no)
  \/ \E a, b \in Slots : BeginSwap(a, b)
  \/ AskNo \/ AskCancel \/ AskYes \/ ChooseFile \/ CancelFile \/ FailedYes \/ FailedNo

Gui ==
  \/ Scan \/ Publish
  \/ Unlink \/ ResetLink \/ RelinkEject
  \/ GetImg \/ Eject \/ DeleteImg
  \/ InstallDisk \/ SetLink \/ ChangeLink \/ RelinkEnd \/ Show
  \/ UnlinkSwap \/ SwapLinks \/ RelinkSwap
  \/ SaveGet \/ AsGet \/ SaveLock \/ Saving \/ AutoSaving \/ Update \/ EditorLock

\* A crashed program takes no more steps.
Crashed == fault /\ UNCHANGED vars

Next == Worker \/ User \/ Gui \/ Crashed

(***************************************************************************)
(* Every handleCommand ends: weak fairness of the worker's return.  The    *)
(* GUI is scheduled, and a wait for deviceMutex or a device lock ends when *)
(* the lock keeps becoming free: between two commands the worker blocks in *)
(* readCommandFrame for milliseconds, so the GUI is strongly fair.         *)
(* Nothing is assumed of the user or of the Atari.                         *)
(***************************************************************************)
Fairness == WF_vars(Serve) /\ SF_vars(Gui)

Spec == Init /\ [][Next]_vars /\ Fairness

-----------------------------------------------------------------------------
(***************************************************************************)
(* Properties.                                                             *)
(***************************************************************************)
\* What is installed exists and knows its address, whatever the GUI and the
\* RCL commands of the worker did to the table in whatever order.
TableConsistent == Consistent(table)

\* handleCommand runs on a device that stays installed at the address of
\* the command, is not deleted, and is locked by the worker, until it
\* returns: SioWorker::run reads devices[no] again to unlock it.
HandlerOwnsDevice ==
  wpc = "handling" => /\ table.dev[wno] = wdev
                      /\ wdev \in table.live
                      /\ lock[wdev] = "worker"

\* A save that takes the image's lock never overlaps a command of the
\* Atari on that image (saveDisk against handleCommand).
SaveExcludesHandler == ~(gui.pc = "saving" /\ wdev = gui.sav)

\* The comment of deviceStatusChanged: the auto-commit save needs no lock,
\* that is, it never overlaps a command on the image either.
AutoSaveNeedsNoLock == ~(gui.pc = "autosaving" /\ wdev = gui.sav)

\* A PCLINK link changes only while PCLINK is not installed and does not
\* run a command, so no command sees a link come or go.
LinksChangeOffline ==
  [][links' # links => table.dev[PCLINK] = NoDevice /\ wdev # PCLINK]_vars

\* The Atari has an image deleted that its editor wrote to after RCL had
\* looked for unsaved changes.
EditedInUnmount(d) == lock[d] = "editor" /\ \E a \in wout : table.dev[a] = d

\* An image with unsaved changes is deleted only
\*   after the user gave them up: by No, or by leaving the save that was
\*     asked for, which does not stop an eject;
\*   by a mount of RCL, which does not ask;
\*   if the worker interfered between the question and the deletion;
\*   if an editor interfered with RCL in the same way.
NoSilentLoss ==
  [][\A d \in modified : d \in table.live /\ d \notin table'.live =>
       gui.discard \/ ~gui.ask \/ raced \/ EditedInUnmount(d)]_vars

\* A click on a save button of a drive that is empty.
EmptyDrive ==
  gui.pc \in {"saveGet", "asGet"} /\ gui.ret # "uninstall" /\ table.dev[gui.no] = NoDevice

\* A GUI handler uses only existing images, unless the worker interfered
\* while it held a raw pointer, or the drive was empty from the start.
GuiUsesLiveImages == fault => raced \/ EmptyDrive

\* Once the GUI is idle the port filters commands by the addresses that are
\* occupied, unless the worker changed the table between the last scan of
\* devices[] and its publication.
PortKnowsDevices == gui.pc = "idle" /\ ~stale => active = Installed(table)

\* Every handler of the GUI comes to its end or to a question, unless it
\* waits for the lock of an image whose editor is open.
Waiting == gui.pc \in {"saveLock", "edLock"} /\ gui.sav # NoDevice /\ lock[gui.sav] = "editor"
GuiCompletes ==
  gui.pc \notin Dialogs \cup {"idle"} ~> gui.pc \in Dialogs \cup {"idle"} \/ fault \/ Waiting

\* The table, the flags of the images and the conversation of the worker,
\* seen as drives.
Promise == INSTANCE Drives WITH
  drive   <- [s \in Slots |-> table.dev[s]],
  unsaved <- modified,
  busy    <- IF wdev \in Images THEN wno ELSE NoAddress,
  Empty   <- NoDevice,
  Nobody  <- NoAddress

\* The two threads with their locks and raw pointers implement the drives:
\* whatever they interleave, each step is one whole operation on the
\* drives, and none of it falls into a conversation with the Atari.
ImplementsDrives == Promise!Spec
=============================================================================
