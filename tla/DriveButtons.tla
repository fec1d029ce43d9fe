---------------------------- MODULE DriveButtons ----------------------------
(***************************************************************************)
(* The buttons of the drives and what is in the drives.                    *)
(*                                                                         *)
(* The worker changes the drives by RCL and writes to their images.  Each  *)
(* image posts its drive to the GUI thread (statusChanged, a queued        *)
(* signal), which repaints that drive later: from the event loop, or from  *)
(* the one of a dialog that another handler has open.  The buttons Save,   *)
(* Save As, Revert and Auto-commit lead to handlers that use the image of  *)
(* their drive without a check; all that keeps them from an empty drive    *)
(* is that the buttons were disabled in time.                              *)
(*                                                                         *)
(* The locks, the port and the PCLINK folders are module SioDevices; the   *)
(* mounts of the Atari are module RemoteMount.                             *)
(***************************************************************************)
EXTENDS Naturals, Sequences, Functions

CONSTANTS Slots, Plain, Folders,
          None,       \* no image
          MaxDepth    \* bound on the handlers below one taken in a dialog

Image == Plain \cup Folders

ASSUME ImagesAndDrives == None \notin Image /\ Plain \cap Folders = {} /\ MaxDepth \in Nat

VARIABLES
  dev,       \* the image in each drive
  heap,      \* the images that exist
  modified,  \* those with unsaved changes
  connected, \* those whose statusChanged is connected to deviceStatusChanged
  saveAs,    \* the drives whose buttons Save As and Auto-commit are enabled
  save,      \* the drives whose buttons Save and Revert are enabled
  auto,      \* the drives whose button Auto-commit is checked
  posted,    \* the drives for which a statusChanged is in the queue
  stack,     \* the GUI handlers that run, the innermost first (below)
  misled,    \* history: drives painted from, or not told of, another image
  refused,   \* history: modified images the user did not save when asked for a name
  fault      \* how the program has crashed

drives == <<dev, heap, modified, connected>>
buttons == <<saveAs, save, auto>>
vars == <<dev, heap, modified, connected, saveAs, save, auto, posted, stack, misled, refused, fault>>

\* A handler: where it is, its drive, the image it has fetched, and the one
\* it mounts.
Frames == [pc : {"unsaved", "eject", "uninstall", "delete", "empty", "install", "show",
                 "changed", "paint", "commit", "update", "failed", "name", "revert"},
           no : Slots, img : Image \cup {None}, disk : Image \cup {None}]

Frame(l, no, img) == [pc |-> l, no |-> no, img |-> img, disk |-> None]

\* The questions about unsaved changes, a failed save and a revert, and the
\* dialog that asks for a name.
Dialogs == {"unsaved", "failed", "name", "revert"}

TypeOK ==
  /\ heap \subseteq Image
  /\ dev \in [Slots -> heap \cup {None}]
  /\ \A a, b \in Slots : dev[a] = dev[b] => a = b \/ dev[a] = None
  /\ modified \subseteq heap \cap Plain /\ connected \subseteq heap
  /\ saveAs \subseteq Slots /\ save \subseteq Slots /\ auto \subseteq Slots
  /\ posted \subseteq Slots
  /\ stack \in Seq(Frames) /\ Len(stack) <= MaxDepth + 3
  /\ misled \subseteq Slots /\ refused \subseteq modified
  /\ fault \in {"none", "auto", "click", "late", "pointer"}

Init ==
  /\ dev = [s \in Slots |-> None] /\ heap = {} /\ modified = {} /\ connected = {}
  /\ saveAs = {} /\ save = {} /\ auto = {}
  /\ posted = {} /\ stack = <<>>
  /\ misled = {} /\ refused = {} /\ fault = "none"

-----------------------------------------------------------------------------
(***************************************************************************)
(* What happens to the drives at any time.                                 *)
(***************************************************************************)
\* What d posts when it emits statusChanged for the drives S.
Posts(d, S) == IF d \in connected THEN S ELSE {}

\* d is deleted.
Free(d) ==
  /\ heap' = heap \ {d} /\ modified' = modified \ {d}
  /\ connected' = connected \ {d} /\ refused' = refused \ {d}

\* Defect: only the drive an image leaves is posted.
SwapTellsOne(a, b) ==
  /\ fault = "none" /\ a # b
  /\ dev' = [dev EXCEPT ![a] = dev[b], ![b] = dev[a]]
  /\ posted' = posted \cup Posts(dev[a], {a}) \cup Posts(dev[b], {b})
  /\ misled' = IF {dev[a], dev[b]} \subseteq connected \cup {None} THEN misled
               ELSE misled \cup {a, b}
  /\ UNCHANGED <<heap, modified, connected, buttons, stack, refused, fault>>

\* RCL 0x94, or one drive dragged onto another: each image gives its old and
\* its new number.
Swap(a, b) ==
  /\ fault = "none" /\ a # b
  /\ dev' = [dev EXCEPT ![a] = dev[b], ![b] = dev[a]]
  /\ posted' = posted \cup Posts(dev[a], {a, b}) \cup Posts(dev[b], {a, b})
  /\ misled' = IF {dev[a], dev[b]} \subseteq connected \cup {None} THEN misled
               ELSE misled \cup {a, b}
  /\ UNCHANGED <<heap, modified, connected, buttons, stack, refused, fault>>

\* Defect: the drive keeps its deleted image.
UnmountKeepsDrive(a) ==
  /\ fault = "none" /\ dev[a] \in Image \ modified
  /\ Free(dev[a])
  /\ posted' = posted \cup Posts(dev[a], {a})
  /\ UNCHANGED <<dev, buttons, stack, misled, fault>>

\* RCL 0x95.
Unmount(a) ==
  /\ fault = "none" /\ dev[a] \in Image \ modified
  /\ dev' = [dev EXCEPT ![a] = None] /\ Free(dev[a])
  /\ posted' = posted \cup Posts(dev[a], {a})
  /\ UNCHANGED <<buttons, stack, misled, fault>>

\* A sector is written, or the image is formatted.
Write(a) ==
  /\ fault = "none" /\ dev[a] \in Plain
  /\ modified' = modified \cup {dev[a]}
  /\ posted' = posted \cup Posts(dev[a], {a})
  /\ UNCHANGED <<dev, heap, connected, buttons, stack, misled, refused, fault>>

\* d is saved, and tells its drive.
Saved(d) ==
  /\ modified' = modified \ {d} /\ refused' = refused \ {d}
  /\ posted' = posted \cup Posts(d, {s \in Slots : dev[s] = d})

\* RCL 0x99.
RclSave(a) ==
  /\ fault = "none" /\ dev[a] \in modified
  /\ Saved(dev[a])
  /\ UNCHANGED <<dev, heap, connected, buttons, stack, misled, fault>>

-----------------------------------------------------------------------------
(***************************************************************************)
(* The GUI thread: what starts a handler, a click or an event.             *)
(***************************************************************************)
Idle == fault = "none" /\ stack = <<>>

\* The event loop runs: no handler is active, or one shows a dialog.
Loops == Idle \/ (fault = "none" /\ stack # <<>> /\ stack[1].pc \in Dialogs /\ Len(stack) <= MaxDepth)

Push(frames) == stack' = frames \o stack

\* The program dereferences a null pointer, or one to a deleted image.
Crash(how) ==
  /\ fault' = how
  /\ UNCHANGED <<drives, buttons, posted, stack, misled, refused>>

\* A statusChanged is taken from the queue, where another one for the same
\* drive may follow.
TakePosted(no) ==
  /\ Loops /\ no \in posted
  /\ posted' \in {posted, posted \ {no}}
  /\ Push(<<Frame("changed", no, None)>>)
  /\ UNCHANGED <<drives, buttons, misled, refused, fault>>

\* Save and Revert: saveDisk, which goes to saveDiskAs when the image has no
\* name, and revertDisk.
ClickSave(no) ==
  /\ Idle /\ no \in save
  /\ \/ dev[no] = None /\ Crash("click")
     \/ /\ dev[no] # None
        /\ \/ Saved(dev[no]) /\ UNCHANGED stack
           \/ /\ \E l \in {"failed", "name", "revert"} : Push(<<Frame(l, no, dev[no])>>)
              /\ UNCHANGED <<modified, refused, posted>>
        /\ UNCHANGED <<dev, heap, connected, buttons, misled, fault>>

ClickSaveAs(no) ==
  /\ Idle /\ no \in saveAs
  /\ \/ dev[no] = None /\ Crash("click")
     \/ /\ dev[no] # None
        /\ Push(<<Frame("name", no, dev[no])>>)
        /\ UNCHANGED <<drives, buttons, posted, misled, refused, fault>>

\* Auto-commit, by the user or by RCL 0x98, whose signal is taken from the
\* queue and clicks the button if it is enabled: autoSaveDisk.
ClickAuto(no) ==
  /\ Loops /\ no \in saveAs
  /\ \/ dev[no] = None /\ Crash("click")
     \/ /\ dev[no] # None
        /\ auto' = IF no \in auto THEN auto \ {no} ELSE auto \cup {no}
        /\ Push(<<Frame("commit", no, dev[no])>>)
        /\ UNCHANGED <<drives, saveAs, save, posted, misled, refused, fault>>

\* An image is opened, or a new one formatted, which is connected at once
\* and goes to an empty drive if there is one.
BeginMount(no, d, new) ==
  /\ Idle /\ d \notin heap
  /\ new => d \in Plain /\ (dev[no] = None \/ None \notin Range(dev))
  /\ heap' = heap \cup {d}
  /\ modified' = IF new THEN modified \cup {d} ELSE modified
  /\ connected' = IF new THEN connected \cup {d} ELSE connected
  /\ Push(<<[Frame("eject", no, None) EXCEPT !.disk = d]>>)
  /\ UNCHANGED <<dev, buttons, posted, misled, refused, fault>>

BeginEject(no) ==
  /\ Idle /\ dev[no] # None
  /\ Push(<<Frame("eject", no, None)>>)
  /\ UNCHANGED <<drives, buttons, posted, misled, refused, fault>>

-----------------------------------------------------------------------------
(***************************************************************************)
(* The steps of the innermost handler g.                                   *)
(***************************************************************************)
At(l) == fault = "none" /\ stack # <<>> /\ stack[1].pc = l
g == stack[1]

Goto(l) == stack' = [stack EXCEPT ![1].pc = l]
Return  == stack' = Tail(stack)

\* Defect: the buttons stay enabled.
NoButtonsStill(no) == UNCHANGED <<saveAs, save>>

\* The buttons are disabled: showAsEmpty, showAsFolderMounted.
NoButtons(no) == saveAs' = saveAs \ {no} /\ save' = save \ {no}

\* deviceStatusChanged, when there is nothing to save.  showAsEmpty unchecks
\* Auto-commit, whose handler then looks for the image of the empty drive.
Changed ==
  /\ At("changed")
  /\ \/ /\ dev[g.no] = None /\ g.no \in auto
        /\ Crash("auto")
     \/ /\ dev[g.no] = None => g.no \notin auto
        /\ ~(dev[g.no] \in modified /\ g.no \in auto)
        /\ IF dev[g.no] \in Plain
           THEN /\ saveAs' = saveAs \cup {g.no}
                /\ save' = IF dev[g.no] \in modified THEN save \cup {g.no} ELSE save \ {g.no}
           ELSE NoButtons(g.no)
        /\ misled' = misled \ {g.no}
        /\ Return
        /\ UNCHANGED <<drives, auto, posted, refused, fault>>

\* Defect: the changes are not saved.
AutoSaveForgotten ==
  /\ At("changed")
  /\ dev[g.no] \in modified /\ g.no \in auto
  /\ saveAs' = saveAs \cup {g.no} /\ save' = save \ {g.no}
  /\ misled' = misled \ {g.no}
  /\ Return
  /\ UNCHANGED <<drives, auto, posted, refused, fault>>

\* A modified image of a drive with Auto-commit is saved; if that fails the
\* user is asked before the drive is painted.
AutoSave ==
  /\ At("changed")
  /\ dev[g.no] \in modified /\ g.no \in auto
  /\ \/ /\ Saved(dev[g.no])
        /\ saveAs' = saveAs \cup {g.no} /\ save' = save \ {g.no}
        /\ misled' = misled \ {g.no}
        /\ Return
     \/ /\ stack' = <<Frame("failed", g.no, dev[g.no]),
                     [g EXCEPT !.pc = "paint", !.img = dev[g.no]]>> \o Tail(stack)
        /\ UNCHANGED <<modified, posted, saveAs, save, misled, refused>>
  /\ UNCHANGED <<dev, heap, connected, auto, fault>>

\* What the drive is painted from is the image fetched before the dialogs, as
\* a disk image, which may have left the drive, or may be a folder that RCL
\* had put there before the click.
MisledBy(d) == IF dev[g.no] = d /\ d \in Plain THEN misled ELSE misled \cup {g.no}

Paint ==
  /\ At("paint")
  /\ \/ g.img \notin heap /\ Crash("pointer")
     \/ /\ g.img \in heap
        /\ saveAs' = saveAs \cup {g.no} /\ save' = save \ {g.no}
        /\ misled' = MisledBy(g.img)
        /\ Return
        /\ UNCHANGED <<drives, auto, posted, refused, fault>>

\* autoSaveDisk saves the image, or asks for a name, and then updates the
\* drive from it: Save is enabled for an image that is not modified.
Commit ==
  /\ At("commit")
  /\ \/ g.img \notin heap /\ Crash("pointer")
     \/ /\ g.img \in heap
        /\ \/ Saved(g.img) /\ Goto("update")
           \/ /\ \E l \in {"failed", "name"} :
                   stack' = <<Frame(l, g.no, g.img)>> \o [stack EXCEPT ![1].pc = "update"]
              /\ UNCHANGED <<modified, posted, refused>>
        /\ UNCHANGED <<dev, heap, connected, buttons, misled, fault>>

Update ==
  /\ At("update")
  /\ \/ g.img \notin heap /\ Crash("pointer")
     \/ /\ g.img \in heap
        /\ save' = IF g.img \in modified THEN save \ {g.no} ELSE save \cup {g.no}
        /\ misled' = MisledBy(g.img)
        /\ Return
        /\ UNCHANGED <<drives, saveAs, auto, posted, refused, fault>>

-----------------------------------------------------------------------------
(***************************************************************************)
(* The dialogs of a save.                                                  *)
(***************************************************************************)
\* "Do you want to save the image with another name?"  Yes: saveDiskAs looks
\* for the image of the drive again.
FailedYes ==
  /\ At("failed")
  /\ \/ dev[g.no] = None /\ Crash("late")
     \/ /\ dev[g.no] # None
        /\ stack' = [stack EXCEPT ![1].pc = "name", ![1].img = dev[g.no]]
        /\ UNCHANGED <<drives, buttons, posted, misled, refused, fault>>

\* No, or no name.
GiveUp ==
  /\ At("failed") \/ At("name")
  /\ refused' = refused \cup (modified \cap {g.img})
  /\ Return
  /\ UNCHANGED <<drives, buttons, posted, misled, fault>>

\* A name; when the save fails it is asked for again.
SaveAs ==
  /\ At("name")
  /\ \/ g.img \notin heap /\ Crash("pointer")
     \/ /\ g.img \in heap
        /\ Saved(g.img) /\ Return
        /\ UNCHANGED <<dev, heap, connected, buttons, misled, fault>>

RevertYes ==
  /\ At("revert")
  /\ \/ g.img \notin heap /\ Crash("pointer")
     \/ /\ g.img \in heap
        /\ modified' = modified \ {g.img} /\ refused' = refused \ {g.img}
        /\ stack' = [stack EXCEPT ![1] = Frame("changed", g.no, None)]
        /\ UNCHANGED <<dev, heap, connected, buttons, posted, misled, fault>>

RevertNo ==
  /\ At("revert") /\ Return
  /\ UNCHANGED <<drives, buttons, posted, misled, refused, fault>>

-----------------------------------------------------------------------------
(***************************************************************************)
(* ejectImage and mountFile.                                               *)
(***************************************************************************)
EjectGet ==
  /\ At("eject")
  /\ stack' = [stack EXCEPT ![1].img = dev[g.no],
                            ![1].pc = IF dev[g.no] \in modified THEN "unsaved" ELSE "uninstall"]
  /\ UNCHANGED <<drives, buttons, posted, misled, refused, fault>>

UnsavedYes ==
  /\ At("unsaved")
  /\ \/ dev[g.no] = None /\ Crash("late")
     \/ /\ dev[g.no] # None
        /\ \/ Saved(dev[g.no]) /\ Goto("uninstall")
           \/ /\ \E l \in {"failed", "name"} :
                   stack' = <<Frame(l, g.no, dev[g.no])>> \o [stack EXCEPT ![1].pc = "uninstall"]
              /\ UNCHANGED <<modified, posted, refused>>
        /\ UNCHANGED <<dev, heap, connected, buttons, misled, fault>>

UnsavedNo ==
  /\ At("unsaved") /\ Goto("uninstall")
  /\ UNCHANGED <<drives, buttons, posted, misled, refused, fault>>

UnsavedCancel ==
  /\ At("unsaved")
  /\ Free(g.disk) /\ Return
  /\ UNCHANGED <<dev, buttons, posted, misled, fault>>

Uninstall ==
  /\ At("uninstall")
  /\ dev' = [dev EXCEPT ![g.no] = None]
  /\ posted' = posted \cup Posts(dev[g.no], {g.no})
  /\ Goto("delete")
  /\ UNCHANGED <<heap, modified, connected, buttons, misled, refused, fault>>

\* The handler is over, or mountFile goes on, below the frames above.
Continue(above) ==
  stack' = above \o (IF g.disk = None THEN Tail(stack) ELSE [stack EXCEPT ![1].pc = "install"])

\* The image is deleted in whatever drive it is now.
Delete ==
  /\ At("delete")
  /\ \/ /\ g.img = None
        /\ Continue(<<>>)
        /\ UNCHANGED <<drives, posted, buttons, misled, refused, fault>>
     \/ /\ g.img \in heap
        /\ Free(g.img)
        /\ dev' = [s \in Slots |-> IF dev[s] = g.img THEN None ELSE dev[s]]
        /\ posted' = posted \cup Posts(g.img, {s \in Slots : dev[s] = g.img})
        /\ Goto("empty")
        /\ UNCHANGED <<buttons, misled, fault>>
     \/ /\ g.img \in Image \ heap
        /\ Crash("pointer")

\* showAsEmpty and deviceStatusChanged; a drive with Auto-commit, in which
\* RCL has put another image meanwhile, has that one saved first.
Empty ==
  /\ At("empty")
  /\ \/ g.no \in auto /\ dev[g.no] = None /\ Crash("auto")
     \/ /\ g.no \in auto => dev[g.no] # None
        /\ Continue((IF g.no \in auto THEN <<Frame("commit", g.no, dev[g.no])>> ELSE <<>>)
                      \o <<Frame("changed", g.no, None)>>)
        /\ NoButtons(g.no) /\ auto' = auto \ {g.no}
        /\ UNCHANGED <<drives, posted, misled, refused, fault>>

\* installDevice deletes an occupant.
Install ==
  /\ At("install")
  /\ Free(dev[g.no])
  /\ dev' = [dev EXCEPT ![g.no] = g.disk]
  /\ posted' = posted \cup Posts(dev[g.no], {g.no}) \cup Posts(g.disk, {g.no})
  /\ Goto("show")
  /\ UNCHANGED <<buttons, misled, fault>>

\* The drive is updated and the image connected, which a new one already
\* is; then deviceStatusChanged.
Show ==
  /\ At("show")
  /\ \/ g.disk \notin heap /\ Crash("pointer")
     \/ /\ g.disk \in heap
        /\ connected' = connected \cup {g.disk}
        /\ stack' = [stack EXCEPT ![1] = Frame("changed", g.no, None)]
        /\ UNCHANGED <<dev, heap, modified, buttons, posted, misled, refused, fault>>

Atari ==
  \/ \E a, b \in Slots : Swap(a, b)
  \/ \E a \in Slots : Unmount(a) \/ Write(a) \/ RclSave(a)

User ==
  \/ \E no \in Slots : ClickSave(no) \/ ClickSaveAs(no) \/ ClickAuto(no) \/ BeginEject(no)
  \/ \E no \in Slots, d \in Image, new \in BOOLEAN : BeginMount(no, d, new)
  \/ FailedYes \/ GiveUp \/ SaveAs \/ RevertYes \/ RevertNo
  \/ UnsavedYes \/ UnsavedNo \/ UnsavedCancel

Gui ==
  \/ \E no \in Slots : TakePosted(no)
  \/ Changed \/ AutoSave \/ Paint \/ Commit \/ Update
  \/ EjectGet \/ Uninstall \/ Delete \/ Empty \/ Install \/ Show

Crashed == fault # "none" /\ UNCHANGED vars

Next == Atari \/ User \/ Gui \/ Crashed

Spec == Init /\ [][Next]_vars

-----------------------------------------------------------------------------
(***************************************************************************)
(* Properties.                                                             *)
(***************************************************************************)
\* The drives a handler is about to paint.
Pending == {stack[i].no : i \in {j \in DOMAIN stack :
             stack[j].pc \in {"delete", "empty", "install", "show", "changed", "paint"}}}

\* The buttons of a drive are enabled exactly when it holds an image they
\* can be used on, as soon as no change of the drive is still on its way:
\* whatever RCL swapped, unmounted and saved while handlers and dialogs of
\* the GUI were open.  Where a dialog outlived its image, or an image moved
\* before it was connected, the drive stays painted wrong (misled).
ButtonsTellDrives ==
  \A no \in Slots \ (posted \cup misled \cup Pending) :
    /\ no \in saveAs <=> dev[no] \in Plain
    /\ no \in save => dev[no] \in Plain

\* A button that can be clicked finds an image, unless RCL emptied the drive
\* and the change is still on its way, or the drive was painted wrong.
ClickMeetsImage ==
  \A no \in saveAs \cup save :
    Loops /\ dev[no] = None => no \in posted \cup misled

\* Auto-commit: when no handler runs and no change is on its way, an image
\* in a drive with Auto-commit has no unsaved changes, unless the user did
\* not save it when that failed or needed a name.
AutoCommits ==
  stack = <<>> =>
    \A no \in auto \ (posted \cup misled) : dev[no] \in modified => dev[no] \in refused

\* The manual: turn Auto-commit on and the disk can be unmounted.  The
\* program survives the end of its last disk.
UnmountAfterCommit == ~(fault = "auto" /\ heap = {})
=============================================================================
