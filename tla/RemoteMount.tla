---------------------------- MODULE RemoteMount ----------------------------
(***************************************************************************)
(* Mounting disk images, from the Atari and from the menus: the RCL        *)
(* commands 0x94-0x99 of src/src/sio/rcl.cpp and the mount handlers of     *)
(* src/src/ui/mainwindow.cpp.                                              *)
(*                                                                         *)
(* A remote mount is one signal after another.  The worker stores the      *)
(* file name in RCl::imageFileName and posts findNewSlot; the GUI runs     *)
(* firstEmptyDiskSlot, whose newSlot signal calls RCl::gotNewSlot, which   *)
(* calls mountFileWithDefaultProtection with imageFileName; fileMounted    *)
(* then writes the answer the Atari is waiting for.  firstEmptyDiskSlot    *)
(* emits newSlot whoever called it, and the signals the worker posts are   *)
(* also processed inside the modal dialogs of another handler.             *)
(*                                                                         *)
(* The table of devices, its mutex and the deletion of images are module   *)
(* SioDevices; here a drive holds the file mounted in it.                  *)
(***************************************************************************)
EXTENDS Naturals, Sequences, FiniteSetsExt, Functions

CONSTANTS NDrives,      \* DISK_COUNT
          RemoteFiles,  \* files of the RCL folder that the Atari names
          UserFiles,    \* files the user picks
          Empty,        \* no device at the drive; no name in imageFileName
          Raw,          \* a name without its "*", left by a refused 0x97
          NoName,       \* "*" alone: the Atari's name is that of no file
          MaxQueue      \* bound on the posted signals

ASSUME DrivesAndNames ==
  /\ NDrives \in Nat \ {0} /\ MaxQueue \in Nat
  /\ Empty \notin RemoteFiles \cup UserFiles \cup {Raw, NoName}
  /\ Raw \notin RemoteFiles \cup UserFiles \cup {NoName}
  /\ NoName \notin RemoteFiles \cup UserFiles

Drive == 1 .. NDrives
None  == 0               \* firstEmptyDiskSlot returned -1
Gone  == NDrives + 1     \* where a deleted image is
File  == RemoteFiles \cup UserFiles
Asked == RemoteFiles \cup {NoName}   \* what a remote mount passes on

VARIABLES
  table,    \* the file mounted in each drive
  unsaved,  \* the drives whose image is modified
  name,     \* RCl::imageFileName
  star,     \* g_rclFileName starts with "*"
  queue,    \* signals the worker posted to the GUI thread
  stack,    \* the GUI handlers that run, the innermost first (below)
  atari,    \* the file of the mount the Atari waits for, or Empty
  heard,    \* the last answer the Atari got
  moved,    \* history: the worker changed the table since a drive was chosen
  fault     \* a deleted image or a widget that does not exist was used

remote == <<name, queue, atari, heard>>
vars == <<table, unsaved, name, star, queue, stack, atari, heard, moved, fault>>

\* A handler: where it is, the drive and the file it mounts, where the image
\* it has fetched is now, whether it asks about unsaved changes, who named
\* the file, and whether every drive was taken when this one was chosen.
Frames == [pc : {"got", "open", "eject", "ask", "answer", "choose", "drop", "dropLast"},
           no : Drive \cup {None}, file : File \cup {Empty, Raw},
           img : Drive \cup {None, Gone}, ask : BOOLEAN, origin : {"user", "new", "rcl", "boot"},
           full : BOOLEAN]

Frame(l, d, f, who) == [pc |-> l, no |-> d, file |-> f, img |-> None, ask |-> TRUE,
                        origin |-> who, full |-> FALSE]

Signals == [kind : {"find"}, file : {Empty}] \cup [kind : {"mount"}, file : Asked]

TypeOK ==
  /\ table \in [Drive -> File \cup {Empty}]
  /\ unsaved \subseteq {d \in Drive : table[d] # Empty}
  /\ name \in Asked \cup {Empty, Raw} /\ star \in BOOLEAN
  /\ queue \in Seq(Signals) /\ Len(queue) <= MaxQueue
  /\ stack \in Seq(Frames) /\ Len(stack) <= 2
  /\ atari \in Asked \cup {Empty} /\ heard \in {"nothing", "complete", "nak"}
  /\ moved \in BOOLEAN /\ fault \in BOOLEAN

Init ==
  /\ table = [d \in Drive |-> Empty] /\ unsaved = {}
  /\ name = Empty /\ star = FALSE /\ queue = <<>>
  /\ stack = <<>>
  /\ atari = Empty /\ heard = "nothing"
  /\ moved = FALSE /\ fault = FALSE

-----------------------------------------------------------------------------
(***************************************************************************)
(* The commands of the Atari, each one handleCommand of the worker.  The   *)
(* Atari sends none while it waits for the answer to a mount, but it may   *)
(* give up waiting.                                                        *)
(***************************************************************************)
Command == ~fault /\ atari = Empty /\ UNCHANGED <<star, fault>>

Post(kind, f) ==
  /\ Len(queue) < MaxQueue
  /\ queue' = Append(queue, [kind |-> kind, file |-> f])

\* 0x96 and 0x97: the name is stored, findNewSlot is posted; the answer is
\* left to fileMounted.
RclMount(f) ==
  /\ Command /\ Post("find", Empty)
  /\ name' = f /\ atari' = f /\ heard' = "nothing"
  /\ UNCHANGED <<table, unsaved, stack, moved>>

\* Refused at once: no folder is known or the data frame is lost, and
\* nothing has changed; 0x97 with an attribute that is not 1 to 6 or for a
\* file that cannot be created, and the name is kept.
RclRefuse ==
  /\ Command
  /\ name' \in {name, Raw} /\ heard' = "nak"
  /\ UNCHANGED <<table, unsaved, queue, stack, atari, moved>>

\* 0x9A for a disk image: answered at once, mounted in the first drive.
RclMountBoot(f) ==
  /\ Command /\ Post("mount", f)
  /\ name' = f /\ heard' = "complete"
  /\ UNCHANGED <<table, unsaved, stack, atari, moved>>

\* Where the images that handlers have fetched are after a change of the
\* table: at[d] is where the image of d is.
Follow(frames, at) ==
  [i \in DOMAIN frames |->
     [frames[i] EXCEPT !.img = IF @ \in Drive THEN at[@] ELSE @]]

\* 0x94.
RclSwap(a, b) ==
  /\ Command /\ a # b
  /\ LET at == [d \in Drive |-> IF d = a THEN b ELSE IF d = b THEN a ELSE d]
     IN  /\ table' = [d \in Drive |-> table[at[d]]]
         /\ unsaved' = {at[d] : d \in unsaved}
         /\ stack' = Follow(stack, at)
  /\ moved' = TRUE
  /\ UNCHANGED remote

\* Defect: unsaved changes are not looked at.
RclUnmountAny(a) ==
  /\ Command /\ table[a] # Empty
  /\ table' = [table EXCEPT ![a] = Empty]
  /\ stack' = Follow(stack, [d \in Drive |-> IF d = a THEN Gone ELSE d])
  /\ moved' = TRUE
  /\ UNCHANGED <<unsaved, remote>>

\* 0x95 for one drive.
RclUnmount(a) ==
  /\ Command /\ a \notin unsaved /\ table[a] # Empty
  /\ table' = [table EXCEPT ![a] = Empty]
  /\ stack' = Follow(stack, [d \in Drive |-> IF d = a THEN Gone ELSE d])
  /\ moved' = TRUE
  /\ UNCHANGED <<unsaved, remote>>

\* 0x95 for all drives, which no drive with unsaved changes may hinder.
RclUnmountAll ==
  /\ Command /\ unsaved = {}
  /\ table' = [d \in Drive |-> Empty]
  /\ stack' = Follow(stack, [d \in Drive |-> Gone])
  /\ moved' = TRUE
  /\ UNCHANGED <<unsaved, remote>>

\* 0x99 for one drive; a sector written by the Atari.
RclSave(a) ==
  /\ Command /\ a \in unsaved
  /\ unsaved' = unsaved \ {a}
  /\ UNCHANGED <<table, remote, stack, moved>>

AtariWrite(a) ==
  /\ Command /\ table[a] # Empty
  /\ unsaved' = unsaved \cup {a}
  /\ UNCHANGED <<table, remote, stack, moved>>

\* fileMounted writes Complete or Data NAK: whoever waits hears it.
Answer(ok) ==
  /\ heard' = IF ok THEN "complete" ELSE "nak"
  /\ atari' = Empty

\* The time-out of the Atari's SIO call.
GiveUp ==
  /\ ~fault /\ atari # Empty
  /\ atari' = Empty
  /\ UNCHANGED <<table, unsaved, name, star, queue, stack, heard, moved, fault>>

Atari ==
  \/ \E f \in Asked : RclMount(f) \/ RclMountBoot(f)
  \/ RclRefuse \/ RclUnmountAll \/ GiveUp
  \/ \E a \in Drive : RclUnmount(a) \/ RclSave(a) \/ AtariWrite(a)
  \/ \E a, b \in Drive : RclSwap(a, b)

-----------------------------------------------------------------------------
(***************************************************************************)
(* The GUI thread: what starts a handler.                                  *)
(***************************************************************************)
Idle == ~fault /\ stack = <<>> /\ UNCHANGED <<name, atari, heard, fault>>

\* Defect: the first drive is not looked at.
FreeOffByOne(from) == {d \in from + 1 .. NDrives : table[d] = Empty}

\* The drives that firstEmptyDiskSlot finds empty.
Free(from) == {d \in from .. NDrives : table[d] = Empty}

\* The drive it returns.
FirstEmptyDiskSlot(from, createOne) ==
  IF Free(from) # {} THEN Min(Free(from)) ELSE IF createOne THEN NDrives ELSE None

\* It emits newSlot, so that gotNewSlot runs on top of its caller.
NewSlot(from, createOne, caller, rest) ==
  LET chosen(f) == [f EXCEPT !.no = FirstEmptyDiskSlot(from, createOne),
                             !.full = (Empty \notin Range(table))]
  IN  /\ stack' = <<chosen(Frame("got", None, Empty, "rcl"))>>
                     \o [i \in DOMAIN caller |-> chosen(caller[i])] \o rest
      /\ moved' = FALSE

\* Defect: g_rclFileName keeps the last remote name.
UserMountStale(d, f) ==
  /\ Idle
  /\ moved' = FALSE
  /\ stack' = <<Frame("open", d, f, "user")>>
  /\ UNCHANGED <<table, unsaved, queue, star>>

\* Mount on a drive.
UserMount(d, f) ==
  /\ Idle
  /\ star' = FALSE /\ moved' = FALSE
  /\ stack' = <<Frame("open", d, f, "user")>>
  /\ UNCHANGED <<table, unsaved, queue>>

\* Mount from the menu or from the recent files; New image; the second file
\* dropped on drive d.
UserFind(from, createOne, f) ==
  /\ Idle
  /\ NewSlot(from, createOne, <<f>>, <<>>)
  /\ UNCHANGED <<table, unsaved, star, queue>>

UserMenu == UserFind(1, TRUE, Frame("choose", None, Empty, "user"))

UserNew(f) == UserFind(1, TRUE, Frame("eject", None, f, "new"))

UserDrop(d, f) == UserFind(d, FALSE, Frame("drop", None, f, "user"))

\* A session: all drives are ejected, with a question about each unsaved
\* one, and its files mounted, without mountFileWithDefaultProtection; a
\* drive the session leaves empty is a mount of no file.
UserSession(f) ==
  /\ ~fault /\ stack = <<>>
  /\ table' = [d \in Drive |-> Empty] /\ unsaved' = {}
  /\ stack' = <<Frame("open", 1, f, "user")>>
  /\ IF star /\ NDrives > 1 THEN Answer(FALSE) ELSE UNCHANGED <<atari, heard>>
  /\ moved' = FALSE
  /\ UNCHANGED <<name, star, queue, fault>>

UserEject(d) ==
  /\ Idle /\ table[d] # Empty
  /\ table' = [table EXCEPT ![d] = Empty] /\ unsaved' = unsaved \ {d}
  /\ UNCHANGED <<star, queue, stack, moved>>

\* The event loop, or the one of a dialog, takes the next signal.
ProcessSignal ==
  /\ ~fault /\ queue # <<>>
  /\ stack = <<>> \/ (Len(stack) = 1 /\ stack[1].pc \in {"ask", "choose"})
  /\ queue' = Tail(queue)
  /\ \/ /\ Head(queue).kind = "find"
        /\ NewSlot(1, TRUE, <<>>, stack)
        /\ UNCHANGED <<star, atari, heard>>
     \/ /\ Head(queue).kind = "mount" /\ Head(queue).file # NoName
        /\ stack' = <<Frame("open", 1, Head(queue).file, "boot")>> \o stack
        /\ star' = TRUE /\ UNCHANGED <<atari, heard, moved>>
     \/ /\ Head(queue).kind = "mount" /\ Head(queue).file = NoName
        /\ star' = TRUE /\ Answer(FALSE)
        /\ UNCHANGED <<stack, moved>>
  /\ UNCHANGED <<table, unsaved, name, fault>>

-----------------------------------------------------------------------------
(***************************************************************************)
(* The steps of the innermost handler g.                                   *)
(***************************************************************************)
At(l) == ~fault /\ stack # <<>> /\ stack[1].pc = l /\ UNCHANGED <<name, queue>>
g == stack[1]

Goto(l) == stack' = [stack EXCEPT ![1].pc = l]
Return  == stack' = Tail(stack)

\* The program uses what does not exist.
Fault == fault' = TRUE /\ UNCHANGED <<table, unsaved, star, stack, atari, heard, moved>>

\* fileMounted, if the last name passed to mountFileWithDefaultProtection
\* was a remote one; newImage does not emit it.
FileMounted(ok) ==
  IF star /\ g.origin # "new" THEN Answer(ok) ELSE UNCHANGED <<atari, heard>>

\* gotNewSlot and mountFileWithDefaultProtection.  Without a name nothing is
\* mounted; "*" alone is answered at once.
GotNewSlot ==
  /\ At("got")
  /\ star' = (name \in Asked)
  /\ IF name \in {Empty, NoName} THEN Return
     ELSE stack' = [stack EXCEPT ![1].pc = "open", ![1].file = name]
  /\ IF name = NoName THEN Answer(FALSE) ELSE UNCHANGED <<atari, heard>>
  /\ UNCHANGED <<table, unsaved, moved, fault>>

\* Defect: the failure is not told to the Atari.
OpenFailsSilent ==
  /\ At("open") /\ g.no # None
  /\ Return
  /\ UNCHANGED <<table, unsaved, star, atari, heard, moved, fault>>

\* mountFile: the file cannot be opened, or can and it is known whether to
\* ask; drive -1 has no settings and no widget.
OpenFails ==
  /\ At("open") /\ g.no # None
  /\ FileMounted(FALSE) /\ Return
  /\ UNCHANGED <<table, unsaved, star, moved, fault>>

Open ==
  /\ At("open") /\ g.no # None /\ g.file \in File
  /\ stack' = [stack EXCEPT ![1].pc = "eject", ![1].ask = ~star]
  /\ UNCHANGED <<table, unsaved, star, atari, heard, moved, fault>>

OpenNowhere == At("open") /\ g.no = None /\ Fault

\* The image at drive d is deleted, the new one installed at g.no.
Replace(d) ==
  /\ table' = [table EXCEPT ![d] = Empty, ![g.no] = g.file]
  /\ unsaved' = unsaved \ {d, g.no}
  /\ stack' = [Follow(stack, [e \in Drive |-> IF e \in {d, g.no} THEN Gone ELSE e])
                EXCEPT ![1].pc = "answer", ![1].img = None]
  /\ UNCHANGED <<star, atari, heard, moved, fault>>

\* ejectImage without a question, and installDevice.
Eject ==
  /\ At("eject")
  /\ ~(g.ask /\ g.no \in unsaved)
  /\ Replace(g.no)

Ask ==
  /\ At("eject")
  /\ g.ask /\ g.no \in unsaved
  /\ stack' = [stack EXCEPT ![1].pc = "ask", ![1].img = g.no]
  /\ UNCHANGED <<table, unsaved, star, atari, heard, moved, fault>>

\* Yes or No: the image fetched before the question is deleted.
AskEject ==
  /\ At("ask")
  /\ \/ g.img \in Drive /\ Replace(g.img)
     \/ g.img = Gone /\ Fault

AskCancel ==
  /\ At("ask")
  /\ FileMounted(FALSE) /\ Return
  /\ UNCHANGED <<table, unsaved, star, moved, fault>>

Mounted ==
  /\ At("answer")
  /\ FileMounted(TRUE) /\ Return
  /\ UNCHANGED <<table, unsaved, star, moved, fault>>

-----------------------------------------------------------------------------
\* The user picks a file in the dialog, or none.
Choose(f) ==
  /\ At("choose")
  /\ star' = FALSE
  /\ stack' = [stack EXCEPT ![1].pc = "open", ![1].file = f]
  /\ UNCHANGED <<table, unsaved, atari, heard, moved, fault>>

ChooseNone ==
  /\ At("choose") /\ Return
  /\ UNCHANGED <<table, unsaved, star, atari, heard, moved, fault>>

\* Defect: drive -1 is not told from a drive.
DropAnywhere(l) ==
  /\ At(l)
  /\ star' = FALSE /\ Goto("open")
  /\ UNCHANGED <<table, unsaved, atari, heard, moved, fault>>

\* dropEvent: the file goes to the drive found.
DropOn(l) ==
  /\ At(l) /\ g.no # None
  /\ star' = FALSE /\ Goto("open")
  /\ UNCHANGED <<table, unsaved, atari, heard, moved, fault>>

\* None found above the first file's drive: once more from drive 1.
DropAgain ==
  /\ At("drop") /\ g.no = None
  /\ NewSlot(1, FALSE, <<[g EXCEPT !.pc = "dropLast"]>>, Tail(stack))
  /\ UNCHANGED <<table, unsaved, star, atari, heard, fault>>

DropRefused ==
  /\ At("dropLast") /\ g.no = None /\ Return
  /\ UNCHANGED <<table, unsaved, star, atari, heard, moved, fault>>

User ==
  \/ \E f \in UserFiles : \/ \E d \in Drive : UserMount(d, f) \/ UserDrop(d, f)
                          \/ UserNew(f) \/ UserSession(f) \/ Choose(f)
  \/ UserMenu \/ (\E d \in Drive : UserEject(d))
  \/ AskEject \/ AskCancel \/ ChooseNone

Gui ==
  \/ ProcessSignal \/ GotNewSlot \/ OpenFails \/ Open \/ OpenNowhere \/ Eject \/ Ask \/ Mounted
  \/ DropOn("drop") \/ DropOn("dropLast") \/ DropAgain \/ DropRefused

Crashed == fault /\ UNCHANGED vars

Next == Atari \/ User \/ Gui \/ Crashed

(***************************************************************************)
(* A handler that runs goes on, and Qt takes posted signals and the events *)
(* of the user in turn, so a signal is not kept back for ever by a user    *)
(* who never stops.  Nothing is assumed of the user, who may leave a       *)
(* dialog open for ever, or of the Atari.                                  *)
(***************************************************************************)
Spec == Init /\ [][Next]_vars /\ WF_vars(Gui) /\ SF_vars(ProcessSignal)

-----------------------------------------------------------------------------
(***************************************************************************)
(* Properties.                                                             *)
(***************************************************************************)
\* Every remote mount is answered, whatever the GUI is busy with, also when
\* a dialog is open, unless the program has crashed.
MountAnswered == atari # Empty ~> atari = Empty \/ fault

\* g is about to delete the image in drive d, without a question.
Ejects(d) == stack # <<>> /\ g.pc = "eject" /\ g.no = d /\ stack' # <<>> /\ stack'[1].pc = "answer"

\* A file the user chose never replaces an image with unsaved changes
\* without a question, although mountFile learns from a global that any
\* remote mount may have set which of the two it is mounting.
AskedBeforeLoss ==
  [][\A d \in unsaved : Ejects(d) => g.origin \in {"rcl", "boot"}]_vars

\* A remote mount of 0x96 takes the place of an image only if the worker
\* moved images since its drive was chosen, or every drive was taken then;
\* that case, in which unsaved changes are lost too, is FullIsRefused, and
\* the last drive is the only one it can meet.
SparesImages ==
  [][\A d \in Drive : Ejects(d) /\ g.origin = "rcl" /\ table[d] # Empty =>
       moved \/ (g.full /\ d = NDrives)]_vars

\* As long as the Atari has mounted nothing by name, no handler uses drive
\* -1 or an image replaced behind its question.
NoFaultWithoutRcl == fault => name # Empty \/ moved

\* The protocol: NAK for a mount of 0x96 when there is no free slot.  The
\* signal of it, taken by the event loop of the idle window, has found none,
\* and nothing has moved since.
FullIsRefused ==
  [][Len(stack) = 1 /\ g.origin = "rcl" /\ g.full /\ ~moved
       /\ atari # Empty /\ heard' # heard => heard' = "nak"]_vars
=============================================================================
