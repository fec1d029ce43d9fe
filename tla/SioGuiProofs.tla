---------------------------- MODULE SioGuiProofs ----------------------------
(***************************************************************************)
(* Proofs about the raw pointers of the GUI, for any sets of drives,       *)
(* images and folders: what a handler has fetched from the table outside   *)
(* the mutex stays what it was, unless the worker interferes (raced).      *)
(* And about the copy of the addresses that the port has.                  *)
(***************************************************************************)
EXTENDS SioDevicesProofs

\* AskYes: the save that the question of an eject asked for.
Ending == gui.pc \in Saves /\ gui.ret = "uninstall"

\* autoSaveDisk, deviceStatusChanged: the image fetched is used after the save.
Painting == \/ gui.pc \in {"update", "autosaving"}
            \/ gui.pc \in Saves \ {"saveGet"} /\ gui.ret = "update"

\* A deleted image has no unsaved changes, nor has one that mountFile holds.
Clean ==
  /\ modified \subseteq table.live
  /\ Where \in Before => gui.disk \notin modified

\* ejectImage: the image fetched is the one at its drive until it is out of
\* the table; then it is nowhere, and the drive stays empty until mountFile
\* fills it.  Unsaved changes that it still has are given up, or nobody asks.
EjectHeld ==
  /\ gui.pc \in {"ask", "uninstall"} \/ Ending => gui.img = table.dev[gui.no]
  /\ Where = "delete" /\ gui.img # NoDevice =>
       gui.img \in table.live /\ table.no[gui.img] = NoAddress
  /\ Where \in {"delete", "install"} => table.dev[gui.no] = NoDevice
  /\ Where \in {"uninstall", "delete"} /\ gui.img \in modified => gui.discard \/ ~gui.ask

\* saveDisk, openEditor and auto-commit: the image fetched exists, and is the
\* one that an eject in progress is about.
SaveHeld ==
  /\ gui.pc = "ask" \/ Ending => table.dev[gui.no] # NoDevice
  /\ Ending /\ gui.pc \notin {"saveGet", "asGet"} => gui.sav = gui.img
  /\ gui.pc \in (Saves \ {"saveGet", "asGet"}) \cup {"edLock"} => gui.sav \in table.live
  /\ Painting => gui.img \in table.live

\* mountFile: once installed, its image exists until the drive is painted.
Mounted == {"setLink", "changeLink", "relinkEnd", "show"}

MountHeld == Where \in Mounted => gui.disk \in table.live

Held == EjectHeld /\ SaveHeld /\ MountHeld

\* The port has been told, or is about to be told, what is installed.
Told ==
  /\ gui.pc = "publish" /\ ~stale => gui.scan = Installed(table)
  /\ gui.pc \notin {"scan", "publish"} /\ ~stale => active = Installed(table)

GInv == Clean /\ (fault => raced \/ EmptyDrive) /\ (~raced => Held) /\ Told

(***************************************************************************)
(* Facts that several steps use.                                           *)
(***************************************************************************)
\* Where nothing is held.
Free == {"idle", "unlink", "resetLink", "relinkEject", "getImg", "unlinkSwap", "swapLinks",
         "relinkSwap"}

LEMMA FreeHands ==
  ASSUME Where' \in Free
  PROVE  Held'
<1>1. gui'.pc \in Free \cup {"scan", "publish"}
  BY DEF Where, Free
<1> QED BY <1>1
    DEF Where, Held, EjectHeld, SaveHeld, MountHeld, Mounted, Ending, Painting, Saves, Free

LEMMA IdleHands ==
  ASSUME gui = Idle
  PROVE  Held /\ Where \notin Before
BY DEF Idle, Where, Before, Held, EjectHeld, SaveHeld, MountHeld, Mounted, Ending, Painting, Saves

LEMMA InitGInv == Init => GInv
<1> SUFFICES ASSUME Init PROVE GInv
  OBVIOUS
<1>1. Held /\ Where \notin Before /\ modified = {} /\ fault = FALSE
  BY IdleHands DEF Init
<1>2. PCLINK # NoDevice /\ RCL # NoDevice /\ PCLINK \in Address /\ RCL \in Address
  BY FixedDevices DEF Device, Address
<1>3. active = Installed(table)
  BY <1>2 DEF Init, Installed
<1>4. gui.pc = "idle"
  BY DEF Init, Idle
<1> QED BY <1>1, <1>3, <1>4 DEF GInv, Clean, Told

\* A step that the invariant does not see.
LEMMA UnseenG ==
  ASSUME GInv, UNCHANGED <<table, modified, active, gui, raced, stale>>, fault' => fault \/ raced \/ EmptyDrive
  PROVE  GInv'
<1>1. Where' = Where /\ Ending' = Ending /\ Painting' = Painting /\ EmptyDrive' = EmptyDrive
  BY DEF Where, Ending, Painting, EmptyDrive
<1> QED BY <1>1 DEF GInv, Clean, Held, EjectHeld, SaveHeld, MountHeld, Mounted, Told

(***************************************************************************)
(* The worker.                                                             *)
(***************************************************************************)
LEMMA WriteKeepsG ==
  ASSUME IInv, GInv, HandleWrite \/ \E S \in SUBSET Slots : HandleSave(S)
  PROVE  GInv'
<1>1. /\ UNCHANGED <<table, active, gui, stale, fault>>
      /\ wdev \in table.live /\ wdev \in Device /\ table.no[wdev] # NoAddress
      /\ modified' \subseteq modified \cup {wdev} /\ (raced => raced')
      /\ wdev \in modified' \ modified => wdev # gui.img \/ raced'
  <2>1. wpc = "handling" /\ UNCHANGED <<table, active, gui, stale, fault>>
    BY DEF HandleWrite, HandleSave, Return
  <2>2. wdev \in table.live /\ wdev \in Device /\ table.no[wdev] # NoAddress
    BY <2>1, OnePlace DEF IInv, HandlerOwnsDevice, HandlerOK
  <2>3. /\ modified' \subseteq modified \cup {wdev} /\ (raced => raced')
        /\ wdev \in modified' \ modified => wdev # gui.img \/ raced'
    <3>1. CASE HandleWrite
      <4>1. /\ modified' = modified \cup {wdev}
            /\ raced' = (raced \/ (wdev = gui.img /\ wdev \notin modified))
        BY <3>1 DEF HandleWrite
      <4>2. (raced => raced') /\ (wdev = gui.img /\ wdev \notin modified => raced')
        BY <4>1, Zenon
      <4> QED BY <4>1, <4>2
    <3>2. ASSUME NEW S \in SUBSET Slots, HandleSave(S)
          PROVE  modified' \subseteq modified /\ (raced => raced')
      BY <3>2 DEF HandleSave
    <3> QED BY <3>1, <3>2
  <2> QED BY <2>1, <2>2, <2>3
<1>2. Where' = Where /\ Ending' = Ending /\ Painting' = Painting /\ EmptyDrive' = EmptyDrive
  BY <1>1 DEF Where, Ending, Painting, EmptyDrive
<1>3. Where \in Before => gui.disk # wdev
  BY <1>1, FixedDevices DEF IInv, PlanOK
<1>4. Clean'
  BY <1>1, <1>2, <1>3 DEF GInv, Clean
<1>5. ~raced' => Held'
  BY <1>1, <1>2 DEF GInv, Held, EjectHeld, SaveHeld, MountHeld, Mounted
<1> QED BY <1>1, <1>2, <1>4, <1>5 DEF GInv, Told

\* A command of RCL that changes the table.
LEMMA InterfereKeepsG ==
  ASSUME GInv, Interfere, ~fault, UNCHANGED <<gui, fault>>, modified' \subseteq modified,
         modified' \subseteq table'.live
  PROVE  GInv'
<1>1. Where' = Where
  BY DEF Where
<1>2. gui.pc = "idle" => Held'
  <2>1. gui.pc = "idle" => Where' \in Free
    BY <1>1 DEF Where, Free
  <2> QED BY <2>1, FreeHands
<1>3. Told'
  BY DEF Interfere, Told, Installed
<1> QED BY <1>1, <1>2, <1>3 DEF GInv, Clean, Interfere

LEMMA WorkerKeepsG ==
  ASSUME IInv, GInv, Worker
  PROVE  GInv'
<1>1. CASE HandleOther \/ \E a \in Address : Dispatch(a)
  BY <1>1, UnseenG DEF HandleOther, Return, Dispatch
<1>2. CASE HandleWrite
  BY <1>2, WriteKeepsG
<1>3. ASSUME NEW a \in Slots, NEW b \in Slots, HandleSwap(a, b) PROVE GInv'
  <2>1. table \in Tables /\ Consistent(table) /\ a \in Address /\ b \in Address
    BY DEF IInv, TypeOK, TableConsistent, Address
  <2>2. table'.live = table.live
    BY <1>3, <2>1, SwapTable DEF HandleSwap
  <2> QED BY <1>3, <2>2, InterfereKeepsG DEF HandleSwap, Return, GInv, Clean
<1>4. CASE Unmount
  BY <1>4, InterfereKeepsG DEF Unmount, Return, GInv, Clean
<1>5. ASSUME NEW S \in SUBSET Slots, HandleSave(S) PROVE GInv'
  BY <1>5, WriteKeepsG
<1>6. \A S \in {{a} : a \in Slots} \cup {Slots} : S \in SUBSET Slots
  OBVIOUS
<1>7. ASSUME NEW S \in SUBSET Slots, CheckUnmount(S) PROVE GInv'
  BY <1>7, UnseenG DEF CheckUnmount, shared
<1> QED BY <1>1, <1>2, <1>3, <1>4, <1>5, <1>6, <1>7 DEF Worker, Serve

(***************************************************************************)
(* The GUI.                                                                *)
(***************************************************************************)
\* Where a handler goes, with its variables.
LEMMA Gone ==
  ASSUME IInv, NEW g \in GuiStates, NEW l \in Label, Goto(g, l), l # "idle"
  PROVE  /\ gui' = [g EXCEPT !.pc = l] /\ gui'.pc = l
         /\ gui'.ret = g.ret /\ gui'.no = g.no /\ gui'.disk = g.disk /\ gui'.scan = g.scan
         /\ gui'.img = g.img /\ gui'.sav = g.sav /\ gui'.discard = g.discard
         /\ gui'.ask = g.ask
<1>1. gui' = [g EXCEPT !.pc = l]
  BY GotoType DEF IInv
<1> QED BY <1>1 DEF GuiStates

\* What has to be shown of a step of the GUI.
LEMMA GuiKeepsG ==
  ASSUME IInv, GInv, NEW g \in GuiStates, NEW l \in Label, Goto(g, l), ~fault,
         modified' \subseteq table'.live, Told',
         l # "idle" => (Where' \in Before => gui'.disk \notin modified') /\ (~raced => Held')
  PROVE  GInv'
<1>1. ~fault' /\ raced' = (raced /\ l # "idle")
  BY DEF Goto
<1>2. l = "idle" => Held' /\ Where' \notin Before
  <2>1. l = "idle" => gui' = Idle
    BY DEF Goto
  <2>2. l = "idle" => Where' = "idle"
    BY <2>1 DEF Idle, Where
  <2>3. "idle" \in Free /\ "idle" \notin Before
    BY DEF Free, Before, Saves
  <2> QED BY <2>2, <2>3, FreeHands
<1> QED BY <1>1, <1>2 DEF GInv, Clean

LEMMA ToldStays ==
  ASSUME GInv, gui.pc \notin {"scan", "publish"}, gui'.pc \notin {"scan", "publish"},
         table'.dev = table.dev, active' = active, stale' = stale
  PROVE  Told'
BY DEF GInv, Told, Installed

LEMMA ToldScan ==
  ASSUME gui'.pc = "scan"
  PROVE  Told'
BY DEF Told

\* The handlers the user starts.
LEMMA BeginMountKeepsG ==
  ASSUME IInv, GInv, NEW no \in Slots, NEW d \in Images, NEW ask \in BOOLEAN,
         BeginMount(no, d, ask)
  PROVE  GInv'
<1> DEFINE g == [Idle EXCEPT !.no = no, !.disk = d, !.ask = ask]
<1>1. Goto(g, "unlink") /\ g \in GuiStates /\ "unlink" \in Label /\ g.disk = d
  BY DEF BeginMount, Idle, GuiStates, Label
<1>2. /\ table'.dev = table.dev /\ table'.live = table.live \cup {d} /\ d \notin table.live
      /\ UNCHANGED <<modified, active, stale>> /\ gui.pc = "idle" /\ ~fault
  BY DEF BeginMount, At, IInv, TypeOK, Tables
<1> HIDE DEF g
<1>3. gui'.pc = "unlink" /\ gui'.disk = d
  BY <1>1, Gone
<1>4. Held'
  BY <1>3, FreeHands DEF Where, Free
<1>5. Told'
  BY <1>2, <1>3, ToldStays
<1>6. modified' \subseteq table'.live /\ gui'.disk \notin modified'
  BY <1>2, <1>3 DEF GInv, Clean
<1> QED BY <1>1, <1>2, <1>4, <1>5, <1>6, GuiKeepsG

LEMMA BeginKeepsG ==
  ASSUME IInv, GInv, NEW no \in Slots,
         BeginEject(no) \/ BeginSave(no) \/ BeginAutoSave(no) \/ OpenEditor(no)
  PROVE  GInv'
<1>0. /\ table.dev[no] \in Images \cup {NoDevice}
      /\ table.dev[no] # NoDevice => table.dev[no] \in table.live
      /\ NoDevice \notin table.live
  <2>1. no \in Address /\ table.dev[no] \in Images \cup {NoDevice}
    BY DEF IInv, Fixed, Address
  <2>2. Images \subseteq Device
    BY DEF Device
  <2> QED BY <2>1, <2>2, OnePlace
<1>1. PICK g \in GuiStates, l \in {"unlink", "saveGet", "asGet", "autosaving", "edLock"} :
        /\ Goto(g, l) /\ g.disk = NoDevice /\ g.ret \in {"idle", "update"}
        /\ l = "asGet" => g.ret = "idle"
        /\ l \in {"autosaving", "edLock"} => g.sav = table.dev[no]
        /\ l = "autosaving" => g.img = table.dev[no]
  <2> DEFINE e == [Idle EXCEPT !.no = no]
             s(r) == [Idle EXCEPT !.no = no, !.ret = r]
             x == [Idle EXCEPT !.no = no, !.img = table.dev[no], !.sav = table.dev[no],
                               !.ret = "update"]
             y == [Idle EXCEPT !.sav = table.dev[no]]
  <2>1. /\ e \in GuiStates /\ e.disk = NoDevice /\ e.ret = "idle"
        /\ \A r \in {"idle", "update"} : s(r) \in GuiStates /\ s(r).disk = NoDevice /\ s(r).ret = r
        /\ x \in GuiStates /\ x.disk = NoDevice /\ x.ret = "update"
        /\ x.sav = table.dev[no] /\ x.img = table.dev[no]
        /\ y \in GuiStates /\ y.disk = NoDevice /\ y.ret = "idle" /\ y.sav = table.dev[no]
    BY <1>0 DEF Idle, GuiStates, Label
  <2>2. \/ Goto(e, "unlink") \/ Goto(e, "asGet") \/ Goto(x, "autosaving") \/ Goto(y, "edLock")
        \/ \E r \in {"idle", "update"} : Goto(s(r), "saveGet")
    BY DEF BeginEject, BeginSave, BeginAutoSave, OpenEditor
  <2> HIDE DEF e, s, x, y
  <2> QED BY <2>1, <2>2
<1>2. /\ UNCHANGED <<table, modified, active, stale>> /\ gui.pc = "idle" /\ ~fault
      /\ modified \subseteq table.live
  BY DEF BeginEject, BeginSave, BeginAutoSave, OpenEditor, At, shared, GInv, Clean
<1>3. l \in {"autosaving", "edLock"} => table.dev[no] \in table.live
  <2>1. CASE BeginAutoSave(no) \/ OpenEditor(no)
    BY <1>0, <1>2, <2>1 DEF BeginAutoSave, OpenEditor
  <2>2. CASE BeginEject(no) \/ BeginSave(no)
    <3>1. gui'.pc \in {"unlink", "saveGet", "asGet"}
      BY <2>2 DEF BeginEject, BeginSave, Goto, Idle
    <3>2. l \in Label
      BY DEF Label
    <3> QED BY <1>1, <3>1, <3>2, Gone
  <2> QED BY <2>1, <2>2
<1>4. l \in Label /\ l # "idle"
  BY DEF Label
<1>5. /\ gui'.pc = l /\ gui'.disk = NoDevice /\ gui'.ret = g.ret /\ gui'.sav = g.sav
      /\ gui'.img = g.img
  BY <1>1, <1>4, Gone
<1>6. Held'
  BY <1>1, <1>2, <1>3, <1>5
  DEF Where, Held, EjectHeld, SaveHeld, MountHeld, Mounted, Ending, Painting, Saves
<1>7. Told'
  BY <1>2, <1>5, ToldStays
<1>8. modified' \subseteq table'.live /\ gui'.disk \notin modified'
  BY <1>0, <1>2, <1>5
<1> QED BY <1>1, <1>2, <1>4, <1>6, <1>7, <1>8, GuiKeepsG

\* A save moves on, with the fields of g, to a label l: what has to be shown.
LEMMA SaveMovesG ==
  ASSUME IInv, GInv, ~fault, gui.pc \in Saves, NEW g \in GuiStates,
         NEW l \in (Saves \ {"saveGet", "autosaving"}) \cup {"idle", "uninstall", "update"},
         Goto(g, l), g.no = gui.no, g.disk = gui.disk, g.ret = gui.ret, g.ask = gui.ask,
         UNCHANGED <<table, active, stale>>, modified' \subseteq modified,
         ~raced =>
           /\ g.ret = "uninstall" => g.img = gui.img
           /\ l \in Saves \ {"asGet"} =>
                g.sav \in table.live /\ (g.ret = "uninstall" => g.sav = g.img)
           /\ l = "uninstall" => g.ret = "uninstall" /\ (g.img \in modified' => g.discard = TRUE)
           /\ l = "update" \/ (l \in Saves /\ g.ret = "update") => g.img \in table.live
  PROVE  GInv'
<1>0. /\ gui \in GuiStates /\ Where = gui.pc /\ gui.pc \in Before
      /\ modified \subseteq table.live /\ gui.disk \notin modified
      /\ gui.pc \notin {"scan", "publish"}
  BY DEF IInv, TypeOK, Where, Saves, Before, GInv, Clean
<1>1. l \in Label /\ l \notin {"scan", "publish"}
  BY DEF Label, Saves
<1>2. l # "idle" =>
        /\ gui'.pc = l /\ gui'.no = gui.no /\ gui'.disk = gui.disk /\ gui'.ret = gui.ret
        /\ gui'.img = g.img /\ gui'.sav = g.sav /\ gui'.discard = g.discard
        /\ gui'.ask = gui.ask /\ Where' = l
  <2>1. l # "idle" =>
          /\ gui'.pc = l /\ gui'.no = gui.no /\ gui'.disk = gui.disk /\ gui'.ret = gui.ret
          /\ gui'.img = g.img /\ gui'.sav = g.sav /\ gui'.discard = g.discard
          /\ gui'.ask = gui.ask
    BY <1>1, Gone
  <2> QED BY <1>1, <2>1 DEF Where
<1>3. ASSUME l # "idle", ~raced PROVE Held'
  <2>1. /\ gui.ret = "uninstall" => gui.img = table.dev[gui.no] /\ table.dev[gui.no] # NoDevice
    BY <1>0, <1>3 DEF GInv, Held, EjectHeld, SaveHeld, Ending
  <2>2. EjectHeld'
    BY <1>2, <1>3, <2>1 DEF EjectHeld, Ending, Saves
  <2>3. SaveHeld'
    BY <1>2, <1>3, <2>1 DEF SaveHeld, Ending, Painting, Saves
  <2>4. MountHeld'
    BY <1>2, <1>3 DEF MountHeld, Mounted, Saves
  <2> QED BY <2>2, <2>3, <2>4 DEF Held
<1>4. l # "idle" => (Where' \in Before => gui'.disk \notin modified')
  BY <1>0, <1>2
<1>5. Told'
  <2>1. gui'.pc = l
    BY <1>1, GotoType DEF IInv
  <2> QED BY <1>0, <1>1, <2>1, ToldStays
<1> QED BY <1>0, <1>1, <1>3, <1>4, <1>5, GuiKeepsG

\* The image to be saved is fetched.
LEMMA SaveGetKeepsG ==
  ASSUME IInv, GInv, SaveGet \/ AsGet
  PROVE  GInv'
<1>0. /\ gui \in GuiStates /\ ~fault /\ gui.pc \in {"saveGet", "asGet"} /\ gui.pc \in Saves
      /\ gui.no \in Slots /\ gui.no \in Address
  BY DEF SaveGet, AsGet, At, IInv, TypeOK, PlanOK, Where, Saves, Address
<1>1. CASE Crash
  <2>1. raced \/ EmptyDrive
    <3> SUFFICES ASSUME ~raced PROVE EmptyDrive
      OBVIOUS
    <3>1. table.dev[gui.no] = NoDevice
      BY <1>0, <1>1 DEF SaveGet, AsGet, At, Crash, Goto
    <3> QED BY <1>0, <3>1 DEF GInv, Held, SaveHeld, Ending, EmptyDrive
  <2> QED BY <1>1, <2>1, UnseenG DEF Crash, shared
<1>2. CASE ~Crash
  <2>1. table.dev[gui.no] # NoDevice /\ UNCHANGED <<table, modified, active, stale>>
    BY <1>2 DEF SaveGet, AsGet, shared
  <2>2. table.dev[gui.no] \in Images /\ table.dev[gui.no] \in table.live
    BY <1>0, <2>1, OnePlace DEF IInv, Fixed, Device
  <2>3. PICK g \in GuiStates, l \in {"saveLock", "asGet", "fileDialog"} :
          /\ Goto(g, l) /\ g.no = gui.no /\ g.disk = gui.disk /\ g.ret = gui.ret
          /\ g.ask = gui.ask /\ g.sav = table.dev[gui.no]
          /\ gui.pc = "saveGet" /\ gui.ret = "update" => g.img = table.dev[gui.no]
          /\ gui.pc = "asGet" \/ gui.ret # "update" => g.img = gui.img
    <3> DEFINE x == [gui EXCEPT !.sav = table.dev[gui.no],
                                !.img = IF gui.ret = "update" THEN table.dev[gui.no] ELSE @]
               y == [gui EXCEPT !.sav = table.dev[gui.no], !.as = TRUE]
    <3>1. /\ x \in GuiStates /\ x.no = gui.no /\ x.disk = gui.disk /\ x.ret = gui.ret
          /\ x.ask = gui.ask /\ x.sav = table.dev[gui.no]
          /\ x.img = IF gui.ret = "update" THEN table.dev[gui.no] ELSE gui.img
      BY <1>0, <2>2 DEF GuiStates
    <3>2. /\ y \in GuiStates /\ y.no = gui.no /\ y.disk = gui.disk /\ y.ret = gui.ret
          /\ y.ask = gui.ask /\ y.sav = table.dev[gui.no] /\ y.img = gui.img
      BY <1>0, <2>2 DEF GuiStates
    <3>3. \/ gui.pc = "saveGet" /\ \E l \in {"saveLock", "asGet"} : Goto(x, l)
          \/ gui.pc = "asGet" /\ Goto(y, "fileDialog")
      BY <1>2 DEF SaveGet, AsGet, At
    <3> HIDE DEF x, y
    <3> QED BY <3>1, <3>2, <3>3
  <2>4. ~raced => /\ gui.ret = "uninstall" => gui.img = table.dev[gui.no]
                  /\ gui.pc = "asGet" /\ gui.ret = "update" => gui.img \in table.live
    BY <1>0 DEF GInv, Held, EjectHeld, SaveHeld, Ending, Painting
  <2>5. l \in Saves \ {"saveGet", "autosaving"} /\ l \notin {"uninstall", "update"}
    BY DEF Saves
  <2> QED BY <1>0, <2>1, <2>2, <2>3, <2>4, <2>5, SaveMovesG
<1> QED BY <1>1, <1>2

\* The dialogs of a save.
LEMMA DialogKeepsG ==
  ASSUME IInv, GInv, ChooseFile \/ CancelFile \/ FailedYes \/ FailedNo
  PROVE  GInv'
<1>0. /\ gui \in GuiStates /\ ~fault /\ gui.pc \in {"fileDialog", "failed"} /\ gui.pc \in Saves
      /\ gui.ret \in {"idle", "uninstall", "update"}
  BY DEF ChooseFile, CancelFile, FailedYes, FailedNo, At, IInv, TypeOK, PlanOK, Saves
<1>1. ~raced => /\ gui.sav \in table.live
                /\ gui.ret = "uninstall" => gui.sav = gui.img
                /\ gui.ret = "update" => gui.img \in table.live
  BY <1>0 DEF GInv, Held, SaveHeld, Ending, Painting
<1>2. CASE Crash
  <2>1. raced
    BY <1>0, <1>1, <1>2 DEF ChooseFile, CancelFile, FailedYes, FailedNo, Crash, Goto, SaveOver
  <2> QED BY <1>2, <2>1, UnseenG DEF Crash, shared
<1>3. CASE ~Crash
  <2>1. UNCHANGED <<table, modified, active, stale>>
    BY <1>3 DEF ChooseFile, CancelFile, FailedYes, FailedNo, shared
  <2>2. PICK g \in GuiStates,
             l \in {"idle", "uninstall", "update", "saveLock", "fileDialog", "asGet"} :
          /\ Goto(g, l) /\ g.no = gui.no /\ g.disk = gui.disk /\ g.ret = gui.ret
          /\ g.ask = gui.ask /\ g.img = gui.img
          /\ \/ l \in {"saveLock", "fileDialog", "asGet"} /\ g.sav = gui.sav
             \/ l = gui.ret /\ g.discard = TRUE
    <3> DEFINE h == [gui EXCEPT !.discard = TRUE]
               x == [h EXCEPT !.sav = NoDevice, !.as = FALSE]
    <3>1. /\ x \in GuiStates /\ x.no = gui.no /\ x.disk = gui.disk /\ x.ret = gui.ret
          /\ x.ask = gui.ask /\ x.img = gui.img /\ x.discard = TRUE
      BY <1>0 DEF GuiStates
    <3>2. Goto(x, gui.ret) \/ \E l \in {"saveLock", "fileDialog", "asGet"} : Goto(gui, l)
      BY <1>3 DEF ChooseFile, CancelFile, FailedYes, FailedNo, SaveOver
    <3> HIDE DEF x
    <3> QED BY <1>0, <3>1, <3>2
  <2>3. l \in (Saves \ {"saveGet", "autosaving"}) \cup {"idle", "uninstall", "update"}
    BY DEF Saves
  <2>4. {"idle", "uninstall", "update"} \cap Saves = {}
    BY DEF Saves
  <2> QED BY <1>0, <1>1, <2>1, <2>2, <2>3, <2>4, SaveMovesG
<1> QED BY <1>2, <1>3

\* The lock of an image is taken, to save it or for its editor.
LEMMA LockKeepsG ==
  ASSUME IInv, GInv, SaveLock \/ EditorLock
  PROVE  GInv'
<1>0. /\ gui \in GuiStates /\ ~fault /\ gui.pc \in {"saveLock", "edLock"}
      /\ Where = gui.pc /\ modified \subseteq table.live
  BY DEF SaveLock, EditorLock, At, IInv, TypeOK, Where, GInv, Clean
<1>1. CASE Crash
  <2>1. raced
    <3> SUFFICES ASSUME ~raced PROVE FALSE
      OBVIOUS
    <3>1. gui.sav \notin table.live
      BY <1>0, <1>1 DEF SaveLock, EditorLock, LockSav, At, Crash, Goto
    <3> QED BY <1>0, <3>1 DEF GInv, Held, SaveHeld, Saves
  <2> QED BY <1>1, <2>1, UnseenG DEF Crash, shared
<1>3. CASE ~Crash
  <2>1. /\ UNCHANGED <<table, modified, active, stale>>
        /\ \/ Goto(gui, "saving") /\ gui.pc = "saveLock"
           \/ Goto(gui, "idle")
    BY <1>3 DEF SaveLock, EditorLock, LockSav, At
  <2>2. CASE Goto(gui, "saving") /\ gui.pc = "saveLock"
    <3>1. gui.pc \in Saves /\ "saving" \in Saves \ {"saveGet", "autosaving"}
      BY <2>2 DEF Saves
    <3>2. ~raced => /\ gui.sav \in table.live
                    /\ gui.ret = "uninstall" => gui.sav = gui.img
                    /\ gui.ret = "update" => gui.img \in table.live
      BY <2>2, <3>1 DEF GInv, Held, SaveHeld, Ending, Painting
    <3> QED BY <1>0, <2>1, <2>2, <3>1, <3>2, SaveMovesG
  <2>3. CASE Goto(gui, "idle")
    <3>1. "idle" \in Label
      BY DEF Label
    <3>2. gui'.pc = "idle"
      BY <1>0, <2>3, <3>1, GotoType DEF IInv
    <3>3. Told'
      BY <1>0, <2>1, <3>2, ToldStays
    <3> QED BY <1>0, <2>1, <2>3, <3>1, <3>3, GuiKeepsG
  <2> QED BY <2>1, <2>2, <2>3
<1> QED BY <1>1, <1>3

\* A save ends.
LEMMA SavingKeepsG ==
  ASSUME IInv, GInv, Saving \/ AutoSaving
  PROVE  GInv'
<1>0. /\ gui \in GuiStates /\ ~fault /\ gui.pc \in {"saving", "autosaving"} /\ gui.pc \in Saves
      /\ gui.ret \in {"idle", "uninstall", "update"}
  BY DEF Saving, AutoSaving, At, IInv, TypeOK, PlanOK, Saves
<1>1. ~raced => /\ gui.sav \in table.live
                /\ gui.ret = "uninstall" => gui.sav = gui.img
                /\ gui.ret = "update" \/ gui.pc = "autosaving" => gui.img \in table.live
  BY <1>0 DEF GInv, Held, SaveHeld, Ending, Painting
<1>2. CASE Crash
  <2>1. raced
    BY <1>0, <1>1, <1>2 DEF Saving, AutoSaving, SaveEnds, SaveOver, Crash, Goto
  <2> QED BY <1>2, <2>1, UnseenG DEF Crash, shared
<1>3. CASE ~Crash
  <2>1. UNCHANGED <<table, active, stale>>
    BY <1>3 DEF Saving, AutoSaving
  <2>2. PICK g \in GuiStates, l \in {"idle", "uninstall", "update", "failed"} :
          /\ Goto(g, l) /\ g.no = gui.no /\ g.disk = gui.disk /\ g.ret = gui.ret
          /\ g.ask = gui.ask /\ g.img = gui.img /\ modified' \subseteq modified
          /\ \/ l = "failed" /\ g.sav = gui.sav
             \/ /\ gui.sav \notin modified'
                /\ l = gui.ret \/ (l = "update" /\ gui.pc = "autosaving")
    <3> DEFINE x == [gui EXCEPT !.sav = NoDevice, !.as = FALSE]
    <3>1. /\ x \in GuiStates /\ x.no = gui.no /\ x.disk = gui.disk /\ x.ret = gui.ret
          /\ x.ask = gui.ask /\ x.img = gui.img
      BY <1>0 DEF GuiStates
    <3>2. \/ UNCHANGED modified /\ Goto(gui, "failed")
          \/ modified' = modified \ {gui.sav} /\ Goto(x, gui.ret)
          \/ modified' = modified \ {gui.sav} /\ Goto(x, "update") /\ gui.pc = "autosaving"
      BY <1>3 DEF Saving, AutoSaving, At, SaveEnds, SaveOver
    <3> HIDE DEF x
    <3> QED BY <1>0, <3>1, <3>2
  <2>3. l \in (Saves \ {"saveGet", "autosaving"}) \cup {"idle", "uninstall", "update"}
    BY DEF Saves
  <2>4. {"idle", "uninstall", "update"} \cap Saves = {}
    BY DEF Saves
  <2> QED BY <1>0, <1>1, <2>1, <2>2, <2>3, <2>4, SaveMovesG
<1> QED BY <1>2, <1>3

\* The drive is painted at the end.
LEMMA PaintKeepsG ==
  ASSUME IInv, GInv, Show \/ Update
  PROVE  GInv'
<1>0. /\ gui \in GuiStates /\ ~fault /\ gui.pc \in {"show", "update"} /\ Where = gui.pc
      /\ modified \subseteq table.live /\ "idle" \in Label
  BY DEF Show, Update, At, IInv, TypeOK, Where, GInv, Clean, Label
<1>1. CASE Crash
  <2>1. raced
    <3> SUFFICES ASSUME ~raced PROVE FALSE
      OBVIOUS
    <3>1. \/ gui.pc = "show" /\ gui.disk \notin table.live
          \/ gui.pc = "update" /\ gui.img \notin table.live
      BY <1>0, <1>1 DEF Show, Update, At, Crash, Goto
    <3> QED BY <1>0, <3>1 DEF GInv, Held, SaveHeld, MountHeld, Mounted, Painting
  <2> QED BY <1>1, <2>1, UnseenG DEF Crash, shared
<1>2. CASE Goto(gui, "idle") /\ UNCHANGED <<shared, stale>>
  <2>1. gui'.pc = "idle"
    BY <1>0, <1>2, GotoType DEF IInv
  <2>2. Told'
    BY <1>0, <1>2, <2>1, ToldStays DEF shared
  <2> QED BY <1>0, <1>2, <2>2, GuiKeepsG DEF shared
<1> QED BY <1>1, <1>2 DEF Show, Update

LEMMA UserKeepsG ==
  ASSUME IInv, GInv, User
  PROVE  GInv'
<1>1. CASE \E no \in Slots : \/ \E d \in Images, ask \in BOOLEAN : BeginMount(no, d, ask)
                             \/ BeginEject(no) \/ BeginSave(no)
                             \/ BeginAutoSave(no) \/ OpenEditor(no)
  BY <1>1, BeginMountKeepsG, BeginKeepsG
<1>2. ASSUME NEW no \in Slots, CloseEditor(no) PROVE GInv'
  BY <1>2, UnseenG DEF CloseEditor
<1>3. ASSUME NEW no \in Slots, EditImage(no) PROVE GInv'
  <2>1. /\ modified' = modified \cup {table.dev[no]} /\ gui.pc = "idle" /\ ~fault
        /\ UNCHANGED <<table, active, gui, raced, stale, fault>>
        /\ table.dev[no] \in Device
    BY <1>3 DEF EditImage, At, Device
  <2>2. no \in Address
    BY DEF Address
  <2>3. Held' /\ Where' \notin Before
    BY <2>1, FreeHands DEF Where, Before, Saves, Free
  <2>4. Told'
    BY <2>1, ToldStays
  <2> QED BY <2>1, <2>2, <2>3, <2>4, OnePlace DEF GInv, Clean
<1>4. ASSUME NEW a \in Slots, NEW b \in Slots, BeginSwap(a, b) PROVE GInv'
  <2> DEFINE g == [Idle EXCEPT !.no = a, !.no2 = b]
  <2>1. Goto(g, "unlinkSwap") /\ g \in GuiStates /\ "unlinkSwap" \in Label /\ ~fault
    BY <1>4 DEF BeginSwap, At, Idle, GuiStates, Label
  <2>2. gui'.pc = "unlinkSwap"
    BY <2>1, Gone
  <2>3. table'.live = table.live
    <3>1. table \in Tables /\ Consistent(table) /\ a \in Address /\ b \in Address
      BY DEF IInv, TypeOK, TableConsistent, Address
    <3> QED BY <1>4, <3>1, SwapTable DEF BeginSwap
  <2>4. Held' /\ Where' \notin Before
    BY <2>2, FreeHands DEF Where, Before, Saves, Free
  <2>5. Told'
    BY <1>4, <2>2 DEF BeginSwap, Told, Installed
  <2>6. modified' \subseteq table'.live
    BY <1>4, <2>3 DEF BeginSwap, GInv, Clean
  <2> QED BY <2>1, <2>4, <2>5, <2>6, GuiKeepsG
<1>5. CASE AskNo \/ AskYes
  <2>1. PICK g \in GuiStates, l \in {"uninstall", "saveGet"} :
          /\ Goto(g, l) /\ g.img = gui.img /\ g.no = gui.no /\ g.disk = gui.disk
          /\ l = "uninstall" => g.discard = TRUE
          /\ l = "saveGet" => g.ret = "uninstall"
    <3> DEFINE x == [gui EXCEPT !.discard = TRUE]
               y == [gui EXCEPT !.ret = "uninstall"]
    <3>1. /\ x \in GuiStates /\ x.img = gui.img /\ x.no = gui.no /\ x.disk = gui.disk
          /\ x.discard = TRUE
      BY DEF IInv, TypeOK, GuiStates
    <3>2. /\ y \in GuiStates /\ y.img = gui.img /\ y.no = gui.no /\ y.disk = gui.disk
          /\ y.ret = "uninstall"
      BY DEF IInv, TypeOK, GuiStates, Label
    <3>3. Goto(x, "uninstall") \/ Goto(y, "saveGet")
      BY <1>5 DEF AskNo, AskYes
    <3> QED BY <3>1, <3>2, <3>3
  <2>2. /\ UNCHANGED <<table, modified, active, stale>> /\ gui.pc = "ask" /\ ~fault
        /\ l \in Label
    BY <1>5 DEF AskNo, AskYes, At, shared, Label
  <2>3. /\ gui'.pc = l /\ gui'.img = gui.img /\ gui'.no = gui.no /\ gui'.disk = gui.disk
        /\ l = "uninstall" => gui'.discard = TRUE
        /\ l = "saveGet" => gui'.ret = "uninstall"
    BY <2>1, <2>2, Gone
  <2>4. ~raced => Held'
    BY <2>2, <2>3
    DEF GInv, Where, Held, EjectHeld, SaveHeld, MountHeld, Mounted, Ending, Painting, Saves
  <2>5. Told'
    BY <2>2, <2>3, ToldStays
  <2>6. modified' \subseteq table'.live /\ gui'.disk \notin modified'
    BY <2>2, <2>3 DEF GInv, Clean, Where, Before
  <2> QED BY <2>1, <2>2, <2>4, <2>5, <2>6, GuiKeepsG
<1>6. CASE AskCancel
  <2>1. /\ Goto(gui, "idle") /\ gui.pc = "ask" /\ ~fault /\ gui \in GuiStates
        /\ UNCHANGED <<modified, active, stale>> /\ "idle" \in Label
        /\ table'.dev = table.dev /\ table'.live = table.live \ {gui.disk}
    BY <1>6 DEF AskCancel, At, IInv, TypeOK, Tables, Label
  <2>2. modified' \subseteq table'.live
    BY <2>1 DEF GInv, Clean, Where, Before
  <2>3. gui'.pc = "idle"
    BY <2>1, GotoType DEF IInv
  <2>4. Told'
    BY <2>1, <2>3, ToldStays
  <2> QED BY <2>1, <2>2, <2>4, GuiKeepsG
<1>7. CASE ChooseFile \/ CancelFile \/ FailedYes \/ FailedNo
  BY <1>7, DialogKeepsG
<1> QED BY <1>1, <1>2, <1>3, <1>4, <1>5, <1>6, <1>7 DEF User

\* The scan of devices[] and its publication.
LEMMA ScanKeepsG ==
  ASSUME IInv, GInv, Scan \/ Publish
  PROVE  GInv'
<1>0. /\ gui \in GuiStates /\ ~fault /\ UNCHANGED <<table, modified>>
      /\ gui.pc \in {"scan", "publish"} /\ gui.ret \in AfterScan /\ Where = gui.ret
      /\ modified' \subseteq table'.live
  BY DEF Scan, Publish, At, shared, IInv, TypeOK, PlanOK, Where, GInv, Clean
<1>1. PICK g \in GuiStates, l \in Label :
        /\ Goto(g, l)
        /\ g.ret = gui.ret /\ g.no = gui.no /\ g.disk = gui.disk /\ g.img = gui.img
        /\ g.discard = gui.discard /\ g.ask = gui.ask
        /\ \/ l = "publish" /\ g.scan = Installed(table)
           \/ /\ l = gui.ret /\ UNCHANGED stale
              /\ active' = gui.scan /\ gui.pc = "publish"
  <2> DEFINE x == [gui EXCEPT !.scan = Installed(table)]
             y == [gui EXCEPT !.scan = {}]
  <2>1. /\ x \in GuiStates /\ y \in GuiStates /\ gui.ret \in Label /\ "publish" \in Label
        /\ x.scan = Installed(table)
        /\ \A z \in {x, y} : /\ z.ret = gui.ret /\ z.no = gui.no /\ z.disk = gui.disk
                             /\ z.img = gui.img /\ z.discard = gui.discard /\ z.ask = gui.ask
    BY <1>0 DEF GuiStates, Label, Installed
  <2>2. CASE Scan
    BY <2>1, <2>2 DEF Scan
  <2>3. CASE Publish
    BY <2>1, <2>3 DEF Publish, At
  <2> QED BY <2>2, <2>3
<1>2. l # "idle" =>
        /\ gui'.pc = l /\ gui'.ret = gui.ret /\ gui'.no = gui.no /\ gui'.disk = gui.disk
        /\ gui'.img = gui.img /\ gui'.discard = gui.discard /\ gui'.scan = g.scan
        /\ gui'.ask = gui.ask
  BY <1>1, Gone
<1>3. l # "idle" => Where' = Where
  BY <1>0, <1>1, <1>2 DEF Where, AfterScan
<1>4. l # "idle" => (Where' \in Before => gui'.disk \notin modified')
  BY <1>0, <1>2, <1>3 DEF GInv, Clean
<1>5. l # "idle" => (~raced => Held')
  BY <1>0, <1>1, <1>2, <1>3
  DEF GInv, Held, EjectHeld, SaveHeld, MountHeld, Mounted, Ending, Painting, AfterScan, Saves
<1>6. Told'
  <2>1. gui'.pc = l
    BY <1>1, GotoType DEF IInv
  <2> QED BY <1>0, <1>1, <1>2, <2>1 DEF GInv, Told, Installed, AfterScan
<1> QED BY <1>0, <1>1, <1>4, <1>5, <1>6, GuiKeepsG

\* A step around the links, with a scan or without.
Linking == Free \cup Mounted

LEMMA FreeKeepsG ==
  ASSUME IInv, GInv, ~fault, gui.pc \notin {"scan", "publish"}, NEW w \in Linking,
         UNCHANGED <<active, stale>>, modified' \subseteq modified,
         modified' \subseteq table'.live, w \in Before => gui.pc \in Before,
         ~raced => (w \in Free \/ gui.disk \in table'.live),
         \/ Goto([gui EXCEPT !.ret = w], "scan")
         \/ Goto(gui, w) /\ table'.dev = table.dev
  PROVE  GInv'
<1> DEFINE x == [gui EXCEPT !.ret = w]
<1>1. /\ gui \in GuiStates /\ x \in GuiStates /\ x.disk = gui.disk /\ x.ret = w
      /\ w \in Label /\ "scan" \in Label /\ w \notin {"scan", "publish"}
  BY DEF IInv, TypeOK, GuiStates, Label, Linking, Mounted, Free
<1>2. ASSUME gui'.pc \in {w, "scan"}, Where' = w, gui'.disk = gui.disk, ~raced PROVE Held'
  <2>1. CASE w \in Free
    BY <1>2, <2>1, FreeHands
  <2>2. CASE w \notin Free
    BY <1>2, <2>2
    DEF Held, EjectHeld, SaveHeld, MountHeld, Mounted, Ending, Painting, Saves, Linking, Free
  <2> QED BY <2>1, <2>2
<1>3. CASE Goto(x, "scan")
  <2>1. gui'.pc = "scan" /\ gui'.ret = w /\ gui'.disk = gui.disk
    BY <1>1, <1>3, Gone
  <2>2. Where' = w
    BY <2>1 DEF Where
  <2>3. Where' \in Before => gui'.disk \notin modified'
    BY <2>1, <2>2 DEF GInv, Clean, Where
  <2> QED BY <1>1, <1>2, <1>3, <2>1, <2>2, <2>3, ToldScan, GuiKeepsG
<1>4. CASE Goto(gui, w) /\ table'.dev = table.dev
  <2>1. gui'.pc = w /\ (w # "idle" => gui'.disk = gui.disk)
    BY <1>1, <1>4, Gone, GotoType DEF IInv
  <2>2. Where' = w
    BY <1>1, <2>1 DEF Where
  <2>3. w # "idle" => (Where' \in Before => gui'.disk \notin modified')
    BY <2>1, <2>2 DEF GInv, Clean, Where
  <2>4. Told'
    BY <1>1, <1>4, <2>1, ToldStays
  <2> QED BY <1>1, <1>2, <1>4, <2>1, <2>2, <2>3, <2>4, GuiKeepsG
<1> QED BY <1>3, <1>4

\* The handlers around the links of PCLINK.
LEMMA PclinkKeepsG ==
  ASSUME IInv, GInv, \/ Unlink \/ SetLink \/ UnlinkSwap \/ RelinkEject \/ RelinkEnd \/ RelinkSwap
                     \/ ResetLink \/ ChangeLink \/ SwapLinks
  PROVE  GInv'
<1>0. /\ PCLINK \in Address /\ table \in Tables /\ Consistent(table) /\ ~fault
      /\ modified \subseteq table.live
  BY DEF Address, IInv, TypeOK, TableConsistent, GInv, Clean, Unlink, SetLink, UnlinkSwap,
     RelinkEject, RelinkEnd, RelinkSwap, ResetLink, ChangeLink, SwapLinks, At
<1>1. CASE Unlink \/ SetLink \/ UnlinkSwap
  <2>1. PICK linked \in BOOLEAN, l \in Linking, m \in Linking :
          /\ TakePclinkOut(linked, l, m) /\ gui.pc \notin {"scan", "publish"}
          /\ l \in Before \/ m \in Before => gui.pc \in Before
          /\ l \notin Free \/ m \notin Free => gui.pc = "setLink"
    <3>1. CASE Unlink
      <4>1. (gui.no \in links) \in BOOLEAN /\ "resetLink" \in Free /\ "getImg" \in Free
            /\ "unlink" \in Before
        BY DEF Free, Before
      <4> QED BY <3>1, <4>1 DEF Unlink, At, Linking
    <3>2. CASE SetLink \/ UnlinkSwap
      <4>1. /\ "changeLink" \in Linking \ Before /\ "swapLinks" \in Linking \ Before
            /\ "idle" \in Linking \ Before /\ "show" \in Linking \ Before
            /\ "swapLinks" \in Free /\ "idle" \in Free
        BY DEF Linking, Mounted, Free, Before, Saves
      <4>2. CASE SetLink
        <5>1. (gui.disk \in Folders \/ gui.no \in links) \in BOOLEAN
          OBVIOUS
        <5> QED BY <4>1, <4>2, <5>1 DEF SetLink, At
      <4>3. CASE UnlinkSwap
        <5>1. ({gui.no, gui.no2} \cap links # {}) \in BOOLEAN
          OBVIOUS
        <5> QED BY <4>1, <4>3, <5>1 DEF UnlinkSwap, At
      <4> QED BY <3>2, <4>2, <4>3
    <3> QED BY <1>1, <3>1, <3>2
  <2>4. ~raced /\ gui.pc = "setLink" => gui.disk \in table.live
    BY DEF GInv, Held, MountHeld, Mounted, Where
  <2>2. CASE Change(Uninstall(table, PCLINK), l) /\ UNCHANGED <<lock, modified>>
    <3>1. table'.live = table.live
      BY <1>0, <2>2, UninstallTable DEF Change
    <3> QED BY <1>0, <2>1, <2>2, <2>4, <3>1, FreeKeepsG DEF Change
  <2>3. CASE Goto(gui, m) /\ UNCHANGED <<shared, stale>>
    BY <1>0, <2>1, <2>3, <2>4, FreeKeepsG DEF shared
  <2> QED BY <2>1, <2>2, <2>3 DEF TakePclinkOut
<1>2. CASE RelinkEject \/ RelinkEnd \/ RelinkSwap
  <2>1. PICK l \in {"getImg", "idle", "show"} :
          /\ PutPclinkBack(l) /\ gui.pc \in Out /\ (l = "getImg" => gui.pc = "relinkEject")
          /\ l = "show" => gui.pc = "relinkEnd"
    BY <1>2 DEF RelinkEject, RelinkEnd, RelinkSwap, At, Out
  <2>2. /\ table.dev[PCLINK] = NoDevice /\ PCLINK \in table.live /\ gui.pc \notin {"scan", "publish"}
        /\ NoDevice \notin table.live
    BY <2>1, OnePlace DEF IInv, PlanOK, Where, Out, Fixed
  <2>3. table'.live = table.live \ {NoDevice}
    <3>1. table.no[PCLINK] = NoAddress
      BY <2>2, PclinkOut
    <3>2. table' = Install(table, PCLINK, PCLINK)
      BY <2>1 DEF PutPclinkBack, Change
    <3> DEFINE t == Install(table, PCLINK, PCLINK)
    <3>3. /\ t \in Tables /\ Consistent(t) /\ t.live = table.live \ {NoDevice}
          /\ t.dev = [table.dev EXCEPT ![PCLINK] = PCLINK]
          /\ \A e \in Device : t.no[e] = IF e = PCLINK THEN PCLINK
                                         ELSE IF e = NoDevice THEN NoAddress ELSE table.no[e]
      BY <1>0, <2>2, <3>1, InstallTable
    <3> QED BY <3>2, <3>3
  <2>4. ~raced /\ l = "show" => gui.disk \in table'.live
    BY <2>1, <2>2, <2>3 DEF GInv, Held, MountHeld, Mounted, Where
  <2>5. l \in Linking /\ (l \in Before => gui.pc \in Before) /\ (l # "show" => l \in Free)
    BY <2>1 DEF Linking, Mounted, Free, Before, Saves
  <2> QED BY <1>0, <2>1, <2>2, <2>3, <2>4, <2>5, FreeKeepsG DEF PutPclinkBack, Change
<1>3. CASE ResetLink \/ ChangeLink \/ SwapLinks
  <2>1. PICK l \in {"relinkEject", "relinkEnd", "relinkSwap"} :
          /\ Goto(gui, l) /\ UNCHANGED <<table, modified, active, stale>>
          /\ l = "relinkEject" => gui.pc = "resetLink"
          /\ l = "relinkEnd" => gui.pc = "changeLink"
          /\ gui.pc \in {"resetLink", "changeLink", "swapLinks"}
    BY <1>3 DEF ResetLink, ChangeLink, SwapLinks, ChangeLinks, At
  <2>2. l \in Linking /\ (l \in Before => gui.pc \in Before) /\ (l # "relinkEnd" => l \in Free)
    BY <2>1 DEF Linking, Mounted, Free, Before, Saves
  <2>3. ~raced /\ gui.pc = "changeLink" => gui.disk \in table.live
    BY DEF GInv, Held, MountHeld, Mounted, Where
  <2> QED BY <1>0, <2>1, <2>2, <2>3, FreeKeepsG
<1> QED BY <1>1, <1>2, <1>3

\* The image is fetched.
LEMMA GetImgKeepsG ==
  ASSUME IInv, GInv, GetImg
  PROVE  GInv'
<1> DEFINE g == [gui EXCEPT !.img = table.dev[gui.no]]
<1>0. /\ gui \in GuiStates /\ ~fault /\ gui.pc = "getImg" /\ gui.no \in Slots
      /\ UNCHANGED <<table, modified, active, stale>>
      /\ table.dev[gui.no] \in Images \cup {NoDevice} /\ NoDevice \notin Images
      /\ modified \subseteq Images
  BY FixedDevices DEF GetImg, At, shared, IInv, TypeOK, PlanOK, Where, Fixed, Device
<1>1. /\ g \in GuiStates /\ g.img = table.dev[gui.no] /\ g.no = gui.no /\ g.disk = gui.disk
  BY <1>0 DEF GuiStates
<1>2. PICK l \in {"ask", "uninstall"} :
        /\ Goto(g, l)
        /\ l = "ask" => table.dev[gui.no] \in modified
        /\ l = "uninstall" => ~(gui.ask /\ table.dev[gui.no] \in modified)
  BY DEF GetImg
<1>3. l \in Label
  BY DEF Label
<1>4. /\ gui'.pc = l /\ gui'.img = table.dev[gui.no] /\ gui'.no = gui.no
      /\ gui'.disk = gui.disk /\ gui'.ask = gui.ask
  <2>1. g.ask = gui.ask
    BY <1>0 DEF GuiStates
  <2> QED BY <1>1, <1>2, <1>3, <2>1, Gone
<1>5. Held'
  BY <1>0, <1>2, <1>4
  DEF Where, Held, EjectHeld, SaveHeld, MountHeld, Mounted, Ending, Painting, Saves
<1>6. modified' \subseteq table'.live /\ gui'.disk \notin modified'
  BY <1>0, <1>4 DEF GInv, Clean, Where, Before
<1>7. Told'
  BY <1>0, <1>4, ToldStays
<1> QED BY <1>0, <1>1, <1>2, <1>3, <1>5, <1>6, <1>7, GuiKeepsG

\* The image leaves the table.
LEMMA EjectKeepsG ==
  ASSUME IInv, GInv, Eject
  PROVE  GInv'
<1> DEFINE g == [gui EXCEPT !.ret = "delete"]
           t == Uninstall(table, gui.no)
<1>0. /\ gui \in GuiStates /\ ~fault /\ gui.pc = "uninstall" /\ gui.no \in Slots
      /\ UNCHANGED modified /\ table' = t /\ Goto(g, "scan") /\ "scan" \in Label
      /\ gui.no \in Address
  BY DEF Eject, Change, At, IInv, TypeOK, PlanOK, Where, Label, Address
<1>1. /\ g \in GuiStates /\ g.ret = "delete" /\ g.no = gui.no /\ g.disk = gui.disk
      /\ g.img = gui.img /\ g.discard = gui.discard /\ g.ask = gui.ask
  BY <1>0 DEF GuiStates, Label
<1>2. /\ gui'.pc = "scan" /\ gui'.ret = "delete" /\ gui'.no = gui.no /\ gui'.disk = gui.disk
      /\ gui'.img = gui.img /\ gui'.discard = gui.discard /\ gui'.ask = gui.ask
  BY <1>0, <1>1, Gone
<1>3. /\ t.live = table.live /\ t.dev[gui.no] = NoDevice
      /\ \A d \in Device : d = table.dev[gui.no] => t.no[d] = NoAddress
  <2>1. table \in Tables /\ Consistent(table) /\ table.dev \in [Address -> Device \cup {NoDevice}]
    BY DEF IInv, TypeOK, TableConsistent, Tables
  <2>2. /\ t.live = table.live /\ t.dev = [table.dev EXCEPT ![gui.no] = NoDevice]
        /\ \A d \in Device : t.no[d] = IF d = table.dev[gui.no] THEN NoAddress ELSE table.no[d]
    BY <1>0, <2>1, UninstallTable
  <2> HIDE DEF t
  <2> QED BY <1>0, <2>1, <2>2
<1>4. /\ table.dev[gui.no] \in Images \cup {NoDevice} /\ Images \subseteq Device
      /\ table.dev[gui.no] # NoDevice => table.dev[gui.no] \in table.live
  BY <1>0, OnePlace DEF IInv, Fixed, Device
<1> HIDE DEF g, t
<1>5. Where' = "delete" /\ Where = "uninstall"
  BY <1>0, <1>2 DEF Where
<1>6. ~raced => Held'
  BY <1>0, <1>2, <1>3, <1>4, <1>5
  DEF GInv, Held, EjectHeld, SaveHeld, MountHeld, Mounted, Ending, Painting, Saves
<1>7. modified' \subseteq table'.live /\ gui'.disk \notin modified'
  BY <1>0, <1>2, <1>3, <1>5 DEF GInv, Clean, Before
<1> QED BY <1>0, <1>1, <1>2, <1>6, <1>7, ToldScan, GuiKeepsG

\* An image that is nowhere is deleted.
LEMMA DeleteKeepsG ==
  ASSUME IInv, GInv, DeleteImg
  PROVE  GInv'
<1>0. /\ gui \in GuiStates /\ ~fault /\ gui.pc = "delete" /\ Where = "delete" /\ gui.no \in Address
      /\ table \in Tables /\ Consistent(table) /\ AfterDelete \in {"idle", "install"}
      /\ gui.img # NoDevice => gui.img \in Device
  BY DEF DeleteImg, At, IInv, TypeOK, TableConsistent, PlanOK, Where, AfterDelete, GuiStates,
     Device, Address
<1>1. \/ UNCHANGED <<table, modified, active, stale>> /\ Goto(gui, AfterDelete)
      \/ /\ gui.img \in Device /\ table' = Delete(table, gui.img)
         /\ modified' = modified \ {gui.img} /\ UNCHANGED <<active, stale>>
         /\ \/ table.no[gui.img] = NoAddress /\ Goto(gui, AfterDelete)
            \/ /\ table.no[gui.img] # NoAddress
               /\ Goto([gui EXCEPT !.ret = AfterDelete], "scan")
      \/ Crash /\ gui.img # NoDevice /\ (gui.img \notin table.live \/ wdev = gui.img)
  BY <1>0 DEF DeleteImg, shared, IInv, TypeOK, Tables
<1>2. CASE Crash /\ gui.img # NoDevice /\ (gui.img \notin table.live \/ wdev = gui.img)
  <2>1. raced
    <3> SUFFICES ASSUME ~raced PROVE FALSE
      OBVIOUS
    <3>1. gui.img \in table.live /\ table.no[gui.img] = NoAddress /\ wdev = gui.img
      BY <1>0, <1>2 DEF GInv, Held, EjectHeld
    <3>2. wpc = "handling"
      BY <1>0, <1>2, <3>1, FixedDevices DEF IInv, HandlerOK, TypeOK
    <3> QED BY <1>0, <1>2, <3>1, <3>2, OnePlace DEF IInv, HandlerOK, HandlerOwnsDevice
  <2> QED BY <1>2, <2>1, UnseenG DEF Crash, shared
<1>3. CASE /\ modified' \subseteq modified /\ modified' \subseteq table'.live
           /\ UNCHANGED <<active, stale>> /\ Goto(gui, AfterDelete) /\ table'.dev = table.dev
  <2>1. AfterDelete \in Label
    BY <1>0 DEF Label
  <2>2. AfterDelete # "idle" =>
          gui'.pc = "install" /\ gui'.no = gui.no /\ gui'.disk = gui.disk /\ Where' = "install"
    BY <1>0, <1>3, <2>1, Gone DEF Where
  <2>3. AfterDelete # "idle" => (Where' \in Before => gui'.disk \notin modified')
    <3>1. gui.disk \notin modified
      BY <1>0 DEF GInv, Clean, Before
    <3> QED BY <1>3, <2>2, <3>1
  <2>4. AfterDelete # "idle" => (~raced => Held')
    BY <1>0, <1>3, <2>2
    DEF GInv, Held, EjectHeld, SaveHeld, MountHeld, Mounted, Ending, Painting, Saves
  <2>5. gui'.pc \in {"idle", "install"}
    BY <1>0, <1>3, <2>1, GotoType DEF IInv
  <2>6. Told'
    BY <1>0, <1>3, <2>5, ToldStays
  <2> QED BY <1>0, <1>3, <2>1, <2>3, <2>4, <2>6, GuiKeepsG
<1>4. ASSUME gui.img \in Device, table' = Delete(table, gui.img),
             modified' = modified \ {gui.img}, UNCHANGED <<active, stale>>
      PROVE  /\ modified' \subseteq table'.live
             /\ table.no[gui.img] = NoAddress => table'.dev = table.dev
  <2>1. table'.live = table.live \ {gui.img}
    BY <1>0, <1>4, DeleteTable
  <2>2. table.no[gui.img] = NoAddress => table'.dev = table.dev
    BY <1>0, <1>4 DEF Delete, Tables
  <2> QED BY <1>4, <2>1, <2>2 DEF GInv, Clean
<1>5. CASE /\ gui.img \in Device /\ table' = Delete(table, gui.img)
           /\ modified' = modified \ {gui.img} /\ UNCHANGED <<active, stale>>
           /\ table.no[gui.img] # NoAddress
           /\ Goto([gui EXCEPT !.ret = AfterDelete], "scan")
  <2> DEFINE g == [gui EXCEPT !.ret = AfterDelete]
  <2>1. /\ g \in GuiStates /\ "scan" \in Label /\ g.ret = AfterDelete /\ g.disk = gui.disk
    BY <1>0 DEF GuiStates, Label
  <2>2. gui'.pc = "scan" /\ gui'.ret = AfterDelete /\ gui'.disk = gui.disk
    BY <1>5, <2>1, Gone
  <2>3. raced
    <3>1. gui.img # NoDevice
      BY <1>5, FixedDevices
    <3> QED BY <1>0, <1>5, <3>1 DEF GInv, Held, EjectHeld
  <2>4. Where' \in Before => gui'.disk \notin modified'
    BY <1>0, <1>5, <2>2 DEF GInv, Clean, Before
  <2>5. modified' \subseteq table'.live
    BY <1>4, <1>5
  <2> QED BY <1>0, <1>5, <2>1, <2>2, <2>3, <2>4, <2>5, ToldScan, GuiKeepsG
<1>6. modified \subseteq table.live
  BY DEF GInv, Clean
<1> QED BY <1>1, <1>2, <1>3, <1>4, <1>5, <1>6

\* The image goes into the drive, which is empty.
LEMMA InstallKeepsG ==
  ASSUME IInv, GInv, InstallDisk
  PROVE  GInv' /\ (~raced => modified' = modified /\ table.live \subseteq table'.live)
<1> DEFINE t == Install(table, gui.no, gui.disk)
           g == [gui EXCEPT !.ret = "setLink"]
<1>0. /\ gui \in GuiStates /\ ~fault /\ gui.pc = "install" /\ Where = "install"
      /\ gui.no \in Address /\ gui.disk \in table.live /\ table.no[gui.disk] = NoAddress
      /\ table \in Tables /\ Consistent(table) /\ Goto(g, "scan") /\ table' = t
      /\ modified' = modified \ {table.dev[gui.no]} /\ NoDevice \notin Device
      /\ table.live \subseteq Device
  BY FixedDevices DEF InstallDisk, Change, At, IInv, TypeOK, TableConsistent, PlanOK, Where,
     Before, Address, Tables
<1>1. /\ t \in Tables /\ Consistent(t) /\ t.live = table.live \ {table.dev[gui.no]}
      /\ t.dev = [table.dev EXCEPT ![gui.no] = gui.disk]
      /\ \A e \in Device : t.no[e] = IF e = gui.disk THEN gui.no
                                     ELSE IF e = table.dev[gui.no] THEN NoAddress ELSE table.no[e]
  BY <1>0, InstallTable
<1>2. g \in GuiStates /\ g.ret = "setLink" /\ g.disk = gui.disk /\ "scan" \in Label
  BY <1>0 DEF GuiStates, Label
<1>3. gui'.pc = "scan" /\ gui'.ret = "setLink" /\ gui'.disk = gui.disk
  BY <1>0, <1>2, Gone
<1>4. Held' /\ Where' \notin Before
  <2>1. gui.disk \in table'.live
    BY <1>0, <1>1, OnePlace
  <2> HIDE DEF t
  <2> QED BY <1>3, <2>1
      DEF Where, Held, EjectHeld, SaveHeld, MountHeld, Mounted, Ending, Painting, Saves, Before
<1>5. modified' \subseteq table'.live
  BY <1>0, <1>1 DEF GInv, Clean
<1>6. ~raced => table.dev[gui.no] = NoDevice
  BY <1>0 DEF GInv, Held, EjectHeld
<1>7. modified \subseteq table.live
  BY DEF GInv, Clean
<1>8. GInv'
  BY <1>0, <1>2, <1>3, <1>4, <1>5, ToldScan, GuiKeepsG
<1> HIDE DEF t, g
<1> QED BY <1>0, <1>1, <1>6, <1>7, <1>8

LEMMA NextGInv == IInv /\ GInv /\ [Next]_vars => GInv'
<1> SUFFICES ASSUME IInv, GInv, [Next]_vars PROVE GInv'
  OBVIOUS
<1>1. CASE UNCHANGED vars
  BY <1>1, UnseenG DEF vars
<1>2. CASE Gui
  BY <1>2, ScanKeepsG, PclinkKeepsG, GetImgKeepsG, EjectKeepsG, DeleteKeepsG, InstallKeepsG,
     SaveGetKeepsG, LockKeepsG, SavingKeepsG, PaintKeepsG DEF Gui
<1> QED BY <1>1, <1>2, WorkerKeepsG, UserKeepsG DEF Next, Crashed

(***************************************************************************)
(* The theorems.                                                           *)
(***************************************************************************)
\* What the handlers of the GUI hold is what they fetched, in every reachable
\* state.
THEOREM HandsKept == Spec => []GInv
<1>1. Init => GInv
  BY InitGInv
<1> QED BY <1>1, InOrder, NextGInv, PTL DEF Spec

\* The GUI uses a deleted image or a null pointer only if the worker changed
\* the table behind one of its dialogs, or a drive was empty when one of its
\* save buttons was clicked.
THEOREM PointersCorrect == Spec => []GuiUsesLiveImages
<1>1. GInv => GuiUsesLiveImages
  BY DEF GInv, GuiUsesLiveImages
<1> QED BY <1>1, HandsKept, PTL

\* The port filters commands by what is installed, unless the worker changed
\* the table between a scan of the GUI and its publication.
THEOREM PortCorrect == Spec => []PortKnowsDevices
<1>1. GInv => PortKnowsDevices
  BY DEF GInv, Told, PortKnowsDevices
<1> QED BY <1>1, HandsKept, PTL

(***************************************************************************)
(* The images that a step deletes.                                         *)
(***************************************************************************)
\* RCL is about to empty a drive whose image has unsaved changes only if an
\* editor is open on the image.
OutHeld == \A a \in wout : table.dev[a] \in modified => lock[table.dev[a]] = "editor"

LEMMA NextOutHeld == IInv /\ OutHeld /\ [Next]_vars => OutHeld'
<1> SUFFICES ASSUME IInv, OutHeld, [Next]_vars PROVE OutHeld'
  OBVIOUS
<1>0. /\ wout \subseteq Slots /\ (wout # {} => ~MutexFree) /\ modified \subseteq Images
      /\ lock \in [Device -> {"free", "worker", "gui", "editor"}]
      /\ table \in Tables /\ Images \subseteq Device /\ Slots \subseteq Address
      /\ NoDevice \notin Images
  BY FixedDevices DEF IInv, TypeOK, HandlerOK, MutexFree, Device, Address
<1>1. CASE Worker
  <2>1. CASE \E a \in Address : Dispatch(a)
    BY <1>0, <2>1 DEF Dispatch, MutexFree, OutHeld
  <2>2. ASSUME NEW S \in SUBSET Slots, CheckUnmount(S) PROVE OutHeld'
    BY <2>2 DEF CheckUnmount, shared, OutHeld
  <2>3. CASE Return
    BY <2>3 DEF Return, OutHeld
  <2>4. \A S \in {{a} : a \in Slots} \cup {Slots} : S \in SUBSET Slots
    OBVIOUS
  <2> QED BY <1>1, <2>1, <2>2, <2>3, <2>4
      DEF Worker, Serve, HandleOther, HandleWrite, HandleSwap, HandleSave, Unmount
<1>2. ASSUME UNCHANGED wout, wout # {},
             \A a \in Slots : table'.dev[a] = table.dev[a],
             \A d \in modified' : d \in modified /\ (lock[d] = "editor" => lock'[d] = "editor")
      PROVE  OutHeld'
  BY <1>0, <1>2 DEF OutHeld
<1>3. ASSUME UNCHANGED wout, MutexFree PROVE OutHeld'
  BY <1>0, <1>3 DEF OutHeld
<1>4. CASE User
  <2>1. UNCHANGED wout
    BY <1>4 DEF User, BeginMount, BeginEject, BeginSave, BeginAutoSave, OpenEditor, CloseEditor,
       EditImage, BeginSwap, AskNo, AskCancel, AskYes, ChooseFile, CancelFile, FailedYes,
       FailedNo, At, worker
  <2>2. ASSUME NEW no \in Slots, EditImage(no) PROVE OutHeld'
    BY <1>0, <2>1, <2>2 DEF EditImage, OutHeld
  <2>3. CASE \/ \E no \in Slots : BeginAutoSave(no) \/ OpenEditor(no) \/ CloseEditor(no)
             \/ \E a, b \in Slots : BeginSwap(a, b)
    <3>1. MutexFree
      BY <2>3 DEF BeginAutoSave, OpenEditor, CloseEditor, BeginSwap
    <3> QED BY <1>3, <2>1, <3>1
  <2>4. CASE \/ \E no \in Slots : \/ \E d \in Images, ask \in BOOLEAN : BeginMount(no, d, ask)
                                  \/ BeginEject(no) \/ BeginSave(no)
             \/ AskNo \/ AskCancel \/ AskYes
             \/ ChooseFile \/ CancelFile \/ FailedYes \/ FailedNo
    <3>1. UNCHANGED <<lock, modified>> /\ table'.dev = table.dev
      BY <1>0, <2>4 DEF BeginMount, BeginEject, BeginSave, AskNo, AskCancel, AskYes,
         ChooseFile, CancelFile, FailedYes, FailedNo, Crash, shared, Tables
    <3> QED BY <1>0, <1>3, <2>1, <3>1 DEF OutHeld
  <2> QED BY <1>4, <2>2, <2>3, <2>4 DEF User
<1>5. CASE Gui
  <2>1. UNCHANGED wout
    BY <1>5 DEF Gui, Scan, Publish, Unlink, ResetLink, RelinkEject, GetImg, Eject, DeleteImg,
       InstallDisk, SetLink, ChangeLink, RelinkEnd, Show, UnlinkSwap, SwapLinks, RelinkSwap,
       SaveGet, AsGet, SaveLock, Saving, AutoSaving, Update, EditorLock, At, worker
  <2>2. CASE \/ Unlink \/ RelinkEject \/ GetImg \/ Eject \/ InstallDisk \/ SetLink
             \/ RelinkEnd \/ UnlinkSwap \/ RelinkSwap
    <3>1. MutexFree
      BY <2>2 DEF Unlink, RelinkEject, GetImg, Eject, InstallDisk, SetLink, RelinkEnd,
         UnlinkSwap, RelinkSwap, TakePclinkOut, PutPclinkBack, Change
    <3> QED BY <1>3, <2>1, <3>1
  <2>3. CASE \/ Scan \/ Publish \/ ResetLink \/ ChangeLink \/ SwapLinks \/ Show \/ Update
             \/ SaveGet \/ AsGet
    <3>1. UNCHANGED <<lock, modified, table>>
      BY <2>3 DEF Scan, Publish, ResetLink, ChangeLink, SwapLinks, ChangeLinks, Show, Update,
         SaveGet, AsGet, Crash, shared
    <3> QED BY <2>1, <3>1 DEF OutHeld
  <2>4. CASE SaveLock \/ EditorLock
    <3>1. \/ UNCHANGED <<lock, modified, table>>
          \/ /\ gui.sav \in Unlocked /\ UNCHANGED <<modified, table>>
             /\ \E h \in {"gui", "editor"} : lock' = [lock EXCEPT ![gui.sav] = h]
      BY <2>4 DEF SaveLock, EditorLock, LockSav, Crash, shared
    <3> QED BY <1>0, <2>1, <3>1 DEF OutHeld, Unlocked
  <2>5. CASE Saving \/ AutoSaving
    <3>1. /\ UNCHANGED table /\ modified' \subseteq modified
          /\ \/ UNCHANGED lock
             \/ gui.pc = "saving" /\ gui.sav \in table.live /\ lock' = [lock EXCEPT ![gui.sav] = "free"]
      BY <2>5 DEF Saving, AutoSaving, SaveEnds, At, Crash, shared
    <3>2. gui.pc = "saving" /\ gui.sav \in table.live => lock[gui.sav] = "gui"
      BY DEF IInv, PlanOK
    <3> QED BY <1>0, <2>1, <3>1, <3>2 DEF OutHeld
  <2>6. CASE DeleteImg
    <3>1. CASE MutexFree
      BY <1>3, <2>1, <3>1
    <3>2. CASE UNCHANGED shared
      BY <2>1, <3>2 DEF shared, OutHeld
    <3>3. CASE /\ ~MutexFree /\ table' = Delete(table, gui.img) /\ table.no[gui.img] = NoAddress
               /\ lock' = [lock EXCEPT ![gui.img] = "free"] /\ modified' = modified \ {gui.img}
      <4>1. table'.dev = table.dev
        BY <1>0, <3>3 DEF Delete, Tables
      <4> QED BY <1>0, <2>1, <3>3, <4>1 DEF OutHeld
    <3> QED BY <2>6, <3>1, <3>2, <3>3 DEF DeleteImg, Crash
  <2> QED BY <1>5, <2>2, <2>3, <2>4, <2>5, <2>6 DEF Gui
<1>6. CASE UNCHANGED vars
  BY <1>6 DEF vars, OutHeld
<1> QED BY <1>1, <1>4, <1>5, <1>6 DEF Next, Crashed

\* Only these images are deleted: without unsaved changes, or given up, or by a
\* mount that does not ask, or behind the question's or RCL's back.
LEMMA Losses ==
  ASSUME IInv, GInv, OutHeld, [Next]_vars,
         NEW d \in modified, d \in table.live, d \notin table'.live
  PROVE  gui.discard \/ ~gui.ask \/ raced \/ EditedInUnmount(d)
<1>0. /\ table \in Tables /\ Consistent(table) /\ PCLINK \in Address /\ Slots \subseteq Address
      /\ table'.live # table.live
  BY DEF IInv, TypeOK, TableConsistent, Address
<1>1. CASE Worker
  <2>1. CASE Unmount
    <3>1. table'.live = table.live \ ({table.dev[a] : a \in wout} \ {NoDevice})
      BY <2>1 DEF Unmount
    <3>2. PICK a \in wout : table.dev[a] = d
      BY <3>1
    <3> QED BY <3>2 DEF OutHeld, EditedInUnmount
  <2>2. ASSUME NEW a \in Slots, NEW b \in Slots, HandleSwap(a, b) PROVE FALSE
    <3>1. a \in Address /\ b \in Address
      BY <1>0
    <3>2. table'.live = table.live
      BY <1>0, <2>2, <3>1, SwapTable DEF HandleSwap
    <3> QED BY <1>0, <3>2
  <2>3. \A S \in {{a} : a \in Slots} \cup {Slots} : S \in SUBSET Slots
    OBVIOUS
  <2>4. CASE \/ HandleOther \/ HandleWrite
             \/ \E S \in SUBSET Slots : HandleSave(S) \/ CheckUnmount(S)
    BY <1>0, <2>4 DEF HandleOther, HandleWrite, HandleSave, CheckUnmount, shared
  <2>5. CASE \E a \in Address : Dispatch(a)
    BY <1>0, <2>5 DEF Dispatch
  <2> QED BY <1>1, <2>1, <2>2, <2>3, <2>4, <2>5 DEF Worker, Serve
<1>2. CASE User
  <2>1. ASSUME NEW a \in Slots, NEW b \in Slots, BeginSwap(a, b) PROVE FALSE
    <3>1. a \in Address /\ b \in Address
      BY <1>0
    <3>2. table'.live = table.live
      BY <1>0, <2>1, <3>1, SwapTable DEF BeginSwap
    <3> QED BY <1>0, <3>2
  <2>2. CASE AskCancel
    <3>1. table'.live = table.live \ {gui.disk} /\ gui.pc = "ask"
      BY <2>2 DEF AskCancel, At, IInv, TypeOK, Tables
    <3> QED BY <3>1 DEF GInv, Clean, Where, Before
  <2>3. ASSUME NEW no \in Slots, NEW i \in Images, NEW ask \in BOOLEAN, BeginMount(no, i, ask)
        PROVE  FALSE
    BY <1>0, <2>3 DEF BeginMount, Tables
  <2>4. ASSUME NEW no \in Slots, \/ BeginEject(no) \/ BeginSave(no) \/ BeginAutoSave(no)
                                 \/ OpenEditor(no) \/ CloseEditor(no) \/ EditImage(no)
        PROVE  FALSE
    BY <1>0, <2>4 DEF BeginEject, BeginSave, BeginAutoSave, OpenEditor, CloseEditor, EditImage,
       shared
  <2>5. CASE AskNo \/ AskYes \/ ChooseFile \/ CancelFile \/ FailedYes \/ FailedNo
    BY <1>0, <2>5 DEF AskNo, AskYes, ChooseFile, CancelFile, FailedYes, FailedNo, Crash, shared
  <2> QED BY <1>2, <2>1, <2>2, <2>3, <2>4, <2>5 DEF User
<1>3. CASE DeleteImg
  <2>1. /\ table'.live = table.live \ {gui.img} /\ gui.pc = "delete"
    <3>1. gui.img \in table.live /\ table' = Delete(table, gui.img) /\ gui.pc = "delete"
      BY <1>0, <1>3 DEF DeleteImg, At, Crash, shared
    <3>2. gui.img \in Device
      BY <1>0, <3>1 DEF Tables
    <3> QED BY <1>0, <3>1, <3>2, DeleteTable
  <2>2. d = gui.img /\ Where = "delete"
    BY <2>1 DEF Where
  <2> QED BY <2>2 DEF GInv, Held, EjectHeld
<1>4. CASE InstallDisk
  BY <1>4, InstallKeepsG
<1>5. CASE \/ Unlink \/ SetLink \/ UnlinkSwap \/ RelinkEject \/ RelinkEnd \/ RelinkSwap \/ Eject
  <2>1. gui.no \in Address \/ ~Eject
    BY <1>0 DEF Eject, At, IInv, PlanOK, Where
  <2>2. \/ \E a \in Address : table' = Uninstall(table, a)
        \/ table' = table
        \/ table' = Install(table, PCLINK, PCLINK) /\ gui.pc \in Out
    BY <1>0, <1>5, <2>1 DEF Unlink, SetLink, UnlinkSwap, RelinkEject, RelinkEnd, RelinkSwap, Eject, Change,
       TakePclinkOut, PutPclinkBack, At, shared, Out
  <2>3. ASSUME NEW a \in Address, table' = Uninstall(table, a) PROVE FALSE
    BY <1>0, <2>3, UninstallTable
  <2>4. ASSUME table' = Install(table, PCLINK, PCLINK), gui.pc \in Out PROVE FALSE
    <3> DEFINE t == Install(table, PCLINK, PCLINK)
    <3>1. /\ table.dev[PCLINK] = NoDevice /\ PCLINK \in table.live /\ NoDevice \notin table.live
      BY <2>4, OnePlace DEF IInv, PlanOK, Where, Out, Fixed
    <3>2. table.no[PCLINK] = NoAddress
      BY <3>1, PclinkOut
    <3>3. /\ t \in Tables /\ Consistent(t) /\ t.live = table.live \ {NoDevice}
          /\ t.dev = [table.dev EXCEPT ![PCLINK] = PCLINK]
          /\ \A e \in Device : t.no[e] = IF e = PCLINK THEN PCLINK
                                         ELSE IF e = NoDevice THEN NoAddress ELSE table.no[e]
      BY <1>0, <3>1, <3>2, InstallTable
    <3> QED BY <1>0, <2>4, <3>1, <3>3
  <2> QED BY <1>0, <2>2, <2>3, <2>4
<1>6. CASE \/ Scan \/ Publish \/ ResetLink \/ ChangeLink \/ SwapLinks \/ GetImg
           \/ SaveGet \/ AsGet \/ SaveLock \/ EditorLock \/ Saving \/ AutoSaving \/ Show \/ Update
  BY <1>0, <1>6 DEF Scan, Publish, ResetLink, ChangeLink, SwapLinks, ChangeLinks, GetImg, SaveGet,
     AsGet, SaveLock, EditorLock, LockSav, Saving, AutoSaving, Show, Update, Crash, shared
<1>7. CASE UNCHANGED vars
  BY <1>0, <1>7 DEF vars
<1> QED BY <1>1, <1>2, <1>3, <1>4, <1>5, <1>6, <1>7 DEF Next, Gui, Crashed

\* An image with unsaved changes is deleted only after the user gave them up,
\* by a mount of RCL, if the worker interfered between the question and the
\* deletion, or if an editor interfered with an unmount of RCL.
THEOREM LossCorrect == Spec => NoSilentLoss
<1> DEFINE A == \A d \in modified : d \in table.live /\ d \notin table'.live =>
                  gui.discard \/ ~gui.ask \/ raced \/ EditedInUnmount(d)
<1>1. IInv /\ GInv /\ OutHeld /\ [Next]_vars => [A]_vars
  BY Losses
<1>2. Init => OutHeld
  BY DEF Init, OutHeld
<1> QED BY <1>1, <1>2, InOrder, HandsKept, NextOutHeld, PTL DEF Spec, NoSilentLoss
=============================================================================
