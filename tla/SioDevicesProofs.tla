-------------------------- MODULE SioDevicesProofs --------------------------
(***************************************************************************)
(* Proofs about SioDevices, for any sets of drives, images and folders.    *)
(*                                                                         *)
(* First what each operation of the device table returns; then the         *)
(* inductive invariant of the two threads; then that they implement the    *)
(* abstract drives.                                                        *)
(***************************************************************************)
EXTENDS SioDevices, TLAPS

(***************************************************************************)
(* The table.                                                              *)
(***************************************************************************)
LEMMA UninstallTable ==
  ASSUME NEW t \in Tables, Consistent(t), NEW a \in Address
  PROVE  LET u == Uninstall(t, a)
         IN  /\ u \in Tables /\ Consistent(u)
             /\ u.live = t.live
             /\ u.dev = [t.dev EXCEPT ![a] = NoDevice]
             /\ \A d \in Device : u.no[d] = IF d = t.dev[a] THEN NoAddress ELSE t.no[d]
<1> DEFINE u == Uninstall(t, a)
<1>1. u \in Tables
  BY DEF Tables, Uninstall
<1>2. /\ u.live = t.live
      /\ u.dev = [t.dev EXCEPT ![a] = NoDevice]
      /\ u.no = [d \in Device |-> IF d = t.dev[a] THEN NoAddress ELSE t.no[d]]
  BY DEF Tables, Uninstall
<1>3. Consistent(u)
  BY <1>1, <1>2, FixedDevices DEF Consistent, Installed, Tables
<1> QED BY <1>1, <1>2, <1>3

LEMMA DeleteTable ==
  ASSUME NEW t \in Tables, Consistent(t), NEW d \in Device
  PROVE  LET u == Delete(t, d)
         IN  /\ u \in Tables /\ Consistent(u)
             /\ u.live = t.live \ {d}
             /\ u.dev = [a \in Address |-> IF t.dev[a] = d THEN NoDevice ELSE t.dev[a]]
             /\ \A e \in Device : u.no[e] = IF e = d THEN NoAddress ELSE t.no[e]
<1> DEFINE v == IF t.no[d] = NoAddress THEN t ELSE Uninstall(t, t.no[d])
           u == Delete(t, d)
<1>1. /\ v \in Tables /\ Consistent(v) /\ v.live = t.live
      /\ v.dev = [a \in Address |-> IF t.dev[a] = d THEN NoDevice ELSE t.dev[a]]
      /\ \A e \in Device : v.no[e] = IF e = d THEN NoAddress ELSE t.no[e]
  <2>1. CASE t.no[d] = NoAddress
    BY <2>1, FixedDevices DEF Tables, Consistent, Installed
  <2>2. CASE t.no[d] # NoAddress
    <3>1. t.no[d] \in Address /\ t.dev[t.no[d]] = d
      BY <2>2 DEF Tables, Consistent
    <3>2. \A a \in Address : t.dev[a] = d => a = t.no[d]
      BY FixedDevices DEF Consistent, Installed
    <3> QED BY <2>2, <3>1, <3>2, UninstallTable DEF Tables
  <2> QED BY <2>1, <2>2
<1>2. u = [v EXCEPT !.live = @ \ {d}]
  BY DEF Delete
<1>3. /\ u \in Tables
      /\ u.live = t.live \ {d} /\ u.dev = v.dev /\ u.no = v.no
  BY <1>1, <1>2 DEF Tables
<1> HIDE DEF u, v
<1>4. Consistent(u)
  <2>1. ASSUME NEW a \in Address, u.dev[a] # NoDevice
        PROVE  u.dev[a] \in u.live /\ u.no[u.dev[a]] = a
    BY <1>1, <1>3, <2>1, FixedDevices DEF Consistent, Installed, Tables
  <2>2. ASSUME NEW e \in Device, u.no[e] # NoAddress
        PROVE  u.dev[u.no[e]] = e
    BY <1>1, <1>3, <2>2 DEF Consistent
  <2> QED BY <2>1, <2>2 DEF Consistent, Installed
<1> QED BY <1>1, <1>3, <1>4 DEF u

LEMMA InstallTable ==
  ASSUME NEW t \in Tables, Consistent(t), NEW a \in Address, NEW d \in t.live,
         t.no[d] = NoAddress
  PROVE  LET u == Install(t, a, d)
         IN  /\ u \in Tables /\ Consistent(u)
             /\ u.live = t.live \ {t.dev[a]}
             /\ u.dev = [t.dev EXCEPT ![a] = d]
             /\ \A e \in Device : u.no[e] = IF e = d THEN a
                                            ELSE IF e = t.dev[a] THEN NoAddress ELSE t.no[e]
<1> DEFINE v == IF t.dev[a] = NoDevice THEN t ELSE Delete(t, t.dev[a])
           u == Install(t, a, d)
<1>0. d \in Device /\ d # t.dev[a] /\ NoAddress \notin Address /\ NoDevice \notin Device
  BY FixedDevices DEF Tables, Consistent, Installed
<1>1. /\ v \in Tables /\ Consistent(v) /\ v.live = t.live \ {t.dev[a]}
      /\ v.dev = [t.dev EXCEPT ![a] = NoDevice]
      /\ \A e \in Device : v.no[e] = IF e = t.dev[a] THEN NoAddress ELSE t.no[e]
  <2>1. CASE t.dev[a] = NoDevice
    BY <2>1, <1>0 DEF Tables
  <2>2. CASE t.dev[a] # NoDevice
    <3>1. t.dev[a] \in Device
      BY <2>2 DEF Tables
    <3>2. \A b \in Address : t.dev[b] = t.dev[a] => b = a
      BY <2>2 DEF Consistent, Installed
    <3> QED BY <2>2, <3>1, <3>2, DeleteTable DEF Tables
  <2> QED BY <2>1, <2>2
<1>2. u = [v EXCEPT !.dev[a] = d, !.no[d] = a]
  BY DEF Install
<1>3. /\ u.live = v.live
      /\ u.dev = [v.dev EXCEPT ![a] = d] /\ u.no = [v.no EXCEPT ![d] = a]
  BY <1>1, <1>2 DEF Tables
<1>4. u \in Tables /\ Consistent(u)
  <2>1. /\ v.dev \in [Address -> Device \cup {NoDevice}]
        /\ v.no \in [Device -> Address \cup {NoAddress}]
        /\ v.live \in SUBSET Device
        /\ d \in v.live /\ v.no[d] = NoAddress
    BY <1>0, <1>1 DEF Tables
  <2>2. u = [dev |-> [v.dev EXCEPT ![a] = d], no |-> [v.no EXCEPT ![d] = a], live |-> v.live]
    BY <1>1, <1>2 DEF Tables
  <2> HIDE DEF u, v
  <2>9. u \in Tables
    BY <1>0, <2>1, <2>2 DEF Tables
  <2>3. \A b \in Address : v.dev[b] # d
    BY <1>0, <1>1, <2>1 DEF Consistent, Installed
  <2>4. \A b \in Address : u.dev[b] = IF b = a THEN d ELSE v.dev[b]
    BY <1>3, <2>1
  <2>5. \A e \in Device : u.no[e] = IF e = d THEN a ELSE v.no[e]
    BY <1>3, <2>1
  <2>6. v.dev[a] = NoDevice
    BY <1>1 DEF Tables
  <2>7. ASSUME NEW b \in Address, u.dev[b] # NoDevice
        PROVE  u.dev[b] \in u.live /\ u.no[u.dev[b]] = b
    BY <1>0, <1>1, <1>3, <2>1, <2>3, <2>4, <2>5, <2>7 DEF Consistent, Installed
  <2>8. ASSUME NEW e \in Device, u.no[e] # NoAddress
        PROVE  u.dev[u.no[e]] = e
    BY <1>0, <1>1, <2>1, <2>4, <2>5, <2>6, <2>8 DEF Consistent
  <2> QED BY <2>9, <2>7, <2>8 DEF Consistent, Installed
<1>5. u.dev = [t.dev EXCEPT ![a] = d]
  BY <1>1, <1>3 DEF Tables
<1> QED BY <1>0, <1>1, <1>3, <1>4, <1>5 DEF Tables

LEMMA SwapTable ==
  ASSUME NEW t \in Tables, Consistent(t), NEW a \in Address, NEW b \in Address, a # b
  PROVE  LET u == Swap(t, a, b)
         IN  /\ u \in Tables /\ Consistent(u)
             /\ u.live = t.live
             /\ u.dev = [t.dev EXCEPT ![a] = t.dev[b], ![b] = t.dev[a]]
             /\ \A e \in Device : u.no[e] = NoAddress <=> t.no[e] = NoAddress
<1> DEFINE x == Uninstall(t, a)
           y == Uninstall(x, b)
           v == IF t.dev[b] = NoDevice THEN y ELSE Install(y, a, t.dev[b])
           u == Swap(t, a, b)
<1>0. /\ NoDevice \notin Device /\ NoAddress \notin Address
      /\ t.dev[a] # NoDevice => t.dev[a] \in t.live /\ t.dev[a] \in Device /\ t.no[t.dev[a]] = a
      /\ t.dev[b] # NoDevice => t.dev[b] \in t.live /\ t.dev[b] \in Device /\ t.no[t.dev[b]] = b
  BY FixedDevices DEF Tables, Consistent, Installed
<1>1. /\ y \in Tables /\ Consistent(y) /\ y.live = t.live
      /\ y.dev = [t.dev EXCEPT ![a] = NoDevice, ![b] = NoDevice]
      /\ \A e \in Device : y.no[e] = IF e \in {t.dev[a], t.dev[b]} THEN NoAddress ELSE t.no[e]
  <2>1. /\ x \in Tables /\ Consistent(x) /\ x.live = t.live
        /\ x.dev = [t.dev EXCEPT ![a] = NoDevice]
        /\ \A e \in Device : x.no[e] = IF e = t.dev[a] THEN NoAddress ELSE t.no[e]
    BY UninstallTable
  <2>2. /\ y \in Tables /\ Consistent(y) /\ y.live = x.live
        /\ y.dev = [x.dev EXCEPT ![b] = NoDevice]
        /\ \A e \in Device : y.no[e] = IF e = x.dev[b] THEN NoAddress ELSE x.no[e]
    BY <2>1, UninstallTable
  <2> QED BY <2>1, <2>2 DEF Tables
<1>2. /\ v \in Tables /\ Consistent(v) /\ v.live = t.live
      /\ v.dev = [t.dev EXCEPT ![a] = t.dev[b], ![b] = NoDevice]
      /\ \A e \in Device : v.no[e] = IF e = t.dev[b] THEN a
                                     ELSE IF e = t.dev[a] THEN NoAddress ELSE t.no[e]
  <2>1. CASE t.dev[b] = NoDevice
    BY <1>0, <1>1, <2>1 DEF Tables
  <2>2. CASE t.dev[b] # NoDevice
    <3>1. y.dev[a] = NoDevice /\ t.dev[b] \in y.live /\ y.no[t.dev[b]] = NoAddress
      BY <1>0, <1>1, <2>2 DEF Tables
    <3>2. /\ v \in Tables /\ Consistent(v) /\ v.live = y.live \ {y.dev[a]}
          /\ v.dev = [y.dev EXCEPT ![a] = t.dev[b]]
          /\ \A e \in Device : v.no[e] = IF e = t.dev[b] THEN a
                                         ELSE IF e = y.dev[a] THEN NoAddress ELSE y.no[e]
      <4> DEFINE d == t.dev[b]
                 w == Install(y, a, d)
      <4>1. v = w
        BY <2>2
      <4>3. y \in Tables /\ Consistent(y) /\ d \in y.live /\ y.no[d] = NoAddress
        BY <1>1, <3>1
      <4> HIDE DEF y, v, d
      <4>2. /\ w \in Tables /\ Consistent(w) /\ w.live = y.live \ {y.dev[a]}
            /\ w.dev = [y.dev EXCEPT ![a] = d]
            /\ \A e \in Device : w.no[e] = IF e = d THEN a
                                           ELSE IF e = y.dev[a] THEN NoAddress ELSE y.no[e]
        BY <4>3, InstallTable
      <4> QED BY <4>1, <4>2 DEF d
    <3> QED BY <1>0, <1>1, <2>2, <3>1, <3>2 DEF Tables
  <2> QED BY <2>1, <2>2
<1>3. u = IF t.dev[a] = NoDevice THEN v ELSE Install(v, b, t.dev[a])
  BY DEF Swap
<1>4. CASE t.dev[a] = NoDevice
  BY <1>0, <1>2, <1>3, <1>4 DEF Tables
<1>5. CASE t.dev[a] # NoDevice
  <2>1. t.dev[a] # t.dev[b]
    BY <1>0, <1>5
  <2>2. v.dev[b] = NoDevice /\ t.dev[a] \in v.live /\ v.no[t.dev[a]] = NoAddress
    BY <1>0, <1>2, <1>5, <2>1 DEF Tables
  <2>3. /\ u \in Tables /\ Consistent(u) /\ u.live = v.live \ {v.dev[b]}
        /\ u.dev = [v.dev EXCEPT ![b] = t.dev[a]]
        /\ \A e \in Device : u.no[e] = IF e = t.dev[a] THEN b
                                       ELSE IF e = v.dev[b] THEN NoAddress ELSE v.no[e]
    BY <1>2, <1>3, <1>5, <2>2, InstallTable
  <2> QED BY <1>0, <1>2, <1>5, <2>1, <2>2, <2>3 DEF Tables
<1> QED BY <1>4, <1>5
-----------------------------------------------------------------------------
(***************************************************************************)
(* The inductive invariant.                                                *)
(***************************************************************************)
\* The label the GUI handler is at, or goes to after a scan of devices[].
Where == IF gui.pc \in {"scan", "publish"} THEN gui.ret ELSE gui.pc

\* Where PCLINK is out of the table.
Out == {"resetLink", "relinkEject", "changeLink", "swapLinks", "relinkEnd", "relinkSwap"}

\* The labels of a save, from the fetch of the image to its last dialog.
Saves == {"saveGet", "asGet", "fileDialog", "saveLock", "saving", "autosaving", "failed"}

\* Where mountFile has not installed its image yet.
Before == {"unlink", "resetLink", "relinkEject", "getImg", "ask", "uninstall",
           "delete", "install"} \cup Saves

AfterScan == {"idle", "resetLink", "getImg", "changeLink", "swapLinks",
              "delete", "setLink", "install", "show"}

\* Drives hold images, and the two fixed devices keep their places.
Fixed ==
  /\ table.dev[RCL] = RCL /\ table.dev[PCLINK] \in {PCLINK, NoDevice}
  /\ \A s \in Slots : table.dev[s] \in Images \cup {NoDevice}
  /\ PCLINK \in table.live /\ RCL \in table.live

\* The worker's variables say what it handles, or nothing.
HandlerOK ==
  /\ wpc = "reading" => wdev = NoDevice /\ wout = {}
  /\ wpc = "handling" => wno \in Address
  /\ wout # {} => wdev = RCL

\* What the GUI handler relies on at each label.
PlanOK ==
  /\ gui.pc \in {"scan", "publish"} => gui.ret \in AfterScan
  /\ gui.pc \in Saves => gui.ret \in {"idle", "uninstall", "update"}
  /\ Where \notin {"idle", "edLock"} => gui.no \in Slots
  /\ Where \in Out => table.dev[PCLINK] = NoDevice
  /\ Where = "install" => gui.disk # NoDevice
  /\ Where \in Before /\ gui.disk # NoDevice =>
       gui.disk \in table.live /\ table.no[gui.disk] = NoAddress /\ gui.img # gui.disk
  /\ gui.pc = "saving" => gui.sav \in Images
  /\ gui.pc = "saving" /\ gui.sav \in table.live => lock[gui.sav] = "gui"

IInv == TypeOK /\ TableConsistent /\ HandlerOwnsDevice /\ Fixed /\ HandlerOK /\ PlanOK

(***************************************************************************)
(* Facts that every step uses.                                             *)
(***************************************************************************)
\* Goto gives the handler a legal state, whose fields are those of g.
LEMMA GotoType ==
  ASSUME TypeOK, NEW g \in GuiStates, NEW l \in Label, Goto(g, l)
  PROVE  /\ gui' \in GuiStates /\ raced' \in BOOLEAN /\ fault' \in BOOLEAN
         /\ gui'.pc = l
         /\ l = "idle" => gui' = Idle
         /\ l # "idle" => gui' = [g EXCEPT !.pc = l]
<1>1. Idle \in GuiStates /\ Idle.pc = "idle"
  BY DEF Idle, GuiStates, Label
<1>2. [g EXCEPT !.pc = l] \in GuiStates /\ [g EXCEPT !.pc = l].pc = l
  BY DEF GuiStates
<1>3. gui' = IF l = "idle" THEN Idle ELSE [g EXCEPT !.pc = l]
  BY DEF Goto
<1>4. raced' \in BOOLEAN
  BY Zenon DEF Goto
<1>5. fault' \in BOOLEAN
  BY Zenon DEF Goto, TypeOK
<1> QED BY <1>1, <1>2, <1>3, <1>4, <1>5

\* A device is at one address at most, and only if it believes so.
LEMMA OnePlace ==
  ASSUME IInv
  PROVE  /\ table \in Tables /\ table.live \subseteq Device
         /\ \A a \in Address : table.dev[a] \in Device =>
              table.dev[a] \in table.live /\ table.no[table.dev[a]] = a
         /\ \A d \in Device : table.no[d] # NoAddress =>
              table.no[d] \in Address /\ table.dev[table.no[d]] = d
         /\ \A a \in Address : table.dev[a] = PCLINK => a = PCLINK
         /\ NoDevice \notin Device /\ NoAddress \notin Address
<1>1. table \in Tables /\ Consistent(table) /\ Fixed
  BY DEF IInv, TypeOK, TableConsistent
<1>2. \A a \in Address : table.dev[a] \in Device \cup {NoDevice}
  BY <1>1 DEF Tables
<1>3. table.no \in [Device -> Address \cup {NoAddress}] /\ table.live \subseteq Device
  BY <1>1 DEF Tables
<1>4. \A a \in Address : table.dev[a] = PCLINK => a = PCLINK
  BY <1>1, FixedDevices DEF Fixed, Address, Device
<1> QED BY <1>1, <1>2, <1>3, <1>4, FixedDevices DEF Consistent, Installed

\* When PCLINK is not at its address it is nowhere.
LEMMA PclinkOut ==
  ASSUME IInv, table.dev[PCLINK] = NoDevice
  PROVE  table.no[PCLINK] = NoAddress /\ ~(wpc = "handling" /\ wdev = PCLINK)
<1>1. PCLINK \in Device /\ PCLINK # NoDevice
  BY FixedDevices DEF Device
<1>2. \A a \in Address : table.dev[a] # PCLINK
  BY <1>1, OnePlace
<1> QED BY <1>1, <1>2, OnePlace DEF IInv, HandlerOwnsDevice, HandlerOK

(***************************************************************************)
(* The worker keeps the invariant.                                         *)
(***************************************************************************)
\* A step of the worker that leaves PCLINK, the images outside the table and
\* the locks of the GUI alone does not disturb the handler.
LEMMA PlanStays ==
  ASSUME IInv, gui' = gui, table'.dev[PCLINK] = table.dev[PCLINK],
         \A d \in Device : d \in table.live /\ table.no[d] = NoAddress =>
           d \in table'.live /\ table'.no[d] = NoAddress,
         \A d \in Device : lock[d] = "gui" /\ d \in table'.live => lock'[d] = "gui",
         \A d \in Device : d \in table'.live => d \in table.live
  PROVE  PlanOK'
<1>1. Where' = Where
  BY DEF Where
<1>2. gui.disk \in Device \cup {NoDevice} /\ gui.sav \in Images \cup {NoDevice} /\ Images \subseteq Device
  BY DEF IInv, TypeOK, GuiStates, Device
<1> QED BY <1>1, <1>2 DEF IInv, PlanOK

LEMMA DispatchKeeps ==
  ASSUME IInv, NEW a \in Address, Dispatch(a)
  PROVE  IInv'
<1>1. table.dev[a] \in Device /\ lock[table.dev[a]] = "free"
  BY DEF Dispatch, Unlocked
<1>2. TypeOK'
  BY <1>1 DEF Dispatch, IInv, TypeOK
<1>3. TableConsistent' /\ Fixed'
  BY DEF Dispatch, IInv, TableConsistent, Fixed
<1>4. HandlerOwnsDevice' /\ HandlerOK'
  BY <1>1, OnePlace DEF Dispatch, IInv, TypeOK, HandlerOwnsDevice, HandlerOK
<1>5. PlanOK'
  BY <1>1, PlanStays DEF Dispatch, IInv, TypeOK
<1> QED BY <1>2, <1>3, <1>4, <1>5 DEF IInv

\* A command that leaves the table alone.
LEMMA ReturnKeeps ==
  ASSUME IInv, HandleOther \/ HandleWrite \/ \E S \in SUBSET Slots : HandleSave(S)
  PROVE  IInv'
<1>1. /\ Return /\ UNCHANGED <<table, links, active, stale>>
      /\ lock' = [lock EXCEPT ![wdev] = "free"]
      /\ modified' \subseteq Images
  BY DEF HandleOther, HandleWrite, HandleSave, Return, IInv, TypeOK
<1>2. raced' \in BOOLEAN
  BY Zenon DEF HandleOther, HandleWrite, HandleSave, IInv, TypeOK
<1>3. wdev \in table.live /\ wdev \in Device /\ lock[wdev] = "worker"
  BY <1>1, OnePlace DEF Return, IInv, HandlerOwnsDevice
<1>4. TypeOK'
  BY <1>1, <1>2, <1>3 DEF Return, IInv, TypeOK
<1>5. TableConsistent' /\ Fixed' /\ HandlerOwnsDevice' /\ HandlerOK'
  BY <1>1 DEF Return, IInv, TableConsistent, Fixed, HandlerOwnsDevice, HandlerOK
<1>6. PlanOK'
  BY <1>1, <1>3, PlanStays DEF Return, IInv, TypeOK
<1> QED BY <1>4, <1>5, <1>6 DEF IInv

LEMMA SwapKeeps ==
  ASSUME IInv, NEW a \in Slots, NEW b \in Slots, HandleSwap(a, b)
  PROVE  IInv'
<1>0. /\ a \in Address /\ b \in Address /\ a # b /\ Return /\ wdev = RCL /\ RCL \in Device
      /\ RCL \notin Slots /\ PCLINK \notin Slots /\ RCL \in Address /\ PCLINK \in Address
  BY FixedDevices DEF HandleSwap, Address, Device
<1>1. /\ table' \in Tables /\ Consistent(table') /\ table'.live = table.live
      /\ table'.dev = [table.dev EXCEPT ![a] = table.dev[b], ![b] = table.dev[a]]
      /\ \A e \in Device : table'.no[e] = NoAddress <=> table.no[e] = NoAddress
  <2>1. table \in Tables /\ Consistent(table) /\ table' = Swap(table, a, b)
    BY DEF HandleSwap, IInv, TypeOK, TableConsistent
  <2> QED BY <1>0, <2>1, SwapTable
<1>2. /\ lock' = [lock EXCEPT ![RCL] = "free"] /\ active' \subseteq Address
      /\ lock[RCL] = "worker" /\ UNCHANGED <<modified, links>>
  BY <1>0 DEF HandleSwap, Return, Interfere, Installed
<1>3. raced' \in BOOLEAN /\ stale' \in BOOLEAN
  BY Zenon DEF HandleSwap, Interfere, IInv, TypeOK
<1>4. TypeOK'
  BY <1>0, <1>1, <1>2, <1>3 DEF Return, IInv, TypeOK
<1>5. table.dev \in [Address -> Device \cup {NoDevice}]
  BY DEF IInv, TypeOK, Tables
<1>6. Fixed'
  <2>1. /\ table'.dev[RCL] = table.dev[RCL] /\ table'.dev[PCLINK] = table.dev[PCLINK]
        /\ \A s \in Slots : table'.dev[s] \in {table.dev[s], table.dev[a], table.dev[b]}
    BY <1>0, <1>1, <1>5 DEF Address
  <2> QED BY <1>1, <2>1 DEF IInv, Fixed
<1>7. TableConsistent' /\ HandlerOwnsDevice' /\ HandlerOK'
  BY <1>0, <1>1 DEF Return, TableConsistent, HandlerOwnsDevice, HandlerOK
<1>8. PlanOK'
  BY <1>0, <1>1, <1>2, <1>5, PlanStays DEF Return, IInv, TypeOK
<1> QED BY <1>4, <1>6, <1>7, <1>8 DEF IInv

LEMMA CheckKeeps ==
  ASSUME IInv, NEW S \in SUBSET Slots, CheckUnmount(S)
  PROVE  IInv'
<1>1. /\ UNCHANGED <<table, lock, modified, links, active, wpc, wno, wdev, gui>>
      /\ wdev = RCL /\ wpc = "handling" /\ wout' \subseteq Slots
  BY DEF CheckUnmount, shared
<1>2. raced' \in BOOLEAN /\ stale' \in BOOLEAN /\ fault' \in BOOLEAN
  BY Zenon DEF CheckUnmount, IInv, TypeOK
<1>3. TypeOK'
  BY <1>1, <1>2 DEF IInv, TypeOK
<1>4. TableConsistent' /\ HandlerOwnsDevice' /\ Fixed' /\ HandlerOK'
  BY <1>1 DEF IInv, TableConsistent, HandlerOwnsDevice, Fixed, HandlerOK
<1>5. PlanOK'
  BY <1>1 DEF IInv, PlanOK, Where
<1> QED BY <1>3, <1>4, <1>5 DEF IInv

LEMMA UnmountKeeps ==
  ASSUME IInv, Unmount
  PROVE  IInv'
<1> PICK S \in SUBSET Slots : S = wout
  BY DEF IInv, TypeOK
<1> DEFINE out == {table.dev[a] : a \in S} \ {NoDevice}
<1>0. /\ S \subseteq Address /\ Return /\ wdev = RCL /\ RCL \in Device /\ PCLINK \in Device
      /\ RCL \notin Slots /\ PCLINK \notin Slots /\ RCL \in Address /\ PCLINK \in Address
      /\ RCL \notin Images /\ PCLINK \notin Images
  BY FixedDevices DEF Unmount, IInv, HandlerOK, Address, Device
<1>1. /\ table'.dev = [a \in Address |-> IF a \in S THEN NoDevice ELSE table.dev[a]]
      /\ table'.no = [d \in Device |-> IF d \in out THEN NoAddress ELSE table.no[d]]
      /\ table'.live = table.live \ out
      /\ table' = [dev |-> table'.dev, no |-> table'.no, live |-> table'.live]
      /\ lock' = [d \in Device |-> IF d \in out \cup {RCL} THEN "free" ELSE lock[d]]
      /\ active' \subseteq Address /\ modified' = modified \ out /\ UNCHANGED links
  BY DEF Unmount, Interfere, Installed
<1>2. out \subseteq Images
  BY DEF IInv, Fixed
<1>3. /\ table.dev \in [Address -> Device \cup {NoDevice}]
      /\ table.no \in [Device -> Address \cup {NoAddress}]
      /\ table.live \subseteq Device
  BY DEF IInv, TypeOK, Tables
<1>4. \A a \in Address : a \notin S /\ table.dev[a] # NoDevice => table.dev[a] \notin out
  BY <1>0, <1>3, OnePlace
<1>5. raced' \in BOOLEAN /\ stale' \in BOOLEAN
  BY Zenon DEF Unmount, Interfere, IInv, TypeOK
<1>6. table' \in Tables
  BY <1>1, <1>3 DEF Tables
<1>7. lock' \in [Device -> {"free", "worker", "gui", "editor"}]
  BY <1>1 DEF IInv, TypeOK
<1>8. TypeOK'
  BY <1>0, <1>1, <1>5, <1>6, <1>7 DEF Return, IInv, TypeOK
<1>9. TableConsistent'
  <2>1. ASSUME NEW a \in Address, table'.dev[a] # NoDevice
        PROVE  table'.dev[a] \in table'.live /\ table'.no[table'.dev[a]] = a
    BY <1>1, <1>3, <1>4, <2>1, OnePlace
  <2>2. ASSUME NEW d \in Device, table'.no[d] # NoAddress
        PROVE  table'.dev[table'.no[d]] = d
    BY <1>0, <1>1, <1>3, <2>2, OnePlace
  <2> QED BY <2>1, <2>2 DEF TableConsistent, Consistent, Installed
<1>10. Fixed'
  <2>1. RCL \notin out /\ PCLINK \notin out
    BY <1>0, <1>2
  <2>2. /\ table'.dev[RCL] = table.dev[RCL] /\ table'.dev[PCLINK] = table.dev[PCLINK]
        /\ \A s \in Slots : table'.dev[s] \in {table.dev[s], NoDevice}
    BY <1>0, <1>1 DEF Address
  <2> HIDE DEF out
  <2> QED BY <1>1, <2>1, <2>2 DEF IInv, Fixed
<1>11. HandlerOwnsDevice' /\ HandlerOK'
  BY <1>0 DEF Return, HandlerOwnsDevice, HandlerOK
<1>12. PlanOK'
  <2>1. \A d \in Device : d \in out => table.no[d] # NoAddress
    BY <1>0, <1>3, OnePlace
  <2>2. lock[RCL] = "worker"
    BY <1>0 DEF Return
  <2> HIDE DEF out
  <2>3. /\ \A d \in Device : d \in table.live /\ table.no[d] = NoAddress =>
             d \in table'.live /\ table'.no[d] = NoAddress
        /\ \A d \in Device : lock[d] = "gui" /\ d \in table'.live => lock'[d] = "gui"
    BY <1>1, <2>1, <2>2
  <2> QED BY <1>0, <1>1, <2>3, PlanStays DEF Return
<1> QED BY <1>8, <1>9, <1>10, <1>11, <1>12 DEF IInv

LEMMA WorkerKeeps ==
  ASSUME IInv, Worker
  PROVE  IInv'
<1>1. ASSUME NEW a \in Address, Dispatch(a) PROVE IInv'
  BY <1>1, DispatchKeeps
<1>2. ASSUME Serve PROVE IInv'
  <2>1. /\ \A a \in Slots : {a} \in SUBSET Slots
        /\ Slots \in SUBSET Slots
    OBVIOUS
  <2>2. CASE HandleOther \/ HandleWrite
    BY <2>2, ReturnKeeps
  <2>3. CASE \E a, b \in Slots : HandleSwap(a, b)
    BY <2>3, SwapKeeps
  <2>4. ASSUME NEW S \in {{a} : a \in Slots} \cup {Slots}, CheckUnmount(S) \/ HandleSave(S)
        PROVE  IInv'
    BY <2>1, <2>4, CheckKeeps, ReturnKeeps
  <2>5. CASE Unmount
    BY <2>5, UnmountKeeps
  <2> QED BY <1>2, <2>2, <2>3, <2>4, <2>5 DEF Serve
<1> QED BY <1>1, <1>2 DEF Worker

(***************************************************************************)
(* The GUI keeps the invariant.                                            *)
(***************************************************************************)
\* What has to be shown of a step of a GUI handler.
LEMMA GuiKeeps ==
  ASSUME IInv, NEW g \in GuiStates, NEW l \in Label, Goto(g, l), UNCHANGED worker,
         table' \in Tables, Consistent(table'), Fixed', MutexFree \/ HandlerOwnsDevice',
         lock' \in [Device -> {"free", "worker", "gui", "editor"}],
         modified' \subseteq Images, links' \subseteq Slots, active' \subseteq Address,
         stale' \in BOOLEAN, PlanOK'
  PROVE  IInv'
<1>1. gui' \in GuiStates /\ raced' \in BOOLEAN /\ fault' \in BOOLEAN
  BY GotoType DEF IInv
<1>2. TypeOK'
  BY <1>1 DEF IInv, TypeOK, worker
<1>3. HandlerOwnsDevice' /\ HandlerOK' /\ TableConsistent'
  BY DEF IInv, HandlerOwnsDevice, HandlerOK, MutexFree, worker, TableConsistent
<1> QED BY <1>2, <1>3 DEF IInv

\* A step that touches nothing the two threads share.
LEMMA QuietKeeps ==
  ASSUME IInv, NEW g \in GuiStates, NEW l \in Label, Goto(g, l), UNCHANGED worker,
         UNCHANGED <<shared, stale>>, PlanOK'
  PROVE  IInv'
<1>1. stale' \in BOOLEAN
  BY Zenon DEF IInv, TypeOK
<1>2. Fixed' /\ HandlerOwnsDevice'
  BY DEF IInv, shared, worker, Fixed, HandlerOwnsDevice
<1>3. /\ table' \in Tables /\ Consistent(table')
      /\ lock' \in [Device -> {"free", "worker", "gui", "editor"}]
      /\ modified' \subseteq Images /\ links' \subseteq Slots /\ active' \subseteq Address
  BY DEF IInv, TypeOK, TableConsistent, shared
<1> QED BY <1>1, <1>2, <1>3, GuiKeeps

\* Nothing is asked of a handler that has ended.
LEMMA IdlePlan ==
  ASSUME gui' = Idle
  PROVE  PlanOK'
BY DEF Idle, PlanOK, Where, Out, Before, Saves

LEMMA CrashKeeps ==
  ASSUME IInv, Crash, UNCHANGED worker
  PROVE  IInv'
<1>1. raced' \in BOOLEAN /\ stale' \in BOOLEAN /\ fault' \in BOOLEAN
  BY Zenon DEF Crash, IInv, TypeOK
<1>2. UNCHANGED <<table, lock, modified, links, active, gui, wpc, wno, wdev, wout>>
  BY DEF Crash, shared, worker
<1>3. TypeOK'
  BY <1>1, <1>2 DEF IInv, TypeOK
<1>4. TableConsistent' /\ HandlerOwnsDevice' /\ Fixed' /\ HandlerOK'
  BY <1>2 DEF IInv, TableConsistent, HandlerOwnsDevice, Fixed, HandlerOK
<1>5. PlanOK'
  BY <1>2 DEF IInv, PlanOK, Where
<1> QED BY <1>3, <1>4, <1>5 DEF IInv

\* The handlers the user starts.
LEMMA BeginMountKeeps ==
  ASSUME IInv, NEW no \in Slots, NEW d \in Images, NEW ask \in BOOLEAN, BeginMount(no, d, ask)
  PROVE  IInv'
<1> DEFINE g == [Idle EXCEPT !.no = no, !.disk = d, !.ask = ask]
<1>0. d \in Device /\ d # NoDevice /\ d \notin table.live
  BY FixedDevices DEF BeginMount, Device
<1>1. g \in GuiStates /\ "unlink" \in Label
  BY DEF Idle, GuiStates, Label
<1>2. gui' = [g EXCEPT !.pc = "unlink"]
  BY <1>1, GotoType DEF BeginMount, IInv
<1>3. /\ table.dev \in [Address -> Device \cup {NoDevice}]
      /\ table.no \in [Device -> Address \cup {NoAddress}]
      /\ table.live \subseteq Device
      /\ table'.dev = table.dev /\ table'.no = table.no /\ table'.live = table.live \cup {d}
      /\ table' \in Tables
  BY <1>0 DEF BeginMount, IInv, TypeOK, Tables
<1>4. table.no[d] = NoAddress
  BY <1>0, OnePlace
<1>5. Consistent(table') /\ Fixed'
  BY <1>3 DEF IInv, TableConsistent, Consistent, Installed, Fixed
<1>6. HandlerOwnsDevice'
  BY <1>3 DEF BeginMount, At, worker, IInv, HandlerOwnsDevice
<1>7. PlanOK'
  BY <1>0, <1>2, <1>3, <1>4 DEF Idle, PlanOK, Where, Out, Saves
<1>8. stale' \in BOOLEAN
  BY Zenon DEF BeginMount, IInv, TypeOK
<1> QED BY <1>1, <1>3, <1>5, <1>6, <1>7, <1>8, GuiKeeps DEF BeginMount, At, IInv, TypeOK

LEMMA BeginQuietly ==
  ASSUME IInv, NEW no \in Slots,
         BeginEject(no) \/ BeginSave(no) \/ BeginAutoSave(no) \/ OpenEditor(no)
  PROVE  IInv'
<1>1. table.dev[no] \in Images \cup {NoDevice}
  BY DEF IInv, Fixed
<1>2. PICK g \in GuiStates, l \in Label :
        /\ Goto(g, l) /\ UNCHANGED worker /\ UNCHANGED <<shared, stale>>
        /\ l \notin {"scan", "publish", "saving", "install", "idle"} \cup Out
        /\ g.disk = NoDevice
        /\ l # "edLock" => g.ret \in {"idle", "update"} /\ g.no \in Slots
  <2>1. CASE BeginEject(no)
    <3> DEFINE g == [Idle EXCEPT !.no = no]
    <3>1. /\ g \in GuiStates /\ g.disk = NoDevice /\ g.no \in Slots /\ g.ret = "idle"
          /\ "unlink" \in Label
      BY DEF Idle, GuiStates, Label
    <3> QED BY <2>1, <3>1 DEF BeginEject, At, Out
  <2>2. CASE BeginSave(no)
    <3> DEFINE g(r) == [Idle EXCEPT !.no = no, !.ret = r]
               h == [Idle EXCEPT !.no = no]
    <3>1. /\ \A r \in {"idle", "update"} :
               g(r) \in GuiStates /\ g(r).disk = NoDevice /\ g(r).no \in Slots /\ g(r).ret = r
          /\ h \in GuiStates /\ h.disk = NoDevice /\ h.no \in Slots /\ h.ret = "idle"
          /\ "saveGet" \in Label /\ "asGet" \in Label
      BY DEF Idle, GuiStates, Label
    <3>2. /\ UNCHANGED worker /\ UNCHANGED <<shared, stale>>
          /\ (\E r \in {"idle", "update"} : Goto(g(r), "saveGet")) \/ Goto(h, "asGet")
      BY <2>2 DEF BeginSave, At
    <3> HIDE DEF g, h
    <3> QED BY <3>1, <3>2 DEF Out
  <2>3. CASE BeginAutoSave(no)
    <3> DEFINE g == [Idle EXCEPT !.no = no, !.img = table.dev[no], !.sav = table.dev[no],
                                 !.ret = "update"]
    <3>1. /\ g \in GuiStates /\ g.disk = NoDevice /\ g.no \in Slots /\ g.ret = "update"
          /\ "autosaving" \in Label
      BY <1>1 DEF Idle, GuiStates, Label
    <3> QED BY <2>3, <3>1 DEF BeginAutoSave, At, Out
  <2>4. CASE OpenEditor(no)
    <3> DEFINE g == [Idle EXCEPT !.sav = table.dev[no]]
    <3>1. g \in GuiStates /\ g.disk = NoDevice /\ "edLock" \in Label
      BY <1>1 DEF Idle, GuiStates, Label
    <3> QED BY <2>4, <3>1 DEF OpenEditor, At, Out
  <2> QED BY <2>1, <2>2, <2>3, <2>4
<1>3. gui' = [g EXCEPT !.pc = l]
  BY <1>2, GotoType DEF IInv
<1>4. PlanOK'
  BY <1>2, <1>3 DEF GuiStates, PlanOK, Where, Before, Saves
<1> QED BY <1>2, <1>4, QuietKeeps

LEMMA BeginSwapKeeps ==
  ASSUME IInv, NEW a \in Slots, NEW b \in Slots, BeginSwap(a, b)
  PROVE  IInv'
<1> DEFINE g == [Idle EXCEPT !.no = a, !.no2 = b]
<1>0. /\ a \in Address /\ b \in Address /\ a # b
      /\ RCL \notin Slots /\ PCLINK \notin Slots /\ RCL \in Address /\ PCLINK \in Address
  BY FixedDevices DEF BeginSwap, Address
<1>1. table \in Tables /\ Consistent(table) /\ table' = Swap(table, a, b)
  BY DEF BeginSwap, IInv, TypeOK, TableConsistent
<1>2. /\ table' \in Tables /\ Consistent(table') /\ table'.live = table.live
      /\ table'.dev = [table.dev EXCEPT ![a] = table.dev[b], ![b] = table.dev[a]]
  BY <1>0, <1>1, SwapTable
<1>3. /\ table'.dev[RCL] = table.dev[RCL] /\ table'.dev[PCLINK] = table.dev[PCLINK]
      /\ \A s \in Slots : table'.dev[s] \in {table.dev[s], table.dev[a], table.dev[b]}
  BY <1>0, <1>1, <1>2 DEF Address, Tables
<1>4. Fixed'
  BY <1>2, <1>3 DEF IInv, Fixed
<1>5. g \in GuiStates /\ "unlinkSwap" \in Label
  BY DEF Idle, GuiStates, Label
<1>6. gui' = [g EXCEPT !.pc = "unlinkSwap"]
  BY <1>5, GotoType DEF BeginSwap, IInv
<1>7. PlanOK'
  BY <1>6 DEF Idle, PlanOK, Where, Out, Before
<1>8. active' \subseteq Address /\ stale' \in BOOLEAN
  BY DEF BeginSwap, Installed
<1> QED BY <1>2, <1>4, <1>5, <1>7, <1>8, GuiKeeps DEF BeginSwap, At, IInv, TypeOK

LEMMA EditorKeeps ==
  ASSUME IInv, NEW no \in Slots, CloseEditor(no) \/ EditImage(no)
  PROVE  IInv'
<1>0. table.dev[no] \in Images \cup {NoDevice} /\ UNCHANGED <<table, links, active, gui, wpc, wno, wdev, wout>>
  BY DEF CloseEditor, EditImage, At, worker, IInv, Fixed
<1>1. raced' \in BOOLEAN /\ stale' \in BOOLEAN /\ fault' \in BOOLEAN
  BY Zenon DEF CloseEditor, EditImage, IInv, TypeOK
<1>2. /\ modified' \subseteq Images
      /\ lock' \in [Device -> {"free", "worker", "gui", "editor"}]
      /\ lock' = lock \/ (MutexFree /\ gui.pc = "idle")
  BY DEF CloseEditor, EditImage, At, IInv, TypeOK
<1>3. TypeOK'
  BY <1>0, <1>1, <1>2 DEF IInv, TypeOK
<1>4. TableConsistent' /\ Fixed' /\ HandlerOK' /\ HandlerOwnsDevice'
  BY <1>0, <1>2 DEF IInv, TableConsistent, Fixed, HandlerOK, HandlerOwnsDevice, MutexFree
<1>5. PlanOK'
  BY <1>0, <1>2 DEF IInv, PlanOK, Where
<1> QED BY <1>3, <1>4, <1>5 DEF IInv

\* Scan and publication.
LEMMA ScanKeeps ==
  ASSUME IInv, Scan \/ Publish
  PROVE  IInv'
<1>0. gui \in GuiStates /\ PlanOK
  BY DEF IInv, TypeOK
<1>1. CASE Scan
  <2> DEFINE g == [gui EXCEPT !.scan = Installed(table)]
  <2>1. g \in GuiStates /\ "publish" \in Label
    BY <1>0 DEF GuiStates, Label, Installed
  <2>2. gui' = [g EXCEPT !.pc = "publish"] /\ gui.pc = "scan" /\ UNCHANGED shared
    BY <1>1, <2>1, GotoType DEF Scan, At, IInv
  <2>3. PlanOK'
    BY <1>0, <2>2 DEF GuiStates, shared, PlanOK, Where, Saves
  <2>4. Fixed' /\ HandlerOwnsDevice' /\ stale' \in BOOLEAN
    BY <1>1 DEF Scan, At, IInv, shared, worker, Fixed, HandlerOwnsDevice
  <2> QED BY <1>1, <2>1, <2>3, <2>4, GuiKeeps DEF Scan, At, IInv, TypeOK, TableConsistent, shared
<1>2. CASE Publish
  <2> DEFINE g == [gui EXCEPT !.scan = {}]
  <2>1. g \in GuiStates /\ gui.ret \in Label /\ gui.scan \subseteq Address
    BY <1>0 DEF GuiStates
  <2>2. gui.pc = "publish" /\ gui.ret \in AfterScan /\ Where = gui.ret
    BY <1>0, <1>2 DEF Publish, At, PlanOK, Where
  <2>3. /\ gui.ret = "idle" => gui' = Idle
        /\ gui.ret # "idle" => gui' = [g EXCEPT !.pc = gui.ret]
        /\ UNCHANGED <<table, lock>>
    BY <1>2, <2>1, GotoType DEF Publish, IInv
  <2>4. PlanOK'
    <3>1. CASE gui.ret = "idle"
      BY <2>3, <3>1, IdlePlan
    <3>2. CASE gui.ret # "idle"
      BY <1>0, <2>2, <2>3, <3>2 DEF GuiStates, PlanOK, Where, AfterScan, Saves
    <3> QED BY <3>1, <3>2
  <2>5. stale' \in BOOLEAN
    BY <1>2, Zenon DEF Publish, IInv, TypeOK
  <2>6. Fixed' /\ HandlerOwnsDevice'
    BY <1>2 DEF Publish, At, IInv, worker, Fixed, HandlerOwnsDevice
  <2> QED BY <1>2, <2>1, <2>4, <2>5, <2>6, GuiKeeps DEF Publish, At, IInv, TypeOK, TableConsistent
<1> QED BY <1>1, <1>2

\* A change of the table that continues at l keeps the invariant if it keeps
\* the two fixed devices, the image being mounted and the plan of l.
LEMMA ChangeKeeps ==
  ASSUME IInv, NEW t \in Tables, NEW l \in AfterScan, Change(t, l), UNCHANGED worker,
         Consistent(t), Fixed', lock' \in [Device -> {"free", "worker", "gui", "editor"}],
         modified' \subseteq Images,
         l # "idle" => gui.no \in Slots,
         l \in Out => t.dev[PCLINK] = NoDevice,
         l = "install" => gui.disk # NoDevice,
         l \in Before /\ gui.disk # NoDevice =>
           gui.disk \in t.live /\ t.no[gui.disk] = NoAddress /\ gui.img # gui.disk
  PROVE  IInv'
<1> DEFINE g == [gui EXCEPT !.ret = l]
<1>1. g \in GuiStates /\ "scan" \in Label
  BY DEF IInv, TypeOK, GuiStates, Label, AfterScan
<1>2. gui' = [g EXCEPT !.pc = "scan"] /\ table' = t
  BY <1>1, GotoType DEF Change, IInv
<1>3. PlanOK'
  BY <1>1, <1>2 DEF GuiStates, PlanOK, Where, Saves
<1>4. stale' \in BOOLEAN
  BY Zenon DEF Change, IInv, TypeOK
<1> QED BY <1>1, <1>2, <1>3, <1>4, GuiKeeps DEF Change, IInv, TypeOK

\* PCLINK leaves the table before its links change.
LEMMA TakeOutKeeps ==
  ASSUME IInv, NEW linked \in BOOLEAN, NEW l \in Out \cap AfterScan, NEW n \in {"idle", "getImg", "show"},
         TakePclinkOut(linked, l, n), UNCHANGED worker, gui.no \in Slots,
         l = "resetLink" \/ n = "getImg" => gui.pc = "unlink"
  PROVE  IInv'
<1>0. /\ PCLINK \in Address /\ PCLINK \notin Images /\ PCLINK # RCL /\ PCLINK \notin Slots
      /\ RCL \in Address
  BY FixedDevices DEF Address
<1>1. CASE Change(Uninstall(table, PCLINK), l) /\ UNCHANGED <<lock, modified>>
  <2> DEFINE t == Uninstall(table, PCLINK)
  <2>1. /\ t \in Tables /\ Consistent(t) /\ t.live = table.live
        /\ t.dev = [table.dev EXCEPT ![PCLINK] = NoDevice]
        /\ \A d \in Device : t.no[d] = IF d = table.dev[PCLINK] THEN NoAddress ELSE table.no[d]
    BY <1>0, UninstallTable DEF IInv, TypeOK, TableConsistent
  <2>2. table' = t
    BY <1>1 DEF Change
  <2>3. /\ t.dev[PCLINK] = NoDevice /\ t.dev[RCL] = RCL
        /\ \A s \in Slots : t.dev[s] = table.dev[s]
    BY <1>0, <2>1 DEF IInv, Fixed, TypeOK, Tables, Address
  <2>4. Fixed'
    BY <2>1, <2>2, <2>3 DEF IInv, Fixed
  <2>5. l \in Before /\ gui.disk # NoDevice =>
          gui.disk \in t.live /\ t.no[gui.disk] = NoAddress /\ gui.img # gui.disk
    <3>1. l \in Before => gui.pc = "unlink"
      BY DEF Before, Saves, Out, AfterScan
    <3>2. gui.disk \in Images \cup {NoDevice}
      BY DEF IInv, TypeOK, GuiStates
    <3> QED BY <1>0, <2>1, <3>1, <3>2 DEF IInv, PlanOK, Where, Before, Device
  <2> HIDE DEF t
  <2> QED BY <1>1, <2>1, <2>3, <2>4, <2>5, ChangeKeeps DEF t, IInv, TypeOK, Out
<1>2. CASE Goto(gui, n) /\ UNCHANGED <<shared, stale>>
  <2>1. gui \in GuiStates /\ n \in Label
    BY DEF IInv, TypeOK, Label
  <2>2. PlanOK'
    <3>1. CASE n = "idle"
      BY <1>2, <2>1, <3>1, GotoType, IdlePlan DEF IInv
    <3>2. CASE n = "getImg"
      <4>1. gui' = [gui EXCEPT !.pc = "getImg"] /\ gui.pc = "unlink"
        BY <1>2, <2>1, <3>2, GotoType DEF IInv
      <4> QED BY <1>2, <2>1, <4>1 DEF IInv, GuiStates, shared, PlanOK, Where, Out, Before, Saves
    <3>3. CASE n = "show"
      <4>1. gui' = [gui EXCEPT !.pc = "show"]
        BY <1>2, <2>1, <3>3, GotoType DEF IInv
      <4> QED BY <1>2, <2>1, <4>1 DEF IInv, GuiStates, shared, PlanOK, Where, Out, Before, Saves
    <3> QED BY <3>1, <3>2, <3>3
  <2> QED BY <1>2, <2>1, <2>2, QuietKeeps
<1> QED BY <1>1, <1>2 DEF TakePclinkOut

\* PCLINK comes back; it has no address meanwhile.
LEMMA PutBackKeeps ==
  ASSUME IInv, NEW l \in {"idle", "getImg", "show"}, PutPclinkBack(l), UNCHANGED worker,
         gui.pc \in Out, l = "getImg" => gui.pc = "relinkEject"
  PROVE  IInv'
<1> DEFINE t == Install(table, PCLINK, PCLINK)
<1>0. /\ PCLINK \in Address /\ PCLINK \notin Images /\ PCLINK # RCL /\ PCLINK \notin Slots
      /\ RCL \in Address /\ PCLINK \in Device /\ PCLINK \in table.live
      /\ table.dev[PCLINK] = NoDevice /\ NoDevice \notin Device
      /\ gui.no \in Slots /\ Where = gui.pc
  BY FixedDevices DEF Address, Device, IInv, Fixed, PlanOK, Where, Out
<1>1. table \in Tables /\ Consistent(table) /\ table.no[PCLINK] = NoAddress /\ table.live \subseteq Device
  BY <1>0, PclinkOut, OnePlace DEF IInv, TableConsistent
<1>2. /\ t \in Tables /\ Consistent(t) /\ t.live = table.live \ {NoDevice}
      /\ t.dev = [table.dev EXCEPT ![PCLINK] = PCLINK]
      /\ \A e \in Device : t.no[e] = IF e = PCLINK THEN PCLINK
                                     ELSE IF e = NoDevice THEN NoAddress ELSE table.no[e]
  BY <1>0, <1>1, InstallTable
<1>3. t.live = table.live
  BY <1>0, <1>1, <1>2
<1>4. table' = t /\ UNCHANGED <<lock, modified>>
  BY DEF PutPclinkBack, Change
<1>5. /\ t.dev[PCLINK] = PCLINK /\ t.dev[RCL] = RCL
      /\ \A s \in Slots : t.dev[s] = table.dev[s]
  BY <1>0, <1>1, <1>2 DEF IInv, Fixed, Tables, Address
<1>6. Fixed'
  BY <1>3, <1>4, <1>5 DEF IInv, Fixed
<1>7. l \in Before /\ gui.disk # NoDevice =>
        gui.disk \in t.live /\ t.no[gui.disk] = NoAddress /\ gui.img # gui.disk
  <2>1. gui.disk \in Images \cup {NoDevice}
    BY DEF IInv, TypeOK, GuiStates
  <2> QED BY <1>0, <1>2, <1>3, <2>1 DEF IInv, PlanOK, Before, Saves, Device
<1> HIDE DEF t
<1> QED BY <1>0, <1>2, <1>4, <1>6, <1>7, ChangeKeeps DEF t, PutPclinkBack, IInv, TypeOK, Out, AfterScan

\* A link changes.
LEMMA LinkKeeps ==
  ASSUME IInv, ResetLink \/ ChangeLink \/ SwapLinks
  PROVE  IInv'
<1>1. PICK l \in {"relinkEject", "relinkEnd", "relinkSwap"} :
        /\ Goto(gui, l) /\ UNCHANGED worker /\ UNCHANGED <<table, lock, modified, active, stale>>
        /\ gui.pc \in {"resetLink", "changeLink", "swapLinks"}
        /\ l = "relinkEject" => gui.pc = "resetLink"
  BY DEF ResetLink, ChangeLink, SwapLinks, ChangeLinks, At
<1>2. gui \in GuiStates /\ l \in Label
  BY DEF IInv, TypeOK, Label
<1>3. links' \subseteq Slots
  <2>1. gui.pc # "idle" => gui.no \in Slots \cup {NoAddress}
    BY <1>2 DEF GuiStates
  <2>2. CASE ResetLink
    BY <2>2 DEF ResetLink, ChangeLinks, IInv, TypeOK
  <2>3. CASE ChangeLink
    <3>1. gui.no \in Slots
      BY <2>3 DEF ChangeLink, At, IInv, PlanOK, Where
    <3> QED BY <2>3, <3>1 DEF ChangeLink, ChangeLinks, IInv, TypeOK
  <2>4. CASE SwapLinks
    BY <2>4 DEF SwapLinks, ChangeLinks
  <2> QED BY <2>2, <2>3, <2>4
<1>4. gui' = [gui EXCEPT !.pc = l]
  BY <1>1, <1>2, GotoType DEF IInv
<1>5. PlanOK'
  BY <1>1, <1>2, <1>4 DEF IInv, GuiStates, PlanOK, Where, Out, Before, Saves
<1>6. Fixed' /\ HandlerOwnsDevice'
  BY <1>1 DEF IInv, Fixed, HandlerOwnsDevice, worker
<1>7. stale' \in BOOLEAN
  BY <1>1, Zenon DEF IInv, TypeOK
<1> QED BY <1>1, <1>2, <1>3, <1>5, <1>6, <1>7, GuiKeeps DEF IInv, TypeOK, TableConsistent

\* The handlers around the links.
LEMMA PclinkKeeps ==
  ASSUME IInv, Unlink \/ SetLink \/ UnlinkSwap \/ RelinkEject \/ RelinkEnd \/ RelinkSwap
  PROVE  IInv'
<1>1. CASE Unlink \/ SetLink \/ UnlinkSwap
  <2>1. gui.no \in Slots /\ UNCHANGED worker
    BY <1>1 DEF Unlink, SetLink, UnlinkSwap, At, IInv, PlanOK, Where
  <2>2. CASE Unlink
    <3>1. /\ TakePclinkOut(gui.no \in links, "resetLink", "getImg") /\ gui.pc = "unlink"
          /\ (gui.no \in links) \in BOOLEAN /\ "resetLink" \in Out \cap AfterScan
      BY <2>2 DEF Unlink, At, Out, AfterScan
    <3> QED BY <2>1, <3>1, TakeOutKeeps
  <2>3. CASE SetLink
    <3>1. /\ TakePclinkOut(gui.disk \in Folders \/ gui.no \in links, "changeLink", "show")
          /\ (gui.disk \in Folders \/ gui.no \in links) \in BOOLEAN
          /\ "changeLink" \in Out \cap AfterScan
      BY <2>3 DEF SetLink, Out, AfterScan
    <3> QED BY <2>1, <3>1, TakeOutKeeps
  <2>4. CASE UnlinkSwap
    <3>1. /\ TakePclinkOut({gui.no, gui.no2} \cap links # {}, "swapLinks", "idle")
          /\ ({gui.no, gui.no2} \cap links # {}) \in BOOLEAN
          /\ "swapLinks" \in Out \cap AfterScan
      BY <2>4 DEF UnlinkSwap, Out, AfterScan
    <3> QED BY <2>1, <3>1, TakeOutKeeps
  <2> QED BY <1>1, <2>2, <2>3, <2>4
<1>2. CASE RelinkEject \/ RelinkEnd \/ RelinkSwap
  <2>1. PICK l \in {"idle", "getImg", "show"} :
          /\ PutPclinkBack(l) /\ UNCHANGED worker /\ gui.pc \in Out
          /\ l = "getImg" => gui.pc = "relinkEject"
    BY <1>2 DEF RelinkEject, RelinkEnd, RelinkSwap, At, Out
  <2> QED BY <2>1, PutBackKeeps
<1> QED BY <1>1, <1>2

\* The question about unsaved changes.
LEMMA AskKeeps ==
  ASSUME IInv, GetImg \/ AskNo \/ AskYes
  PROVE  IInv'
<1>0. /\ gui \in GuiStates /\ PlanOK /\ gui.pc \in {"getImg", "ask"} /\ Where = gui.pc
      /\ gui.no \in Slots /\ gui.no \in Address
  BY DEF GetImg, AskNo, AskYes, At, IInv, TypeOK, PlanOK, Where, Address
<1>1. table.dev[gui.no] \in Images \cup {NoDevice}
  BY <1>0 DEF IInv, Fixed
<1>2. gui.disk # NoDevice => gui.disk \in Device /\ table.dev[gui.no] # gui.disk
  <2>1. gui.disk # NoDevice => gui.disk \in Device
    BY <1>0 DEF GuiStates, Device
  <2> QED BY <1>0, <2>1, OnePlace DEF PlanOK, Before
<1>3. PICK g \in GuiStates, l \in {"ask", "uninstall", "saveGet"} :
        /\ Goto(g, l) /\ UNCHANGED worker /\ UNCHANGED <<shared, stale>>
        /\ g.no = gui.no /\ g.disk = gui.disk /\ (g.disk # NoDevice => g.img # g.disk)
        /\ l = "saveGet" => g.ret = "uninstall"
  <2>1. CASE GetImg
    <3> DEFINE g == [gui EXCEPT !.img = table.dev[gui.no]]
               l == IF gui.ask /\ table.dev[gui.no] \in modified THEN "ask" ELSE "uninstall"
    <3>1. g \in GuiStates /\ g.no = gui.no /\ g.disk = gui.disk /\ g.img = table.dev[gui.no]
      BY <1>0, <1>1 DEF GuiStates
    <3> QED BY <1>2, <2>1, <3>1 DEF GetImg, At
  <2>2. CASE AskNo
    <3> DEFINE g == [gui EXCEPT !.discard = TRUE]
    <3>1. g \in GuiStates /\ g.no = gui.no /\ g.disk = gui.disk /\ g.img = gui.img
      BY <1>0 DEF GuiStates
    <3> QED BY <1>0, <2>2, <3>1 DEF AskNo, At, PlanOK, Before
  <2>3. CASE AskYes
    <3> DEFINE g == [gui EXCEPT !.ret = "uninstall"]
    <3>1. /\ g \in GuiStates /\ g.no = gui.no /\ g.disk = gui.disk /\ g.img = gui.img
          /\ g.ret = "uninstall"
      BY <1>0 DEF GuiStates, Label
    <3> QED BY <1>0, <2>3, <3>1 DEF AskYes, At, PlanOK, Before
  <2> QED BY <2>1, <2>2, <2>3
<1>4. l \in Label /\ gui' = [g EXCEPT !.pc = l]
  BY <1>3, GotoType DEF IInv, Label
<1>5. PlanOK'
  BY <1>0, <1>3, <1>4 DEF GuiStates, shared, PlanOK, Where, Out, Before, Saves
<1> QED BY <1>3, <1>4, <1>5, QuietKeeps

LEMMA AskCancelKeeps ==
  ASSUME IInv, AskCancel
  PROVE  IInv'
<1>0. /\ gui \in GuiStates /\ "idle" \in Label /\ gui.pc = "ask" /\ UNCHANGED worker
      /\ gui.disk \in Images \cup {NoDevice}
      /\ PCLINK \notin Images /\ RCL \notin Images /\ PCLINK # NoDevice /\ RCL # NoDevice
  BY FixedDevices DEF AskCancel, At, IInv, TypeOK, GuiStates, Label, Device
<1>1. PlanOK'
  BY <1>0, GotoType, IdlePlan DEF AskCancel, IInv
<1>2. /\ table'.dev = table.dev /\ table'.no = table.no /\ table'.live = table.live \ {gui.disk}
      /\ table' \in Tables
  BY DEF AskCancel, IInv, TypeOK, Tables
<1>3. \A a \in Address : table.dev[a] # NoDevice => table.dev[a] # gui.disk
  <2>1. gui.disk # NoDevice => table.no[gui.disk] = NoAddress
    BY <1>0 DEF IInv, PlanOK, Where, Before
  <2> QED BY <1>0, <2>1, OnePlace DEF Device
<1>4. Consistent(table') /\ Fixed'
  BY <1>0, <1>2, <1>3 DEF IInv, TableConsistent, Consistent, Installed, Fixed
<1>5. HandlerOwnsDevice'
  <2>1. wpc = "handling" => wdev # NoDevice /\ wno \in Address
    BY OnePlace DEF IInv, HandlerOwnsDevice, HandlerOK
  <2> QED BY <1>0, <1>2, <1>3, <2>1 DEF AskCancel, IInv, HandlerOwnsDevice, worker
<1>6. stale' \in BOOLEAN
  BY Zenon DEF AskCancel, IInv, TypeOK
<1> QED BY <1>0, <1>1, <1>2, <1>4, <1>5, <1>6, GuiKeeps DEF AskCancel, IInv, TypeOK

\* The image of the drive leaves the table.
LEMMA EjectKeeps ==
  ASSUME IInv, Eject
  PROVE  IInv'
<1> DEFINE t == Uninstall(table, gui.no)
<1>0. /\ gui.pc = "uninstall" /\ Where = "uninstall" /\ UNCHANGED worker
      /\ gui.no \in Slots /\ gui.no \in Address
      /\ RCL \notin Slots /\ PCLINK \notin Slots /\ RCL \in Address /\ PCLINK \in Address
  BY FixedDevices DEF Eject, At, IInv, PlanOK, Where, Address
<1>1. /\ t \in Tables /\ Consistent(t) /\ t.live = table.live
      /\ t.dev = [table.dev EXCEPT ![gui.no] = NoDevice]
      /\ \A d \in Device : t.no[d] = IF d = table.dev[gui.no] THEN NoAddress ELSE table.no[d]
  BY <1>0, UninstallTable DEF IInv, TypeOK, TableConsistent
<1>2. table' = t
  BY DEF Eject, Change
<1>3. Fixed'
  <2>1. /\ t.dev[PCLINK] = table.dev[PCLINK] /\ t.dev[RCL] = RCL
        /\ \A s \in Slots : t.dev[s] \in {table.dev[s], NoDevice}
    BY <1>0, <1>1 DEF IInv, Fixed, TypeOK, Tables, Address
  <2> QED BY <1>1, <1>2, <2>1 DEF IInv, Fixed
<1>4. gui.disk # NoDevice =>
        gui.disk \in t.live /\ t.no[gui.disk] = NoAddress /\ gui.img # gui.disk
  <2>1. gui.disk \in Device \cup {NoDevice}
    BY DEF IInv, TypeOK, GuiStates, Device
  <2> QED BY <1>0, <1>1, <2>1 DEF IInv, PlanOK, Before
<1> HIDE DEF t
<1>5. Change(t, "delete") /\ UNCHANGED <<lock, modified>> /\ "delete" \in AfterScan
  BY DEF t, Eject, AfterScan
<1> QED BY <1>0, <1>1, <1>3, <1>4, <1>5, ChangeKeeps DEF IInv, TypeOK, Out

\* `delete img` of ejectImage.
LEMMA DeleteKeeps ==
  ASSUME IInv, DeleteImg
  PROVE  IInv'
<1> DEFINE d == gui.img
           t == Delete(table, d)
<1>0. /\ gui \in GuiStates /\ gui.pc = "delete" /\ Where = "delete" /\ UNCHANGED worker
      /\ gui.no \in Slots /\ d \in Images \cup {NoDevice} /\ gui.disk \in Images \cup {NoDevice}
      /\ PCLINK \notin Images /\ RCL \notin Images /\ RCL \in Address /\ PCLINK \in Address
      /\ Slots \subseteq Address
  BY FixedDevices DEF DeleteImg, At, IInv, TypeOK, GuiStates, PlanOK, Where, Address
<1>1. gui.disk # NoDevice =>
        gui.disk \in table.live /\ table.no[gui.disk] = NoAddress /\ d # gui.disk
  BY <1>0 DEF IInv, PlanOK, Before
<1>2. AfterDelete \in Label /\ (AfterDelete = "idle" \/ (AfterDelete = "install" /\ gui.disk # NoDevice))
  <2>1. CASE gui.disk = NoDevice
    <3>1. AfterDelete = "idle"
      BY <2>1 DEF AfterDelete
    <3> QED BY <3>1 DEF Label
  <2>2. CASE gui.disk # NoDevice
    BY <2>2 DEF AfterDelete, Label
  <2> QED BY <2>1, <2>2
<1>3. CASE Crash
  BY <1>0, <1>3, CrashKeeps
<1>4. CASE Goto(gui, AfterDelete) /\ UNCHANGED <<shared, stale>>
  <2>1. PlanOK'
    <3>1. CASE AfterDelete = "idle"
      BY <1>0, <1>2, <1>4, <3>1, GotoType, IdlePlan DEF IInv
    <3>2. CASE AfterDelete = "install" /\ gui.disk # NoDevice
      <4>1. gui' = [gui EXCEPT !.pc = "install"]
        BY <1>0, <1>2, <1>4, <3>2, GotoType DEF IInv
      <4> QED BY <1>0, <1>1, <1>4, <3>2, <4>1 DEF GuiStates, shared, PlanOK, Where, Out, Saves
    <3> QED BY <1>2, <3>1, <3>2
  <2> QED BY <1>0, <1>2, <1>4, <2>1, QuietKeeps
<1>5. CASE /\ d \in table.live /\ wdev # d /\ table' = t
           /\ lock' = [lock EXCEPT ![d] = "free"] /\ modified' = modified \ {d}
           /\ \/ table.no[d] = NoAddress /\ Goto(gui, AfterDelete)
              \/ /\ table.no[d] # NoAddress /\ MutexFree
                 /\ Goto([gui EXCEPT !.ret = AfterDelete], "scan")
           /\ UNCHANGED <<links, active, stale>>
  <2>0. d \in Device /\ d \in Images /\ d # NoDevice
    BY <1>0, <1>5, FixedDevices DEF Device, IInv, TypeOK, Tables
  <2>1. /\ t \in Tables /\ Consistent(t) /\ t.live = table.live \ {d}
        /\ t.dev = [a \in Address |-> IF table.dev[a] = d THEN NoDevice ELSE table.dev[a]]
        /\ \A e \in Device : t.no[e] = IF e = d THEN NoAddress ELSE table.no[e]
    BY <2>0, DeleteTable DEF IInv, TypeOK, TableConsistent
  <2>2. /\ t.dev[PCLINK] = table.dev[PCLINK] /\ t.dev[RCL] = RCL
        /\ \A s \in Slots : t.dev[s] \in {table.dev[s], NoDevice}
    BY <1>0, <2>0, <2>1, FixedDevices DEF IInv, Fixed, Device
  <2>3. Fixed'
    BY <1>0, <1>5, <2>0, <2>1, <2>2 DEF IInv, Fixed
  <2>4. gui.disk # NoDevice => gui.disk \in t.live /\ t.no[gui.disk] = NoAddress
    BY <1>0, <1>1, <2>1 DEF Device
  <2>5. /\ lock' \in [Device -> {"free", "worker", "gui", "editor"}] /\ modified' \subseteq Images
        /\ links' \subseteq Slots /\ active' \subseteq Address
    BY <1>5 DEF IInv, TypeOK
  <2>6. stale' \in BOOLEAN
    BY <1>5, Zenon DEF IInv, TypeOK
  <2>7. CASE table.no[d] = NoAddress /\ Goto(gui, AfterDelete)
    <3>1. HandlerOwnsDevice'
      <4>1. wpc = "handling" => wno \in Address /\ wdev # d
        BY <1>5 DEF IInv, HandlerOK
      <4> QED BY <1>0, <1>5, <2>1, <4>1 DEF IInv, HandlerOwnsDevice, worker, TypeOK
    <3>2. PlanOK'
      <4>1. CASE AfterDelete = "idle"
        BY <1>0, <1>2, <2>7, <4>1, GotoType, IdlePlan DEF IInv
      <4>2. CASE AfterDelete = "install" /\ gui.disk # NoDevice
        <5>1. gui' = [gui EXCEPT !.pc = "install"]
          BY <1>0, <1>2, <2>7, <4>2, GotoType DEF IInv
        <5> HIDE DEF t
        <5> QED BY <1>0, <1>1, <1>5, <2>4, <4>2, <5>1 DEF GuiStates, PlanOK, Where, Out, Saves
      <4> QED BY <1>2, <4>1, <4>2
    <3> QED BY <1>0, <1>2, <1>5, <2>1, <2>3, <2>5, <2>6, <2>7, <3>1, <3>2, GuiKeeps
  <2>8. CASE MutexFree /\ Goto([gui EXCEPT !.ret = AfterDelete], "scan")
    <3> DEFINE g == [gui EXCEPT !.ret = AfterDelete]
    <3>1. g \in GuiStates /\ "scan" \in Label
      BY <1>0, <1>2 DEF GuiStates, Label
    <3>2. gui' = [g EXCEPT !.pc = "scan"]
      BY <2>8, <3>1, GotoType DEF IInv
    <3>3. PlanOK'
      <4> HIDE DEF t
      <4> QED BY <1>0, <1>1, <1>2, <1>5, <2>4, <3>2 DEF GuiStates, PlanOK, Where, Out, AfterScan, Saves
    <3> QED BY <1>0, <1>5, <2>1, <2>3, <2>5, <2>6, <2>8, <3>1, <3>3, GuiKeeps
  <2> QED BY <1>5, <2>7, <2>8
<1> QED BY <1>3, <1>4, <1>5 DEF DeleteImg

\* installDevice of mountFile; an image the worker swapped in is deleted.
LEMMA InstallKeeps ==
  ASSUME IInv, InstallDisk
  PROVE  IInv'
<1> DEFINE d == gui.disk
           t == Install(table, gui.no, d)
<1>0. /\ gui.pc = "install" /\ Where = "install" /\ UNCHANGED worker /\ gui.disk # NoDevice
      /\ gui.no \in Slots /\ gui.no \in Address
      /\ RCL \notin Slots /\ PCLINK \notin Slots /\ RCL \in Address /\ PCLINK \in Address
      /\ RCL \notin Images /\ PCLINK \notin Images
  BY FixedDevices DEF InstallDisk, At, IInv, PlanOK, Where, Address
<1>1. d \in table.live /\ table.no[d] = NoAddress /\ d \in Images
  BY <1>0 DEF IInv, TypeOK, GuiStates, PlanOK, Before
<1>2. table \in Tables /\ Consistent(table)
  BY DEF IInv, TypeOK, TableConsistent
<1>3. /\ t \in Tables /\ Consistent(t) /\ t.live = table.live \ {table.dev[gui.no]}
      /\ t.dev = [table.dev EXCEPT ![gui.no] = d]
  BY <1>0, <1>1, <1>2, InstallTable
<1>4. table' = t
  BY DEF InstallDisk, Change
<1>5. Fixed'
  <2>1. /\ t.dev[PCLINK] = table.dev[PCLINK] /\ t.dev[RCL] = RCL
        /\ \A s \in Slots : t.dev[s] \in {table.dev[s], d}
    BY <1>0, <1>2, <1>3 DEF IInv, Fixed, Tables, Address
  <2>2. table.dev[gui.no] \in Images \cup {NoDevice} /\ PCLINK # NoDevice /\ RCL # NoDevice
    BY <1>0, FixedDevices DEF IInv, Fixed, Device
  <2> HIDE DEF t, d
  <2> QED BY <1>0, <1>1, <1>3, <1>4, <2>1, <2>2 DEF IInv, Fixed
<1> HIDE DEF t
<1>6. Change(t, "setLink") /\ "setLink" \in AfterScan
  BY DEF t, InstallDisk, AfterScan
<1>7. lock' \in [Device -> {"free", "worker", "gui", "editor"}] /\ modified' \subseteq Images
  BY DEF InstallDisk, IInv, TypeOK
<1> QED BY <1>0, <1>3, <1>5, <1>6, <1>7, ChangeKeeps DEF Out, Before, Saves

\* A save moves on, with the fields of g, to a label l: what has to be shown.
LEMMA SavePlan ==
  ASSUME IInv, gui.pc \in Saves, NEW g \in GuiStates,
         NEW l \in {"idle", "uninstall", "update", "asGet", "fileDialog", "saveLock", "failed"},
         Goto(g, l), g.no = gui.no, g.disk = gui.disk, g.ret = gui.ret,
         g.img = gui.img \/ g.img = table.dev[gui.no],
         UNCHANGED table
  PROVE  PlanOK'
<1>1. /\ gui \in GuiStates /\ PlanOK /\ Where = gui.pc /\ gui.no \in Slots /\ gui.no \in Address
      /\ gui.pc \in Before /\ gui.ret \in {"idle", "uninstall", "update"}
  BY DEF IInv, TypeOK, PlanOK, Where, Saves, Before, Address
<1>2. g.disk # NoDevice => /\ g.disk \in table.live /\ table.no[g.disk] = NoAddress
                           /\ g.img # g.disk
  <2>1. gui.disk # NoDevice => gui.disk \in Device /\ table.dev[gui.no] # gui.disk
    <3>1. gui.disk # NoDevice => gui.disk \in Device
      BY <1>1 DEF GuiStates, Device
    <3> QED BY <1>1, <3>1, OnePlace DEF PlanOK
  <2> QED BY <1>1, <2>1 DEF PlanOK
<1>3. l \in Label /\ (l = "idle" => gui' = Idle) /\ (l # "idle" => gui' = [g EXCEPT !.pc = l])
  BY GotoType DEF IInv, Label
<1>4. CASE l = "idle"
  BY <1>3, <1>4, IdlePlan
<1>5. CASE l # "idle"
  BY <1>1, <1>2, <1>3, <1>5 DEF GuiStates, PlanOK, Where, Out
<1> QED BY <1>4, <1>5

\* The image of the drive is fetched.
LEMMA FetchKeeps ==
  ASSUME IInv, SaveGet \/ AsGet
  PROVE  IInv'
<1>0. /\ gui \in GuiStates /\ UNCHANGED worker /\ gui.pc \in Saves /\ gui.no \in Slots
      /\ table.dev[gui.no] \in Images \cup {NoDevice}
  BY DEF SaveGet, AsGet, At, IInv, TypeOK, PlanOK, Where, Saves, Fixed
<1>1. CASE Crash
  BY <1>0, <1>1, CrashKeeps
<1>2. CASE SaveGet /\ ~Crash
  <2> DEFINE g == [gui EXCEPT !.sav = table.dev[gui.no],
                              !.img = IF gui.ret = "update" THEN table.dev[gui.no] ELSE @]
  <2>1. /\ g \in GuiStates /\ g.no = gui.no /\ g.disk = gui.disk /\ g.ret = gui.ret
        /\ g.img = gui.img \/ g.img = table.dev[gui.no]
    BY <1>0 DEF GuiStates
  <2>2. UNCHANGED <<shared, stale>> /\ \E l \in {"saveLock", "asGet"} : Goto(g, l)
    BY <1>2 DEF SaveGet
  <2> HIDE DEF g
  <2>3. PICK l \in {"saveLock", "asGet"} : Goto(g, l)
    BY <2>2
  <2>4. PlanOK'
    BY <1>0, <2>1, <2>2, <2>3, SavePlan DEF shared
  <2> QED BY <1>0, <2>1, <2>2, <2>3, <2>4, QuietKeeps DEF Label
<1>3. CASE AsGet /\ ~Crash
  <2> DEFINE g == [gui EXCEPT !.sav = table.dev[gui.no], !.as = TRUE]
  <2>1. /\ g \in GuiStates /\ g.no = gui.no /\ g.disk = gui.disk /\ g.ret = gui.ret
        /\ g.img = gui.img
    BY <1>0 DEF GuiStates
  <2>2. UNCHANGED <<shared, stale>> /\ Goto(g, "fileDialog")
    BY <1>3 DEF AsGet
  <2> HIDE DEF g
  <2>3. PlanOK'
    BY <1>0, <2>1, <2>2, SavePlan DEF shared
  <2> QED BY <1>0, <2>1, <2>2, <2>3, QuietKeeps DEF Label
<1> QED BY <1>1, <1>2, <1>3

\* The dialogs of a save.
LEMMA DialogKeeps ==
  ASSUME IInv, ChooseFile \/ CancelFile \/ FailedYes \/ FailedNo
  PROVE  IInv'
<1>0. /\ gui \in GuiStates /\ UNCHANGED worker /\ gui.pc \in Saves
      /\ gui.ret \in {"idle", "uninstall", "update"}
  BY DEF ChooseFile, CancelFile, FailedYes, FailedNo, At, IInv, TypeOK, PlanOK, Saves
<1>1. CASE Crash
  BY <1>0, <1>1, CrashKeeps
<1>2. CASE ~Crash
  <2> DEFINE h == [gui EXCEPT !.discard = TRUE]
             g == [h EXCEPT !.sav = NoDevice, !.as = FALSE]
  <2>1. /\ g \in GuiStates /\ g.no = gui.no /\ g.disk = gui.disk /\ g.ret = gui.ret
        /\ g.img = gui.img
    BY <1>0 DEF GuiStates
  <2>2. /\ UNCHANGED <<shared, stale>>
        /\ Goto(g, gui.ret) \/ \E l \in {"saveLock", "fileDialog", "asGet"} : Goto(gui, l)
    BY <1>2 DEF ChooseFile, CancelFile, FailedYes, FailedNo, SaveOver
  <2> HIDE DEF g
  <2>3. PICK f \in {g, gui},
             l \in {"idle", "uninstall", "update", "saveLock", "fileDialog", "asGet"} :
          Goto(f, l)
    BY <1>0, <2>2
  <2>4. PlanOK'
    BY <1>0, <2>1, <2>2, <2>3, SavePlan DEF shared
  <2> QED BY <1>0, <2>1, <2>2, <2>3, <2>4, QuietKeeps DEF Label
<1> QED BY <1>1, <1>2

\* The lock of an image is taken, to save it or for its editor.
LEMMA LockKeeps ==
  ASSUME IInv, SaveLock \/ EditorLock
  PROVE  IInv'
<1>0. /\ gui \in GuiStates /\ PlanOK /\ UNCHANGED worker /\ gui.pc # "idle"
      /\ table \in Tables /\ Consistent(table) /\ Fixed /\ Where = gui.pc
      /\ Images \subseteq Device /\ NoDevice \notin Device
  BY FixedDevices DEF SaveLock, EditorLock, At, IInv, TypeOK, TableConsistent, Where, Device
<1>1. CASE Crash
  BY <1>0, <1>1, CrashKeeps
<1>3. CASE ~Crash
  <2>1. /\ gui.sav \in table.live /\ gui.sav \in Unlocked /\ gui.sav \in Images
        /\ UNCHANGED <<table, modified, links, active, stale>>
    BY <1>0, <1>3 DEF SaveLock, EditorLock, LockSav, Unlocked, GuiStates
  <2>2. PICK h \in {"gui", "editor"}, l \in {"saving", "idle"} :
          /\ Goto(gui, l) /\ lock' = [lock EXCEPT ![gui.sav] = h]
          /\ l = "saving" => h = "gui" /\ gui.pc = "saveLock"
    BY <1>3 DEF SaveLock, EditorLock, LockSav, At
  <2>3. lock' \in [Device -> {"free", "worker", "gui", "editor"}] /\ l \in Label
    BY <2>2 DEF IInv, TypeOK, Label
  <2>4. Fixed' /\ HandlerOwnsDevice'
    <3>1. wpc = "handling" => gui.sav # wdev
      BY <2>1 DEF IInv, HandlerOwnsDevice, Unlocked
    <3> QED BY <1>0, <2>1, <2>2, <3>1 DEF IInv, TypeOK, Fixed, HandlerOwnsDevice, worker
  <2>5. PlanOK'
    <3>1. CASE l = "idle"
      BY <1>0, <2>2, <2>3, <3>1, GotoType, IdlePlan DEF IInv
    <3>2. CASE l = "saving"
      <4>1. gui' = [gui EXCEPT !.pc = "saving"] /\ gui.pc = "saveLock" /\ lock'[gui.sav] = "gui"
        BY <1>0, <2>1, <2>2, <2>3, <3>2, GotoType DEF IInv, TypeOK
      <4> QED BY <1>0, <2>1, <4>1 DEF GuiStates, PlanOK, Where, Out, Before, Saves
    <3> QED BY <2>2, <3>1, <3>2
  <2> QED BY <1>0, <2>1, <2>2, <2>3, <2>4, <2>5, GuiKeeps DEF IInv, TypeOK
<1> QED BY <1>1, <1>3

\* The save itself, of saveDisk and of deviceStatusChanged.
LEMMA SaveKeeps ==
  ASSUME IInv, Saving \/ AutoSaving
  PROVE  IInv'
<1>0. /\ gui \in GuiStates /\ PlanOK /\ UNCHANGED worker /\ gui.pc \in Saves
      /\ table \in Tables /\ Consistent(table) /\ Fixed
      /\ Images \subseteq Device /\ NoDevice \notin Device
      /\ gui.ret \in {"idle", "uninstall", "update"}
  BY FixedDevices DEF Saving, AutoSaving, At, IInv, TypeOK, TableConsistent, PlanOK, Saves, Device
<1>1. CASE Crash
  BY <1>0, <1>1, CrashKeeps
<1>4. CASE ~Crash
  <2>1. /\ gui.sav \in table.live /\ UNCHANGED <<table, links, active, stale>>
        /\ modified' \subseteq Images /\ gui.sav \in Images
        /\ lock' = lock \/ (gui.pc = "saving" /\ lock' = [lock EXCEPT ![gui.sav] = "free"])
    BY <1>0, <1>4 DEF Saving, AutoSaving, SaveEnds, At, IInv, TypeOK, Tables, GuiStates
  <2>2. PICK g \in GuiStates, l \in {"idle", "uninstall", "update", "failed"} :
          /\ Goto(g, l) /\ g.no = gui.no /\ g.disk = gui.disk /\ g.img = gui.img
          /\ g.ret = gui.ret
    <3> DEFINE g == [gui EXCEPT !.sav = NoDevice, !.as = FALSE]
    <3>1. /\ g \in GuiStates /\ g.no = gui.no /\ g.disk = gui.disk /\ g.img = gui.img
          /\ g.ret = gui.ret
      BY <1>0 DEF GuiStates
    <3>2. Goto(gui, "failed") \/ Goto(g, gui.ret) \/ Goto(g, "update")
      BY <1>4 DEF Saving, AutoSaving, SaveEnds, SaveOver
    <3> QED BY <1>0, <3>1, <3>2
  <2>3. l \in Label
    BY DEF Label
  <2>4. lock' \in [Device -> {"free", "worker", "gui", "editor"}]
    BY <2>1 DEF IInv, TypeOK
  <2>5. Fixed' /\ HandlerOwnsDevice'
    <3>1. wpc = "handling" /\ gui.pc = "saving" => gui.sav # wdev
      BY <1>0, <2>1 DEF IInv, HandlerOwnsDevice, PlanOK
    <3>2. wpc = "handling" => lock'[wdev] = "worker" /\ wdev \in table.live /\ table.dev[wno] = wdev
      <4>1. wpc = "handling" => wdev \in Device /\ lock[wdev] = "worker" /\ table.dev[wno] = wdev
                               /\ wdev \in table.live
        BY OnePlace DEF IInv, HandlerOwnsDevice
      <4>2. lock \in [Device -> {"free", "worker", "gui", "editor"}]
        BY DEF IInv, TypeOK
      <4> QED BY <2>1, <3>1, <4>1, <4>2
    <3> QED BY <1>0, <2>1, <3>2 DEF IInv, Fixed, HandlerOwnsDevice, worker
  <2>6. PlanOK'
    BY <1>0, <2>1, <2>2, SavePlan
  <2> QED BY <1>0, <2>1, <2>2, <2>3, <2>4, <2>5, <2>6, GuiKeeps DEF IInv, TypeOK
<1> QED BY <1>1, <1>4

\* The drive is painted at the end.
LEMMA PaintKeeps ==
  ASSUME IInv, Show \/ Update
  PROVE  IInv'
<1>0. gui \in GuiStates /\ UNCHANGED worker /\ "idle" \in Label
  BY DEF Show, Update, At, IInv, TypeOK, Label
<1>1. CASE Crash
  BY <1>0, <1>1, CrashKeeps
<1>2. CASE Goto(gui, "idle") /\ UNCHANGED <<shared, stale>>
  <2>1. PlanOK'
    BY <1>0, <1>2, GotoType, IdlePlan DEF IInv
  <2> QED BY <1>0, <1>2, <2>1, QuietKeeps
<1> QED BY <1>1, <1>2 DEF Show, Update

(***************************************************************************)
(* The theorems.                                                           *)
(***************************************************************************)
LEMMA InitIInv == Init => IInv
<1> SUFFICES ASSUME Init PROVE IInv
  OBVIOUS
<1>0. /\ PCLINK \in Device /\ RCL \in Device /\ PCLINK \in Address /\ RCL \in Address
      /\ PCLINK # RCL /\ NoDevice \notin Device /\ NoAddress \notin Address
      /\ PCLINK \notin Slots /\ RCL \notin Slots /\ Slots \subseteq Address
  BY FixedDevices DEF Device, Address
<1>1. Idle \in GuiStates /\ raced \in BOOLEAN /\ stale \in BOOLEAN /\ fault \in BOOLEAN
  BY DEF Init, Idle, GuiStates, Label
<1>2. /\ table.dev = [a \in Address |-> IF a \in {PCLINK, RCL} THEN a ELSE NoDevice]
      /\ table.no = [d \in Device |-> IF d \in {PCLINK, RCL} THEN d ELSE NoAddress]
      /\ table.live = {PCLINK, RCL}
      /\ table = [dev |-> table.dev, no |-> table.no, live |-> table.live]
  BY DEF Init
<1>3. table \in Tables
  BY <1>0, <1>2 DEF Tables
<1>4. TypeOK
  BY <1>0, <1>1, <1>3 DEF Init, TypeOK
<1>5. TableConsistent
  BY <1>0, <1>2 DEF TableConsistent, Consistent, Installed
<1>6. Fixed
  BY <1>0, <1>2 DEF Fixed
<1>7. HandlerOwnsDevice /\ HandlerOK /\ PlanOK
  BY DEF Init, HandlerOwnsDevice, HandlerOK, Idle, PlanOK, Where, Out, Before, Saves
<1> QED BY <1>4, <1>5, <1>6, <1>7 DEF IInv

LEMMA NextIInv == IInv /\ [Next]_vars => IInv'
<1> SUFFICES ASSUME IInv, [Next]_vars PROVE IInv'
  OBVIOUS
<1>1. CASE Worker
  BY <1>1, WorkerKeeps
<1>2. CASE User
  <2>1. CASE \E no \in Slots, d \in Images, ask \in BOOLEAN : BeginMount(no, d, ask)
    BY <2>1, BeginMountKeeps
  <2>2. CASE \E no \in Slots : \/ BeginEject(no) \/ BeginSave(no)
                             \/ BeginAutoSave(no) \/ OpenEditor(no)
    BY <2>2, BeginQuietly
  <2>3. CASE \E no \in Slots : CloseEditor(no) \/ EditImage(no)
    BY <2>3, EditorKeeps
  <2>4. CASE \E a, b \in Slots : BeginSwap(a, b)
    BY <2>4, BeginSwapKeeps
  <2>5. CASE AskNo \/ AskCancel \/ AskYes
    BY <2>5, AskKeeps, AskCancelKeeps
  <2>6. CASE ChooseFile \/ CancelFile \/ FailedYes \/ FailedNo
    BY <2>6, DialogKeeps
  <2> QED BY <1>2, <2>1, <2>2, <2>3, <2>4, <2>5, <2>6 DEF User
<1>3. CASE Gui
  BY <1>3, ScanKeeps, PclinkKeeps, LinkKeeps, AskKeeps, EjectKeeps, DeleteKeeps,
     InstallKeeps, FetchKeeps, LockKeeps, SaveKeeps, PaintKeeps DEF Gui
<1>4. CASE UNCHANGED vars
  <2>1. UNCHANGED <<table, lock, modified, links, active, wpc, wno, wdev, wout, gui, raced, stale, fault>>
    BY <1>4 DEF vars
  <2>2. TypeOK'
    BY <2>1 DEF IInv, TypeOK
  <2> QED BY <2>1, <2>2 DEF IInv, TableConsistent, HandlerOwnsDevice, Fixed, HandlerOK, PlanOK, Where
<1> QED BY <1>1, <1>2, <1>3, <1>4 DEF Next, Crashed

\* The worker and the GUI keep the table, the devices and each other's
\* expectations in order, whatever the number of drives and images.
THEOREM InOrder == Spec => []IInv
BY InitIInv, NextIInv, PTL DEF Spec

\* Every variable keeps its type.
THEOREM TypeCorrect == Spec => []TypeOK
<1>1. IInv => TypeOK
  BY DEF IInv
<1> QED BY <1>1, InOrder, PTL

\* What SioWorker::devices holds exists and knows its address, after any
\* interleaving of mounts, ejects and drags of the user with RCL commands.
THEOREM TableCorrect == Spec => []TableConsistent
<1>1. IInv => TableConsistent
  BY DEF IInv
<1> QED BY <1>1, InOrder, PTL

\* The device whose handleCommand runs stays installed, alive and locked.
THEOREM HandlerCorrect == Spec => []HandlerOwnsDevice
<1>1. IInv => HandlerOwnsDevice
  BY DEF IInv
<1> QED BY <1>1, InOrder, PTL

\* saveDisk and a command of the Atari never work on one image at a time.
THEOREM SaveCorrect == Spec => []SaveExcludesHandler
<1>1. IInv => SaveExcludesHandler
  <2> SUFFICES ASSUME IInv, gui.pc = "saving", wdev = gui.sav PROVE FALSE
    BY DEF SaveExcludesHandler
  <2>1. gui.sav \in Images /\ gui.sav # NoDevice /\ wpc \in {"reading", "handling"}
    BY FixedDevices DEF IInv, TypeOK, PlanOK, Device
  <2>2. wpc = "handling" /\ wdev \in table.live /\ lock[wdev] = "worker"
    BY <2>1 DEF IInv, HandlerOK, HandlerOwnsDevice
  <2> QED BY <2>2 DEF IInv, PlanOK
<1> QED BY <1>1, InOrder, PTL

\* The links of PCLINK change only while it is uninstalled and idle.
THEOREM LinksCorrect == Spec => LinksChangeOffline
<1> DEFINE A == links' # links => table.dev[PCLINK] = NoDevice /\ wdev # PCLINK
<1>1. IInv /\ [Next]_vars => [A]_vars
  <2> SUFFICES ASSUME IInv, [Next]_vars, links' # links
      PROVE  table.dev[PCLINK] = NoDevice /\ wdev # PCLINK
    OBVIOUS
  <2>1. gui.pc \in {"resetLink", "changeLink", "swapLinks"}
    <3>1. CASE Worker
      BY <3>1 DEF Worker, Dispatch, Serve, HandleOther, HandleWrite, HandleSwap, CheckUnmount, Unmount, HandleSave, shared
    <3>2. CASE User
      BY <3>2 DEF User, BeginMount, BeginEject, BeginSwap, BeginSave, BeginAutoSave, OpenEditor,
                  CloseEditor, EditImage, AskNo, AskCancel, AskYes,
                  ChooseFile, CancelFile, FailedYes, FailedNo, Crash, shared
    <3>3. CASE ResetLink \/ ChangeLink \/ SwapLinks
      BY <3>3 DEF ResetLink, ChangeLink, SwapLinks, At
    <3>4. CASE Unlink \/ RelinkEject \/ SetLink \/ UnlinkSwap \/ RelinkEnd \/ RelinkSwap
      BY <3>4 DEF Unlink, RelinkEject, SetLink, UnlinkSwap, RelinkEnd, RelinkSwap, TakePclinkOut,
                  PutPclinkBack, Change, shared
    <3>5. CASE Scan \/ Publish \/ GetImg \/ Eject \/ DeleteImg \/ InstallDisk
      BY <3>5 DEF Scan, Publish, GetImg, Eject, DeleteImg, InstallDisk, Change, Crash, shared
    <3>6. CASE SaveGet \/ AsGet \/ SaveLock \/ Saving \/ AutoSaving \/ EditorLock \/ Update \/ Show
      BY <3>6 DEF SaveGet, AsGet, SaveLock, Saving, AutoSaving, EditorLock, Update, Show,
                  LockSav, Crash, shared
    <3>7. CASE UNCHANGED vars
      BY <3>7 DEF vars
    <3> QED BY <3>1, <3>2, <3>3, <3>4, <3>5, <3>6, <3>7 DEF Next, Gui, Crashed
  <2>2. table.dev[PCLINK] = NoDevice
    BY <2>1 DEF IInv, PlanOK, Where, Out
  <2>3. wpc \in {"reading", "handling"} /\ PCLINK # NoDevice
    BY FixedDevices DEF IInv, TypeOK, Device
  <2> QED BY <2>2, <2>3, PclinkOut DEF IInv, HandlerOK
<1> QED BY <1>1, InOrder, PTL DEF Spec, LinksChangeOffline

-----------------------------------------------------------------------------
(***************************************************************************)
(* SioDevices implements Drives: under the refinement mapping Promise the  *)
(* initial state is an initial state, and in a state of the inductive      *)
(* invariant IInv every step of the two threads is one operation on the    *)
(* drives, or none.                                                        *)
(***************************************************************************)
\* The mapping.
D == [s \in Slots |-> table.dev[s]]
B == IF wdev \in Images THEN wno ELSE NoAddress

Step == [Promise!Next]_(Promise!vars)

\* Between two commands no drive is in conversation.
LEMMA NobodyServed ==
  ASSUME IInv, MutexFree
  PROVE  wdev = NoDevice /\ B = NoAddress /\ NoDevice \notin Images
BY FixedDevices DEF IInv, HandlerOK, MutexFree, TypeOK, Device, B

\* The image of the drive in conversation is the one the worker handles.
LEMMA ServedDrive ==
  ASSUME IInv
  PROVE  /\ wdev \in Images => wpc = "handling" /\ wno \in Slots /\ table.dev[wno] = wdev
         /\ wdev = RCL => B = NoAddress
<1>1. /\ PCLINK \notin Images /\ RCL \notin Images /\ NoDevice \notin Images
      /\ wpc \in {"reading", "handling"}
  BY FixedDevices DEF Device, IInv, TypeOK
<1>2. ASSUME wdev \in Images PROVE wpc = "handling" /\ wno \in Slots /\ table.dev[wno] = wdev
  <2>1. wpc = "handling" /\ wno \in Address /\ table.dev[wno] = wdev
    BY <1>1, <1>2 DEF IInv, HandlerOK, HandlerOwnsDevice
  <2> QED BY <1>1, <1>2, <2>1 DEF IInv, Fixed, Address
<1> QED BY <1>1, <1>2 DEF B

\* A step that moves no image and adds no changes is none, or settles some.
LEMMA SettleSteps ==
  ASSUME IInv, UNCHANGED worker, \A s \in Slots : table'.dev[s] = table.dev[s],
         modified' \subseteq modified
  PROVE  Step
<1> DEFINE I == modified \ modified'
<1>1. I \in SUBSET Images /\ modified' = modified \ I
  BY DEF IInv, TypeOK
<1>2. D' = D /\ B' = B
  BY DEF D, B, worker
<1>3. Promise!Settle(I)
  BY <1>1, <1>2 DEF Promise!Settle, D, B
<1> QED BY <1>1, <1>3 DEF Step, Promise!Next

LEMMA DispatchSteps ==
  ASSUME IInv, NEW a \in Address, Dispatch(a)
  PROVE  Step
<1>1. /\ B = NoAddress /\ NoDevice \notin Images /\ PCLINK \notin Images /\ RCL \notin Images
      /\ table.dev[PCLINK] \in {PCLINK, NoDevice} /\ table.dev[RCL] = RCL
  BY NobodyServed, FixedDevices DEF Dispatch, MutexFree, IInv, Fixed
<1>2. wno' = a /\ wdev' = table.dev[a] /\ UNCHANGED <<table, modified>>
  BY DEF Dispatch
<1>3. CASE table.dev[a] \in Images
  <2>1. a \in Slots
    BY <1>1, <1>3 DEF Address
  <2>2. Promise!Begin(a)
    BY <1>1, <1>2, <1>3, <2>1 DEF Promise!Begin, B
  <2> QED BY <2>1, <2>2 DEF Step, Promise!Next
<1>4. CASE table.dev[a] \notin Images
  BY <1>1, <1>2, <1>4 DEF Step, Promise!vars, B
<1> QED BY <1>3, <1>4

\* handleCommand returns, without or with a written sector.
LEMMA ReturnSteps ==
  ASSUME IInv, HandleOther \/ HandleWrite \/ \E S \in SUBSET Slots : HandleSave(S)
  PROVE  Step
<1>1. /\ B' = NoAddress /\ D' = D /\ NoAddress \notin Slots /\ NoDevice \notin Images
      /\ wpc = "handling"
  BY FixedDevices DEF HandleOther, HandleWrite, HandleSave, Return, B, D, Device, Address
<1>2. CASE wdev \in Images /\ (HandleOther \/ HandleWrite)
  <2>1. B = wno /\ B # NoAddress /\ wno \in Slots /\ D[wno] = wdev
    BY <1>1, <1>2, ServedDrive DEF B, D
  <2>2. modified' \in {modified, modified \cup {D[B]}}
    BY <1>2, <2>1 DEF HandleOther, HandleWrite
  <2>3. Promise!End
    BY <1>1, <2>1, <2>2 DEF Promise!End, D, B
  <2> QED BY <2>3 DEF Step, Promise!Next
<1>3. CASE wdev \notin Images
  <2>1. B = NoAddress
    BY <1>3 DEF B
  <2>2. CASE HandleOther \/ HandleWrite
    BY <1>1, <1>3, <2>1, <2>2 DEF HandleOther, HandleWrite, Step, Promise!vars, D, B
  <2>3. CASE \E S \in SUBSET Slots : HandleSave(S)
    <3> DEFINE I == modified \ modified'
    <3>1. I \in SUBSET Images /\ modified' = modified \ I
      BY <2>3 DEF HandleSave, IInv, TypeOK
    <3>2. Promise!Settle(I)
      BY <1>1, <2>1, <3>1 DEF Promise!Settle, D, B
    <3> HIDE DEF I
    <3> QED BY <3>1, <3>2 DEF Step, Promise!Next
  <2> QED BY <2>2, <2>3
<1>4. CASE wdev \in Images /\ \E S \in SUBSET Slots : HandleSave(S)
  BY <1>4, FixedDevices DEF HandleSave
<1> QED BY <1>2, <1>3, <1>4

\* swapDevices, of the worker and of the GUI.
LEMMA SwapSteps ==
  ASSUME IInv, NEW a \in Slots, NEW b \in Slots, a # b, table' = Swap(table, a, b),
         B = NoAddress, B' = NoAddress, UNCHANGED modified
  PROVE  Step
<1>1. /\ table \in Tables /\ Consistent(table) /\ a \in Address /\ b \in Address
      /\ Slots \subseteq Address
  BY DEF IInv, TypeOK, TableConsistent, Address
<1>2. table'.dev = [table.dev EXCEPT ![a] = table.dev[b], ![b] = table.dev[a]]
  BY <1>1, SwapTable
<1>3. D' = [D EXCEPT ![a] = D[b], ![b] = D[a]]
  BY <1>1, <1>2 DEF D, Tables
<1>4. Promise!Exchange(a, b)
  BY <1>3 DEF Promise!Exchange, Promise!Quiet, D, B
<1> QED BY <1>4 DEF Step, Promise!Next

\* RCL takes images out of their drives, with the changes an editor may
\* have left in them.
LEMMA UnmountSteps ==
  ASSUME IInv, Unmount
  PROVE  Step
<1> PICK S \in SUBSET Slots : S = wout
  BY DEF IInv, TypeOK
<1>1. B = NoAddress /\ B' = NoAddress /\ NoDevice \notin Images
  BY ServedDrive, FixedDevices DEF Unmount, Return, IInv, HandlerOK, B, Device
<1>2. /\ Slots \subseteq Address
      /\ table'.dev = [a \in Address |-> IF a \in S THEN NoDevice ELSE table.dev[a]]
      /\ modified' = modified \ ({table.dev[a] : a \in S} \ {NoDevice})
  BY DEF Unmount, Address
<1>3. D' = [s \in Slots |-> IF s \in S THEN NoDevice ELSE D[s]]
  BY <1>2 DEF D
<1>4. modified' = modified \ {D[s] : s \in S}
  BY <1>1, <1>2 DEF D, IInv, TypeOK
<1>5. Promise!Remove(S)
  BY <1>1, <1>3, <1>4 DEF Promise!Remove, Promise!Quiet, D, B
<1> QED BY <1>5 DEF Step, Promise!Next

LEMMA WorkerSteps ==
  ASSUME IInv, Worker
  PROVE  Step
<1>1. CASE \E a \in Address : Dispatch(a)
  BY <1>1, DispatchSteps
<1>2. CASE HandleOther \/ HandleWrite
  BY <1>2, ReturnSteps
<1>3. ASSUME NEW a \in Slots, NEW b \in Slots, HandleSwap(a, b) PROVE Step
  <2>1. B = NoAddress /\ B' = NoAddress
    BY <1>3, ServedDrive, FixedDevices DEF HandleSwap, Return, B, Device
  <2> QED BY <1>3, <2>1, SwapSteps DEF HandleSwap
<1>4. ASSUME NEW S \in {{a} : a \in Slots} \cup {Slots}, CheckUnmount(S) \/ HandleSave(S)
      PROVE  Step
  <2>1. S \in SUBSET Slots
    OBVIOUS
  <2>2. CASE CheckUnmount(S)
    BY <2>2 DEF CheckUnmount, shared, Step, Promise!vars, B
  <2> QED BY <1>4, <2>1, <2>2, ReturnSteps
<1>5. CASE Unmount
  BY <1>5, UnmountSteps
<1> QED BY <1>1, <1>2, <1>3, <1>4, <1>5 DEF Worker, Serve

-----------------------------------------------------------------------------
LEMMA EditSteps ==
  ASSUME IInv, NEW no \in Slots, EditImage(no)
  PROVE  Step
<1>1. /\ table.dev[no] \in Images /\ NoDevice \notin Images /\ lock[table.dev[no]] = "editor"
      /\ UNCHANGED <<table, wdev, wno>> /\ modified' = modified \cup {table.dev[no]}
  BY FixedDevices DEF EditImage, At, worker, Device
<1>2. B # no
  <2>1. CASE wdev \in Images
    BY <1>1, <2>1, ServedDrive DEF IInv, HandlerOwnsDevice, B
  <2>2. CASE wdev \notin Images
    BY <2>2, FixedDevices DEF B, Address
  <2> QED BY <2>1, <2>2
<1>3. Promise!Edit(no)
  BY <1>1, <1>2 DEF Promise!Edit, D, B
<1> QED BY <1>3 DEF Step, Promise!Next

\* The drives between two commands, one of them changed by the GUI.
LEMMA TakeSteps ==
  ASSUME IInv, MutexFree, UNCHANGED worker, NEW S \in SUBSET Slots,
         \A s \in Slots : table'.dev[s] = IF s \in S THEN NoDevice ELSE table.dev[s],
         modified' \in {modified, modified \ {table.dev[s] : s \in S}}
  PROVE  Step
<1>1. B = NoAddress /\ B' = NoAddress
  BY NobodyServed DEF B, worker
<1>2. D' = [s \in Slots |-> IF s \in S THEN NoDevice ELSE D[s]]
  BY DEF D
<1>3. {D[s] : s \in S} = {table.dev[s] : s \in S}
  BY DEF D
<1>4. Promise!Remove(S)
  BY <1>1, <1>2, <1>3 DEF Promise!Remove, Promise!Quiet, D, B
<1> QED BY <1>4 DEF Step, Promise!Next

LEMMA EjectSteps ==
  ASSUME IInv, Eject
  PROVE  Step
<1>1. gui.no \in Slots /\ Slots \subseteq Address /\ MutexFree /\ UNCHANGED worker /\ UNCHANGED modified
  BY DEF Eject, At, Change, IInv, PlanOK, Where, Address
<1>2. table'.dev = [table.dev EXCEPT ![gui.no] = NoDevice]
  <2>1. table' = Uninstall(table, gui.no) /\ table \in Tables /\ Consistent(table)
    BY DEF Eject, Change, IInv, TypeOK, TableConsistent
  <2> QED BY <1>1, <2>1, UninstallTable
<1>3. \A s \in Slots : table'.dev[s] = IF s \in {gui.no} THEN NoDevice ELSE table.dev[s]
  BY <1>1, <1>2 DEF IInv, TypeOK, Tables
<1> QED BY <1>1, <1>3, TakeSteps

\* The image ejectImage fetched is deleted, wherever it is.
LEMMA DeleteSteps ==
  ASSUME IInv, DeleteImg
  PROVE  Step
<1>1. CASE UNCHANGED shared
  BY <1>1, SettleSteps DEF DeleteImg, At, shared
<1>2. CASE /\ gui.img \in table.live /\ gui.img # NoDevice /\ table' = Delete(table, gui.img)
           /\ modified' = modified \ {gui.img}
           /\ table.no[gui.img] # NoAddress => MutexFree
  <2> DEFINE d == gui.img
             S == {s \in Slots : table.dev[s] = d}
  <2>1. /\ d \in Images /\ d \in Device /\ UNCHANGED worker /\ Slots \subseteq Address
        /\ table \in Tables /\ Consistent(table)
    BY <1>2 DEF IInv, TypeOK, GuiStates, Device, Address, DeleteImg, At, TableConsistent
  <2>2. table'.dev = [a \in Address |-> IF table.dev[a] = d THEN NoDevice ELSE table.dev[a]]
    BY <1>2, <2>1, DeleteTable
  <2>3. CASE S = {}
    <3>1. \A s \in Slots : table'.dev[s] = table.dev[s]
      BY <2>1, <2>2, <2>3
    <3> QED BY <1>2, <2>1, <3>1, SettleSteps
  <2>4. CASE S # {}
    <3>1. table.no[d] # NoAddress
      BY <2>1, <2>4, OnePlace
    <3>2. {table.dev[s] : s \in S} = {d}
      BY <2>4
    <3>3. \A s \in Slots : table'.dev[s] = IF s \in S THEN NoDevice ELSE table.dev[s]
      BY <2>1, <2>2
    <3> HIDE DEF S, d
    <3> QED BY <1>2, <2>1, <3>1, <3>2, <3>3, TakeSteps DEF d, S
  <2> QED BY <2>3, <2>4
<1>3. gui.img \in table.live => gui.img # NoDevice
  BY FixedDevices DEF IInv, TypeOK, Tables
<1> QED BY <1>1, <1>2, <1>3 DEF DeleteImg, Crash

\* mountFile's image goes into the drive.
LEMMA InstallSteps ==
  ASSUME IInv, InstallDisk
  PROVE  Step
<1>0. gui.no \in Slots /\ gui.disk \in Images
  BY DEF InstallDisk, At, IInv, TypeOK, GuiStates, PlanOK, Where
<1> PICK no \in Slots, d \in Images : no = gui.no /\ d = gui.disk
  BY <1>0
<1>1. /\ Slots \subseteq Address /\ d # NoDevice /\ MutexFree /\ UNCHANGED worker
      /\ d \in table.live /\ table.no[d] = NoAddress
      /\ table' = Install(table, no, d) /\ modified' = modified \ {table.dev[no]}
  BY DEF InstallDisk, At, Change, IInv, PlanOK, Where, Before, Address
<1>2. d \in Images /\ d \in Device /\ table \in Tables /\ Consistent(table)
  BY <1>1 DEF IInv, TypeOK, GuiStates, Device, TableConsistent
<1>3. table'.dev = [table.dev EXCEPT ![no] = d]
  BY <1>1, <1>2, InstallTable
<1>4. \A s \in Slots : D[s] # d
  BY <1>1, <1>2, OnePlace, FixedDevices DEF D
<1>5. D' = [D EXCEPT ![no] = d] /\ D[no] = table.dev[no]
  BY <1>1, <1>2, <1>3 DEF D, Tables
<1>6. B = NoAddress /\ B' = NoAddress
  BY <1>1, NobodyServed DEF B, worker
<1>7. Promise!Insert(no, d)
  BY <1>1, <1>4, <1>5, <1>6 DEF Promise!Insert, Promise!Quiet, D, B
<1> QED BY <1>7 DEF Step, Promise!Next

\* PCLINK leaves and comes back without moving an image.
LEMMA PclinkSteps ==
  ASSUME IInv, Unlink \/ SetLink \/ UnlinkSwap \/ RelinkEject \/ RelinkEnd \/ RelinkSwap
  PROVE  Step
<1>1. /\ PCLINK \in Address /\ PCLINK \in Device /\ PCLINK \notin Slots /\ Slots \subseteq Address
      /\ table \in Tables /\ Consistent(table) /\ UNCHANGED worker
  BY FixedDevices DEF Address, Device, IInv, TypeOK, TableConsistent, Unlink, SetLink, UnlinkSwap,
     RelinkEject, RelinkEnd, RelinkSwap, At
<1>2. UNCHANGED modified
  BY DEF Unlink, SetLink, UnlinkSwap, RelinkEject, RelinkEnd, RelinkSwap, TakePclinkOut, PutPclinkBack, shared
<1>3. \A s \in Slots : table'.dev[s] = table.dev[s]
  <2>1. CASE UNCHANGED table
    BY <2>1
  <2>2. CASE table' = Uninstall(table, PCLINK)
    <3>1. table'.dev = [table.dev EXCEPT ![PCLINK] = NoDevice]
      BY <1>1, <2>2, UninstallTable
    <3> QED BY <1>1, <3>1 DEF Tables
  <2>3. CASE table' = Install(table, PCLINK, PCLINK) /\ (RelinkEject \/ RelinkEnd \/ RelinkSwap)
    <3>1. table.dev[PCLINK] = NoDevice
      BY <2>3 DEF RelinkEject, RelinkEnd, RelinkSwap, At, IInv, PlanOK, Where, Out
    <3>2. PCLINK \in table.live /\ table.no[PCLINK] = NoAddress
      BY <3>1, PclinkOut DEF IInv, Fixed
    <3>3. table'.dev = [table.dev EXCEPT ![PCLINK] = PCLINK]
      BY <1>1, <2>3, <3>2, InstallTable
    <3> QED BY <1>1, <3>3 DEF Tables
  <2> QED BY <2>1, <2>2, <2>3 DEF Unlink, SetLink, UnlinkSwap, RelinkEject, RelinkEnd, RelinkSwap,
         TakePclinkOut, PutPclinkBack, Change, shared
<1> QED BY <1>1, <1>2, <1>3, SettleSteps

\* Saves, and everything that only moves the handler on.
LEMMA QuietSteps ==
  ASSUME IInv,
         \/ \E no \in Slots : \/ \E d \in Images, ask \in BOOLEAN : BeginMount(no, d, ask)
                              \/ BeginEject(no) \/ BeginSave(no) \/ BeginAutoSave(no)
                              \/ OpenEditor(no) \/ CloseEditor(no)
         \/ AskNo \/ AskCancel \/ AskYes \/ Scan \/ Publish \/ GetImg
         \/ ResetLink \/ ChangeLink \/ SwapLinks \/ Show
         \/ ChooseFile \/ CancelFile \/ FailedYes \/ FailedNo
         \/ SaveGet \/ AsGet \/ SaveLock \/ EditorLock \/ Saving \/ AutoSaving \/ Update
  PROVE  Step
<1>1. UNCHANGED worker
  BY DEF BeginMount, BeginEject, BeginSave, BeginAutoSave, OpenEditor, CloseEditor,
         AskNo, AskCancel, AskYes, Scan, Publish, GetImg, ResetLink, ChangeLink, SwapLinks, Show,
         ChooseFile, CancelFile, FailedYes, FailedNo,
         SaveGet, AsGet, SaveLock, EditorLock, Saving, AutoSaving, Update, At
<1>2. /\ modified' \subseteq modified
      /\ \A s \in Slots : table'.dev[s] = table.dev[s]
  <2>1. CASE \E no \in Slots, d \in Images, ask \in BOOLEAN : BeginMount(no, d, ask)
    BY <2>1 DEF BeginMount, IInv, TypeOK, Tables
  <2>2. CASE \E no \in Slots : BeginEject(no) \/ BeginSave(no) \/ BeginAutoSave(no)
                               \/ OpenEditor(no) \/ CloseEditor(no)
    BY <2>2 DEF BeginEject, BeginSave, BeginAutoSave, OpenEditor, CloseEditor, shared
  <2>3. CASE AskNo \/ AskCancel \/ AskYes \/ Scan \/ Publish \/ GetImg
    BY <2>3 DEF AskNo, AskCancel, AskYes, Scan, Publish, GetImg, shared, IInv, TypeOK, Tables
  <2>4. CASE ResetLink \/ ChangeLink \/ SwapLinks
    BY <2>4 DEF ResetLink, ChangeLink, SwapLinks, ChangeLinks
  <2>5. CASE ChooseFile \/ CancelFile \/ FailedYes \/ FailedNo \/ Show \/ Update
    BY <2>5 DEF ChooseFile, CancelFile, FailedYes, FailedNo, Show, Update, Crash, shared
  <2>6. CASE SaveGet \/ AsGet \/ SaveLock \/ EditorLock \/ Saving \/ AutoSaving
    BY <2>6 DEF SaveGet, AsGet, SaveLock, EditorLock, Saving, AutoSaving, SaveEnds, LockSav,
                Crash, shared
  <2> QED BY <2>1, <2>2, <2>3, <2>4, <2>5, <2>6
<1> QED BY <1>1, <1>2, SettleSteps

LEMMA NextStep == IInv /\ [Next]_vars => Step
<1> SUFFICES ASSUME IInv, [Next]_vars PROVE Step
  OBVIOUS
<1>1. CASE Worker
  BY <1>1, WorkerSteps
<1>2. CASE User
  <2>1. CASE \E no \in Slots : EditImage(no)
    BY <2>1, EditSteps
  <2>2. ASSUME NEW a \in Slots, NEW b \in Slots, BeginSwap(a, b) PROVE Step
    <3>1. B = NoAddress /\ B' = NoAddress
      BY <2>2, NobodyServed DEF BeginSwap, At, worker, B
    <3> QED BY <2>2, <3>1, SwapSteps DEF BeginSwap
  <2> QED BY <1>2, <2>1, <2>2, QuietSteps DEF User
<1>3. CASE Gui
  BY <1>3, EjectSteps, DeleteSteps, InstallSteps, PclinkSteps, QuietSteps DEF Gui
<1>4. CASE UNCHANGED vars
  BY <1>4 DEF vars, Step, Promise!vars
<1> QED BY <1>1, <1>2, <1>3, <1>4 DEF Next, Crashed

\* The worker and the GUI, with their locks, implement the drives.
THEOREM DrivesImplemented == Spec => ImplementsDrives
<1>1. Init => Promise!Init
  <2> SUFFICES ASSUME Init PROVE Promise!Init
    OBVIOUS
  <2>1. \A s \in Slots : s \in Address /\ s \notin {PCLINK, RCL}
    BY FixedDevices DEF Address
  <2>2. D = [s \in Slots |-> NoDevice]
    BY <2>1 DEF Init, D
  <2>3. modified = {} /\ B = NoAddress
    BY FixedDevices DEF Init, B, Device
  <2> QED BY <2>2, <2>3 DEF Promise!Init, D, B
<1>2. IInv /\ [Next]_vars => [Promise!Next]_(Promise!vars)
  BY NextStep DEF Step
<1> QED BY <1>1, <1>2, InOrder, PTL DEF Spec, ImplementsDrives, Promise!Spec

\* Which is what Drives has to promise: no image is in two drives, and a drive
\* in conversation with the Atari holds one until the conversation ends.
THEOREM Exclusive == Spec => [](Promise!OneDrive /\ Promise!InConversation)
<1> DEFINE Kept == Promise!TypeOK /\ Promise!OneDrive /\ Promise!InConversation
<1> USE DEF Promise!TypeOK, Promise!OneDrive, Promise!InConversation, D, B
<1>1. Promise!Init => Kept
  BY DEF Promise!Init
<1>2. Kept /\ [Promise!Next]_(Promise!vars) => Kept'
  <2> SUFFICES ASSUME Kept, [Promise!Next]_(Promise!vars) PROVE Kept'
    OBVIOUS
  <2>1. CASE Promise!End
    BY <2>1 DEF Promise!End
  <2>2. ASSUME NEW s \in Slots, Promise!Begin(s) \/ Promise!Edit(s) PROVE Kept'
    BY <2>2 DEF Promise!Begin, Promise!Edit
  <2>3. ASSUME NEW s \in Slots, NEW i \in Images, Promise!Insert(s, i) PROVE Kept'
    BY <2>3 DEF Promise!Insert, Promise!Quiet
  <2>4. ASSUME NEW S \in SUBSET Slots, Promise!Remove(S) PROVE Kept'
    BY <2>4 DEF Promise!Remove, Promise!Quiet
  <2>5. ASSUME NEW a \in Slots, NEW b \in Slots, Promise!Exchange(a, b) PROVE Kept'
    BY <2>5 DEF Promise!Exchange, Promise!Quiet
  <2>6. CASE UNCHANGED Promise!vars \/ \E I \in SUBSET Images : Promise!Settle(I)
    BY <2>6 DEF Promise!vars, Promise!Settle
  <2> QED BY <2>1, <2>2, <2>3, <2>4, <2>5, <2>6 DEF Promise!Next
<1>3. Kept => Promise!OneDrive /\ Promise!InConversation
  OBVIOUS
<1> HIDE DEF Kept
<1> QED BY <1>1, <1>2, <1>3, DrivesImplemented, PTL DEF ImplementsDrives, Promise!Spec
=============================================================================
