--------------------------- MODULE AutoBootProofs ---------------------------
(***************************************************************************)
(* Proofs about AutoBoot, for any number of drives, images and loaders.    *)
(*                                                                         *)
(* While nobody interferes, a handler on top of the stack finds the drive  *)
(* as it left it, and the calls below it sit in their dialogs: of those it *)
(* matters only that what they keep aside stays out of the drives and      *)
(* alive.                                                                  *)
(***************************************************************************)
EXTENDS AutoBoot, SequenceTheorems, TLAPS

\* The device kept aside by the call c exists and is in no drive.
Aside(c, t, o) ==
  o[c.loader] # NoDevice => o[c.loader] \in t.live /\ t.no[o[c.loader]] = NoAddress

\* What the call c has done by its label: t is the table, o the devices kept
\* aside, r whether a loader was displaced.
CallFits(c, t, o, r) ==
  /\ c.pc = "uninstall" => t.no[c.loader] = NoAddress /\ o[c.loader] = t.dev[D1]
  /\ c.pc = "install" => t.no[c.loader] = NoAddress /\ t.dev[D1] = NoDevice
  /\ c.pc \in {"install", "dialog", "remove", "restore"} => Aside(c, t, o)
  /\ c.pc = "restore" => o[c.loader] # NoDevice /\ t.dev[D1] = NoDevice
  /\ c.pc = "leave" /\ o[c.loader] # NoDevice =>
       o[c.loader] \in t.live /\ t.no[o[c.loader]] = D1
  /\ c.pc \in {"restore", "leave"} => r \/ t.no[c.loader] = NoAddress

CallsFit == \A i \in DOMAIN boots : CallFits(boots[i], table, old, displaced)

\* Only the handler on top is on its way.
Nested ==
  /\ \A i \in DOMAIN boots : i < Len(boots) \/ mnt.pc # "none" => boots[i].pc = "dialog"
  /\ mnt.pc = "none" => mnt = NoMount

\* Every loader is of one call; what one call keeps aside no other does, and
\* a loader is kept aside only by a later call than its own.
Apart ==
  /\ table.live \cap Loaders = {boots[i].loader : i \in DOMAIN boots}
  /\ \A i, j \in DOMAIN boots :
       /\ i # j => boots[i].loader # boots[j].loader
       /\ i # j /\ old[boots[i].loader] # NoDevice =>
            old[boots[i].loader] # old[boots[j].loader]
       /\ old[boots[i].loader] = boots[j].loader => j < i

\* d is in no drive, and kept aside by no call of b.
Loose(d, t, o, b) ==
  /\ d \in Images /\ d \in t.live /\ t.no[d] = NoAddress
  /\ \A i \in DOMAIN b : o[b[i].loader] # d

\* What mountFile has in hand at each of its labels.
MountFits ==
  /\ mnt.pc # "none" => Loose(mnt.disk, table, old, boots)
  /\ mnt.pc = "eject" =>
       mnt.img = IF table.dev[mnt.no] \in Images THEN table.dev[mnt.no] ELSE NoDevice
  /\ mnt.pc = "delete" => Loose(mnt.img, table, old, boots) /\ mnt.img # mnt.disk
  /\ mnt.pc \in {"delete", "install"} => table.dev[mnt.no] = NoDevice

\* The worker is in the handler of an installed device, which loaders pass on
\* to what their calls keep aside.
Served ==
  /\ serving # <<>> => table.no[serving[1]] # NoAddress
  /\ \A i \in DOMAIN serving :
       /\ serving[i] \in table.live
       /\ i > 1 => /\ serving[i - 1] \in Loaders /\ serving[i] = old[serving[i - 1]]
                   /\ displaced \/ table.no[serving[i]] = NoAddress

\* An image that exists is in a drive, kept aside, or in the hands of mountFile.
Sheltered ==
  \A d \in Images \cap table.live :
    \/ table.no[d] # NoAddress
    \/ \E i \in DOMAIN boots : old[boots[i].loader] = d
    \/ mnt.pc # "none" /\ d = mnt.disk
    \/ mnt.pc = "delete" /\ d = mnt.img

Good == /\ ~fault /\ Consistent(table)
        /\ CallsFit /\ Nested /\ Apart /\ MountFits /\ Served
        /\ displaced \/ Sheltered

Inv == TypeOK /\ (~raced => Good)
-----------------------------------------------------------------------------
(***************************************************************************)
(* The table, as in SioDevicesProofs.                                      *)
(***************************************************************************)
LEMMA UninstallTable ==
  ASSUME NEW t \in Tables, Consistent(t), NEW a \in Address
  PROVE  LET u == Uninstall(t, a)
         IN  /\ u \in Tables /\ Consistent(u)
             /\ u.live = t.live
             /\ u.dev = [t.dev EXCEPT ![a] = NoDevice]
             /\ \A d \in Device : u.no[d] = IF d = t.dev[a] THEN NoAddress ELSE t.no[d]
<1> DEFINE u == Uninstall(t, a)
<1>1. u \in Tables
  BY DEF Tables, Uninstall
<1>2. /\ u.live = t.live
      /\ u.dev = [t.dev EXCEPT ![a] = NoDevice]
      /\ u.no = [d \in Device |-> IF d = t.dev[a] THEN NoAddress ELSE t.no[d]]
  BY DEF Tables, Uninstall
<1>3. Consistent(u)
  BY <1>1, <1>2, Distinct DEF Consistent, Installed, Tables
<1> QED BY <1>1, <1>2, <1>3

LEMMA DeleteTable ==
  ASSUME NEW t \in Tables, Consistent(t), NEW d \in Device
  PROVE  LET u == Delete(t, d)
         IN  /\ u \in Tables /\ Consistent(u)
             /\ u.live = t.live \ {d}
             /\ u.dev = [a \in Address |-> IF t.dev[a] = d THEN NoDevice ELSE t.dev[a]]
             /\ \A e \in Device : u.no[e] = IF e = d THEN NoAddress ELSE t.no[e]
<1> DEFINE v == IF t.no[d] = NoAddress THEN t ELSE Uninstall(t, t.no[d])
           u == Delete(t, d)
<1>1. /\ v \in Tables /\ Consistent(v) /\ v.live = t.live
      /\ v.dev = [a \in Address |-> IF t.dev[a] = d THEN NoDevice ELSE t.dev[a]]
      /\ \A e \in Device : v.no[e] = IF e = d THEN NoAddress ELSE t.no[e]
  <2>1. CASE t.no[d] = NoAddress
    BY <2>1, Distinct DEF Tables, Consistent, Installed
  <2>2. CASE t.no[d] # NoAddress
    <3>1. t.no[d] \in Address /\ t.dev[t.no[d]] = d
      BY <2>2 DEF Tables, Consistent
    <3>2. \A a \in Address : t.dev[a] = d => a = t.no[d]
      BY Distinct DEF Consistent, Installed
    <3> QED BY <2>2, <3>1, <3>2, UninstallTable DEF Tables
  <2> QED BY <2>1, <2>2
<1>2. u = [v EXCEPT !.live = @ \ {d}]
  BY DEF Delete
<1>3. /\ u \in Tables
      /\ u.live = t.live \ {d} /\ u.dev = v.dev /\ u.no = v.no
  BY <1>1, <1>2 DEF Tables
<1> HIDE DEF u, v
<1>4. Consistent(u)
  <2>1. ASSUME NEW a \in Address, u.dev[a] # NoDevice
        PROVE  u.dev[a] \in u.live /\ u.no[u.dev[a]] = a
    BY <1>1, <1>3, <2>1, Distinct DEF Consistent, Installed, Tables
  <2>2. ASSUME NEW e \in Device, u.no[e] # NoAddress
        PROVE  u.dev[u.no[e]] = e
    BY <1>1, <1>3, <2>2 DEF Consistent
  <2> QED BY <2>1, <2>2 DEF Consistent, Installed
<1> QED BY <1>1, <1>3, <1>4 DEF u

LEMMA InstallTable ==
  ASSUME NEW t \in Tables, Consistent(t), NEW a \in Address, NEW d \in t.live,
         t.no[d] = NoAddress
  PROVE  LET u == Install(t, a, d)
         IN  /\ u \in Tables /\ Consistent(u)
             /\ u.live = t.live \ {t.dev[a]}
             /\ u.dev = [t.dev EXCEPT ![a] = d]
             /\ \A e \in Device : u.no[e] = IF e = d THEN a
                                            ELSE IF e = t.dev[a] THEN NoAddress ELSE t.no[e]
<1> DEFINE v == IF t.dev[a] = NoDevice THEN t ELSE Delete(t, t.dev[a])
           u == Install(t, a, d)
<1>0. d \in Device /\ d # t.dev[a] /\ NoAddress \notin Address /\ NoDevice \notin Device
  BY Distinct DEF Tables, Consistent, Installed
<1>1. /\ v \in Tables /\ Consistent(v) /\ v.live = t.live \ {t.dev[a]}
      /\ v.dev = [t.dev EXCEPT ![a] = NoDevice]
      /\ \A e \in Device : v.no[e] = IF e = t.dev[a] THEN NoAddress ELSE t.no[e]
  <2>1. CASE t.dev[a] = NoDevice
    BY <2>1, <1>0 DEF Tables
  <2>2. CASE t.dev[a] # NoDevice
    <3>1. t.dev[a] \in Device
      BY <2>2 DEF Tables
    <3>2. \A b \in Address : t.dev[b] = t.dev[a] => b = a
      BY <2>2 DEF Consistent, Installed
    <3> QED BY <2>2, <3>1, <3>2, DeleteTable DEF Tables
  <2> QED BY <2>1, <2>2
<1>2. u = [v EXCEPT !.dev[a] = d, !.no[d] = a]
  BY DEF Install
<1>3. /\ u.live = v.live
      /\ u.dev = [v.dev EXCEPT ![a] = d] /\ u.no = [v.no EXCEPT ![d] = a]
  BY <1>1, <1>2 DEF Tables
<1>4. u \in Tables /\ Consistent(u)
  <2>1. /\ v.dev \in [Address -> Device \cup {NoDevice}]
        /\ v.no \in [Device -> Address \cup {NoAddress}]
        /\ v.live \in SUBSET Device
        /\ d \in v.live /\ v.no[d] = NoAddress
    BY <1>0, <1>1 DEF Tables
  <2>2. u = [dev |-> [v.dev EXCEPT ![a] = d], no |-> [v.no EXCEPT ![d] = a], live |-> v.live]
    BY <1>1, <1>2 DEF Tables
  <2> HIDE DEF u, v
  <2>9. u \in Tables
    BY <1>0, <2>1, <2>2 DEF Tables
  <2>3. \A b \in Address : v.dev[b] # d
    BY <1>0, <1>1, <2>1 DEF Consistent, Installed
  <2>4. \A b \in Address : u.dev[b] = IF b = a THEN d ELSE v.dev[b]
    BY <1>3, <2>1
  <2>5. \A e \in Device : u.no[e] = IF e = d THEN a ELSE v.no[e]
    BY <1>3, <2>1
  <2>6. v.dev[a] = NoDevice
    BY <1>1 DEF Tables
  <2>7. ASSUME NEW b \in Address, u.dev[b] # NoDevice
        PROVE  u.dev[b] \in u.live /\ u.no[u.dev[b]] = b
    BY <1>0, <1>1, <1>3, <2>1, <2>3, <2>4, <2>5, <2>7 DEF Consistent, Installed
  <2>8. ASSUME NEW e \in Device, u.no[e] # NoAddress
        PROVE  u.dev[u.no[e]] = e
    BY <1>0, <1>1, <2>1, <2>4, <2>5, <2>6, <2>8 DEF Consistent
  <2> QED BY <2>9, <2>7, <2>8 DEF Consistent, Installed
<1>5. u.dev = [t.dev EXCEPT ![a] = d]
  BY <1>1, <1>3 DEF Tables
<1> QED BY <1>0, <1>1, <1>3, <1>4, <1>5 DEF Tables

LEMMA SwapTable ==
  ASSUME NEW t \in Tables, Consistent(t), NEW a \in Address, NEW b \in Address, a # b
  PROVE  LET u == Swap(t, a, b)
         IN  /\ u \in Tables /\ Consistent(u)
             /\ u.live = t.live
             /\ u.dev = [t.dev EXCEPT ![a] = t.dev[b], ![b] = t.dev[a]]
             /\ \A e \in Device : u.no[e] = NoAddress <=> t.no[e] = NoAddress
<1> DEFINE x == Uninstall(t, a)
           y == Uninstall(x, b)
           v == IF t.dev[b] = NoDevice THEN y ELSE Install(y, a, t.dev[b])
           u == Swap(t, a, b)
<1>0. /\ NoDevice \notin Device /\ NoAddress \notin Address
      /\ t.dev[a] # NoDevice => t.dev[a] \in t.live /\ t.dev[a] \in Device /\ t.no[t.dev[a]] = a
      /\ t.dev[b] # NoDevice => t.dev[b] \in t.live /\ t.dev[b] \in Device /\ t.no[t.dev[b]] = b
  BY Distinct DEF Tables, Consistent, Installed
<1>1. /\ y \in Tables /\ Consistent(y) /\ y.live = t.live
      /\ y.dev = [t.dev EXCEPT ![a] = NoDevice, ![b] = NoDevice]
      /\ \A e \in Device : y.no[e] = IF e \in {t.dev[a], t.dev[b]} THEN NoAddress ELSE t.no[e]
  <2>1. /\ x \in Tables /\ Consistent(x) /\ x.live = t.live
        /\ x.dev = [t.dev EXCEPT ![a] = NoDevice]
        /\ \A e \in Device : x.no[e] = IF e = t.dev[a] THEN NoAddress ELSE t.no[e]
    BY UninstallTable
  <2>2. /\ y \in Tables /\ Consistent(y) /\ y.live = x.live
        /\ y.dev = [x.dev EXCEPT ![b] = NoDevice]
        /\ \A e \in Device : y.no[e] = IF e = x.dev[b] THEN NoAddress ELSE x.no[e]
    BY <2>1, UninstallTable
  <2> QED BY <2>1, <2>2 DEF Tables
<1>2. /\ v \in Tables /\ Consistent(v) /\ v.live = t.live
      /\ v.dev = [t.dev EXCEPT ![a] = t.dev[b], ![b] = NoDevice]
      /\ \A e \in Device : v.no[e] = IF e = t.dev[b] THEN a
                                     ELSE IF e = t.dev[a] THEN NoAddress ELSE t.no[e]
  <2>1. CASE t.dev[b] = NoDevice
    BY <1>0, <1>1, <2>1 DEF Tables
  <2>2. CASE t.dev[b] # NoDevice
    <3>1. y.dev[a] = NoDevice /\ t.dev[b] \in y.live /\ y.no[t.dev[b]] = NoAddress
      BY <1>0, <1>1, <2>2 DEF Tables
    <3>2. /\ v \in Tables /\ Consistent(v) /\ v.live = y.live \ {y.dev[a]}
          /\ v.dev = [y.dev EXCEPT ![a] = t.dev[b]]
          /\ \A e \in Device : v.no[e] = IF e = t.dev[b] THEN a
                                         ELSE IF e = y.dev[a] THEN NoAddress ELSE y.no[e]
      <4> DEFINE d == t.dev[b]
                 w == Install(y, a, d)
      <4>1. v = w
        BY <2>2
      <4>3. y \in Tables /\ Consistent(y) /\ d \in y.live /\ y.no[d] = NoAddress
        BY <1>1, <3>1
      <4> HIDE DEF y, v, d
      <4>2. /\ w \in Tables /\ Consistent(w) /\ w.live = y.live \ {y.dev[a]}
            /\ w.dev = [y.dev EXCEPT ![a] = d]
            /\ \A e \in Device : w.no[e] = IF e = d THEN a
                                           ELSE IF e = y.dev[a] THEN NoAddress ELSE y.no[e]
        BY <4>3, InstallTable
      <4> QED BY <4>1, <4>2 DEF d
    <3> QED BY <1>0, <1>1, <2>2, <3>1, <3>2 DEF Tables
  <2> QED BY <2>1, <2>2
<1>3. u = IF t.dev[a] = NoDevice THEN v ELSE Install(v, b, t.dev[a])
  BY DEF Swap
<1>4. CASE t.dev[a] = NoDevice
  BY <1>0, <1>2, <1>3, <1>4 DEF Tables
<1>5. CASE t.dev[a] # NoDevice
  <2>1. t.dev[a] # t.dev[b]
    BY <1>0, <1>5
  <2>2. v.dev[b] = NoDevice /\ t.dev[a] \in v.live /\ v.no[t.dev[a]] = NoAddress
    BY <1>0, <1>2, <1>5, <2>1 DEF Tables
  <2>3. /\ u \in Tables /\ Consistent(u) /\ u.live = v.live \ {v.dev[b]}
        /\ u.dev = [v.dev EXCEPT ![b] = t.dev[a]]
        /\ \A e \in Device : u.no[e] = IF e = t.dev[a] THEN b
                                       ELSE IF e = v.dev[b] THEN NoAddress ELSE v.no[e]
    BY <1>2, <1>3, <1>5, <2>2, InstallTable
  <2> QED BY <1>0, <1>2, <1>5, <2>1, <2>2, <2>3 DEF Tables
<1> QED BY <1>4, <1>5

-----------------------------------------------------------------------------
(***************************************************************************)
(* The stack of calls.                                                     *)
(***************************************************************************)
Labels == {"uninstall", "install", "dialog", "remove", "restore", "leave"}

LEMMA Shape ==
  ASSUME TypeOK
  PROVE  /\ Len(boots) \in Nat /\ DOMAIN boots = 1 .. Len(boots)
         /\ \A i \in DOMAIN boots :
              /\ boots[i] \in Calls /\ boots[i].pc \in Labels /\ boots[i].loader \in Loaders
              /\ old[boots[i].loader] \in Device \cup {NoDevice}
         /\ Len(serving) \in Nat /\ DOMAIN serving = 1 .. Len(serving)
         /\ \A i \in DOMAIN serving : serving[i] \in Device
<1>1. /\ Len(boots) \in Nat /\ DOMAIN boots = 1 .. Len(boots)
      /\ \A i \in DOMAIN boots : boots[i] \in Calls
  BY LenProperties, ElementOfSeq DEF TypeOK
<1>2. /\ Len(serving) \in Nat /\ DOMAIN serving = 1 .. Len(serving)
      /\ \A i \in DOMAIN serving : serving[i] \in Device
  BY LenProperties, ElementOfSeq DEF TypeOK
<1>3. \A c \in Calls : c.pc \in Labels /\ c.loader \in Loaders
  BY DEF Calls, Labels
<1> QED BY <1>1, <1>2, <1>3 DEF TypeOK

LEMMA TopCall ==
  ASSUME TypeOK, boots # <<>>
  PROVE  /\ Len(boots) \in DOMAIN boots /\ Len(boots) \in Nat \ {0}
         /\ Top = boots[Len(boots)] /\ Top \in Calls /\ Top.loader \in Loaders
<1>1. Len(boots) # 0
  BY EmptySeq DEF TypeOK
<1> QED BY <1>1, Shape DEF Top

LEMMA GotoCalls ==
  ASSUME TypeOK, boots # <<>>, NEW l \in Labels, Goto(l)
  PROVE  /\ boots' \in Seq(Calls)
         /\ Len(boots') = Len(boots) /\ DOMAIN boots' = DOMAIN boots
         /\ \A i \in DOMAIN boots :
              /\ boots'[i].loader = boots[i].loader
              /\ boots'[i].pc = IF i = Len(boots) THEN l ELSE boots[i].pc
         /\ UNCHANGED <<old, mnt>>
<1> DEFINE n == Len(boots)
           c == [boots[n] EXCEPT !.pc = l]
<1>1. boots' = [boots EXCEPT ![n] = c]
  BY DEF Goto
<1>2. n \in DOMAIN boots /\ boots[n] \in Calls
  BY TopCall DEF Top
<1>3. c \in Calls /\ c.pc = l /\ c.loader = boots[n].loader
  BY <1>2 DEF Calls, Labels
<1> HIDE DEF c
<1>4. boots' \in Seq(Calls) /\ Len(boots') = n
  BY <1>1, <1>2, <1>3, ExceptSeq DEF TypeOK
<1>5. \A i \in DOMAIN boots : boots'[i] = IF i = n THEN c ELSE boots[i]
  BY <1>1
<1> QED BY <1>1, <1>3, <1>4, <1>5 DEF Goto

\* A step of the handler on top that creates and deletes nothing and leaves
\* what the calls below keep aside.
LEMMA GotoKeeps ==
  ASSUME Inv, ~raced, boots # <<>>, mnt = NoMount, NEW l \in Labels, Goto(l),
         table'.live = table.live,
         \A i \in DOMAIN boots :
           i < Len(boots) /\ old[boots[i].loader] # NoDevice =>
             table'.no[old[boots[i].loader]] = NoAddress,
         CallFits([Top EXCEPT !.pc = l], table', old, displaced')
  PROVE  CallsFit' /\ Nested' /\ Apart' /\ MountFits'
<1> USE DEF Inv, Good
<1> DEFINE n == Len(boots)
<1>1. /\ boots' \in Seq(Calls)
      /\ Len(boots') = n /\ DOMAIN boots' = DOMAIN boots
      /\ \A i \in DOMAIN boots :
           /\ boots'[i].loader = boots[i].loader
           /\ boots'[i].pc = IF i = n THEN l ELSE boots[i].pc
      /\ old' = old /\ mnt' = NoMount
  BY GotoCalls
<1>2. /\ n \in DOMAIN boots /\ n \in Nat \ {0} /\ DOMAIN boots = 1 .. n
      /\ Top = boots[n] /\ Top \in Calls
  BY TopCall, Shape
<1>3. CallsFit'
  <2> SUFFICES ASSUME NEW i \in DOMAIN boots
               PROVE  CallFits(boots'[i], table', old, displaced')
    BY <1>1 DEF CallsFit
  <2>1. CASE i = n
    <3>1. [Top EXCEPT !.pc = l].pc = l /\ [Top EXCEPT !.pc = l].loader = boots'[i].loader
      BY <1>1, <1>2, <2>1 DEF Calls
    <3>2. boots'[i].pc = l
      BY <1>1, <2>1
    <3> QED BY <3>1, <3>2 DEF CallFits, Aside
  <2>2. CASE i # n
    <3>1. i < n
      BY <1>2, <2>2
    <3>2. boots'[i].pc = "dialog" /\ boots[i].pc = "dialog"
      BY <1>1, <2>2, <3>1 DEF Nested
    <3>3. Aside(boots[i], table, old)
      BY <3>2 DEF CallsFit, CallFits
    <3> QED BY <1>1, <3>1, <3>2, <3>3 DEF CallFits, Aside
  <2> QED BY <2>1, <2>2
<1>4. Nested'
  <2>1. \A i \in DOMAIN boots : i < n => boots'[i].pc = "dialog"
    BY <1>1, <1>2 DEF Nested
  <2> QED BY <1>1, <2>1 DEF Nested, NoMount
<1>5. Apart'
  BY <1>1 DEF Apart
<1>6. MountFits'
  BY <1>1 DEF MountFits, NoMount
<1> QED BY <1>3, <1>4, <1>5, <1>6

-----------------------------------------------------------------------------
(***************************************************************************)
(* The worker.                                                             *)
(***************************************************************************)
\* A step that leaves the drives and the handlers of the GUI alone.
LEMMA Elsewhere ==
  ASSUME Inv, ~raced, UNCHANGED <<table, old, boots, mnt, displaced, fault>>, Served'
  PROVE  Good'
BY DEF Inv, Good, CallsFit, Nested, Apart, MountFits, Sheltered

LEMMA ServingOne ==
  ASSUME NEW d \in Device, serving' = <<d>>
  PROVE  /\ serving' \in Seq(Device) /\ DOMAIN serving' = {1} /\ serving'[1] = d
         /\ serving' # <<>>
<1>1. <<d>> \in Seq(Device) /\ Len(<<d>>) = 1 /\ <<d>>[1] = d /\ DOMAIN <<d>> = 1 .. 1
  OBVIOUS
<1> QED BY <1>1, EmptySeq

\* No object of the table is the null device.
LEMMA Occupant ==
  ASSUME Inv, ~raced, NEW a \in Slots, table.dev[a] # NoDevice
  PROVE  /\ table.dev[a] \in Device /\ table.dev[a] \in table.live
         /\ table.no[table.dev[a]] = a /\ a # NoAddress
BY Distinct DEF Inv, Good, TypeOK, Tables, Consistent, Installed, Address

LEMMA DispatchKeeps == ASSUME Inv, NEW a \in Slots, Dispatch(a) PROVE Inv'
<1>1. ~raced /\ serving' = <<table.dev[a]>> /\ UNCHANGED <<table, modified, done, history, gui>>
  BY DEF Dispatch, Running
<1>2. /\ table.dev[a] \in Device /\ table.dev[a] \in table.live
      /\ table.no[table.dev[a]] # NoAddress
  BY <1>1, Occupant DEF Dispatch
<1>3. serving' \in Seq(Device) /\ DOMAIN serving' = {1} /\ serving'[1] = table.dev[a]
  BY <1>1, <1>2, ServingOne
<1>4. Served'
  BY <1>1, <1>2, <1>3 DEF Served
<1>5. Good'
  BY <1>1, <1>4, Elsewhere DEF gui, history
<1>6. TypeOK'
  BY <1>1, <1>3 DEF Inv, TypeOK, gui, history
<1> QED BY <1>5, <1>6 DEF Inv

\* A loader in whose handler the worker is was put in a drive, or is kept aside.
LEMMA Reachable ==
  ASSUME Inv, ~raced, serving # <<>>, Last \in Loaders
  PROVE  \E i \in DOMAIN boots :
           /\ Last = boots[i].loader
           /\ old[Last] # NoDevice =>
                /\ old[Last] \in Device /\ old[Last] \in table.live
                /\ displaced \/ table.no[old[Last]] = NoAddress
<1> USE DEF Inv, Good
<1> DEFINE k == Len(serving)
<1>1. k \in Nat \ {0} /\ k \in DOMAIN serving /\ Last = serving[k]
  BY Shape, EmptySeq DEF Last, TypeOK
<1>2. Last \in table.live
  BY <1>1 DEF Served
<1>3. PICK i \in DOMAIN boots : Last = boots[i].loader
  BY <1>2 DEF Apart
<1>4. CallFits(boots[i], table, old, displaced) /\ boots[i].pc \in Labels
      /\ old[boots[i].loader] \in Device \cup {NoDevice}
  BY Shape DEF CallsFit
<1>5. ASSUME boots[i].pc \in {"uninstall", "leave"}, ~displaced, old[Last] # NoDevice
      PROVE  FALSE
  <2>1. table.no[Last] = NoAddress
    BY <1>3, <1>4, <1>5 DEF CallFits
  <2>2. CASE k = 1
    BY <1>1, <2>1, <2>2 DEF Served
  <2>3. CASE k # 1
    <3>1. k - 1 \in DOMAIN serving /\ serving[k - 1] \in Loaders /\ Last = old[serving[k - 1]]
      BY <1>1, <2>3, Shape DEF Served
    <3>2. serving[k - 1] \in table.live
      BY <3>1 DEF Served
    <3>3. PICK j \in DOMAIN boots : serving[k - 1] = boots[j].loader
      BY <3>1, <3>2 DEF Apart
    <3>4. i < j
      BY <1>3, <3>1, <3>3 DEF Apart
    <3>5. i < Len(boots)
      BY <3>4, Shape
    <3> QED BY <1>5, <3>5 DEF Nested
  <2> QED BY <2>2, <2>3
<1>6. ASSUME old[Last] # NoDevice
      PROVE  old[Last] \in table.live /\ (displaced \/ table.no[old[Last]] = NoAddress)
  <2>1. CASE boots[i].pc \in {"install", "dialog", "remove", "restore"}
    BY <1>3, <1>4, <1>6, <2>1 DEF CallFits, Aside
  <2>2. CASE boots[i].pc = "uninstall"
    <3>1. old[Last] = table.dev[D1]
      BY <1>3, <1>4, <2>2 DEF CallFits
    <3>2. old[Last] \in table.live
      BY <1>6, <3>1, Occupant, Distinct
    <3> QED BY <1>5, <1>6, <2>2, <3>2
  <2>3. CASE boots[i].pc = "leave"
    BY <1>3, <1>4, <1>5, <1>6, <2>3 DEF CallFits
  <2> QED BY <1>4, <2>1, <2>2, <2>3 DEF Labels
<1> QED BY <1>3, <1>4, <1>6

LEMMA PassToOldHandlerKeeps == ASSUME Inv, PassToOldHandler PROVE Inv'
<1> USE DEF Inv, Good
<1> DEFINE k == Len(serving)
           d == old[Last]
<1>1. /\ ~raced /\ serving # <<>> /\ Last \in Loaders /\ d # NoDevice
      /\ serving' = Append(serving, d) /\ UNCHANGED <<table, modified, done, history, gui>>
  BY DEF PassToOldHandler, Running
<1>2. d \in Device /\ d \in table.live /\ (displaced \/ table.no[d] = NoAddress)
  BY <1>1, Reachable
<1>3. /\ k \in Nat \ {0} /\ k \in DOMAIN serving /\ Last = serving[k]
      /\ DOMAIN serving = 1 .. k
  BY <1>1, Shape, EmptySeq DEF Last, TypeOK
<1>4. /\ serving' \in Seq(Device) /\ Len(serving') = k + 1
      /\ serving'[k + 1] = d /\ \A i \in 1 .. k : serving'[i] = serving[i]
  BY <1>1, <1>2, AppendProperties DEF TypeOK
<1>5. DOMAIN serving' = 1 .. (k + 1)
  BY <1>4, LenProperties
<1> HIDE DEF d
<1>6. Served'
  <2>1. table'.no[serving'[1]] # NoAddress
    BY <1>1, <1>3, <1>4 DEF Served
  <2>2. ASSUME NEW i \in 1 .. k
        PROVE  /\ serving'[i] \in table'.live
               /\ i > 1 => /\ serving'[i - 1] \in Loaders
                           /\ serving'[i] = old'[serving'[i - 1]]
                           /\ displaced' \/ table'.no[serving'[i]] = NoAddress
    <3>1. serving'[i] = serving[i] /\ (i > 1 => serving'[i - 1] = serving[i - 1])
      BY <1>3, <1>4
    <3> QED BY <1>1, <1>3, <3>1 DEF Served, gui, history
  <2>3. /\ serving'[k + 1] \in table'.live
        /\ serving'[k] \in Loaders /\ serving'[k + 1] = old'[serving'[k]]
        /\ displaced' \/ table'.no[serving'[k + 1]] = NoAddress
    BY <1>1, <1>2, <1>3, <1>4 DEF d, gui, history
  <2> QED BY <1>3, <1>5, <2>1, <2>2, <2>3 DEF Served
<1>7. Good'
  BY <1>1, <1>6, Elsewhere DEF gui, history
<1>8. TypeOK'
  BY <1>1, <1>4 DEF TypeOK, gui, history
<1> QED BY <1>7, <1>8

LEMMA ReturnKeeps == ASSUME Inv, Return PROVE Inv'
<1>1. ~raced /\ serving' = <<>> /\ UNCHANGED <<table, history, gui>>
  BY DEF Return, Running
<1>2. DOMAIN <<>> = {}
  OBVIOUS
<1>3. Good'
  BY <1>1, <1>2, Elsewhere DEF Served, gui, history
<1>4. serving' \in Seq(Device)
  BY <1>1, EmptySeq
<1>5. modified' \subseteq Images /\ done' \subseteq Loaders
  BY DEF Return, Inv, TypeOK
<1>6. TypeOK'
  BY <1>1, <1>4, <1>5 DEF Inv, TypeOK, gui, history
<1> QED BY <1>3, <1>6 DEF Inv

LEMMA BootExeTriggeredKeeps == ASSUME Inv, BootExeTriggered PROVE Inv'
<1>1. /\ ~raced /\ posted' = posted + 1 /\ posted < MaxPosted /\ named' = TRUE
      /\ UNCHANGED <<table, modified, old, boots, mnt, done, serving, history>>
  BY DEF BootExeTriggered, Running
<1>2. Served'
  BY <1>1 DEF Inv, Good, Served, history
<1>3. Good'
  BY <1>1, <1>2, Elsewhere DEF history
<1>4. posted' \in 0 .. MaxPosted
  BY <1>1, Distinct DEF Inv, TypeOK
<1>5. TypeOK'
  BY <1>1, <1>4 DEF Inv, TypeOK, history
<1> QED BY <1>3, <1>5 DEF Inv

\* In an event loop all calls sit in their dialogs.
LEMMA InDialogs ==
  ASSUME Inv, ~raced, Loop
  PROVE  mnt = NoMount /\ \A i \in DOMAIN boots : boots[i].pc = "dialog"
<1>1. mnt = NoMount
  BY DEF Loop
<1>2. ASSUME NEW i \in DOMAIN boots PROVE boots[i].pc = "dialog"
  <2>1. boots # <<>>
    OBVIOUS
  <2>2. boots[Len(boots)].pc = "dialog" /\ i \in 1 .. Len(boots) /\ Len(boots) \in Nat
    BY <2>1, TopCall, Shape DEF Loop, OnTop, Inv
  <2>3. i < Len(boots) \/ i = Len(boots)
    BY <2>2
  <2> QED BY <2>2, <2>3 DEF Inv, Good, Nested
<1> QED BY <1>1, <1>2

\* The worker may take devices out in an event loop, delete images that were in
\* drives, and move what is in them.
LEMMA LoopKeeps ==
  ASSUME Inv, ~raced, Loop, serving = <<>>, serving' = <<>>,
         UNCHANGED <<old, boots, mnt, displaced, fault>>,
         Consistent(table'), table'.live \subseteq table.live,
         table'.live \cap Loaders = table.live \cap Loaders,
         \A d \in table.live :
           table.no[d] = NoAddress => d \in table'.live /\ table'.no[d] = NoAddress,
         \A d \in Images \cap table'.live :
           table.no[d] # NoAddress => table'.no[d] # NoAddress
  PROVE  Good'
<1> USE DEF Inv, Good
<1>1. mnt = NoMount /\ \A i \in DOMAIN boots : boots[i].pc = "dialog"
  BY InDialogs
<1>2. CallsFit'
  <2> SUFFICES ASSUME NEW i \in DOMAIN boots PROVE CallFits(boots[i], table', old, displaced)
    BY DEF CallsFit
  <2>1. Aside(boots[i], table, old) /\ boots[i].pc = "dialog"
    BY <1>1 DEF CallsFit, CallFits
  <2>2. Aside(boots[i], table', old)
    BY <2>1 DEF Aside
  <2> QED BY <2>1, <2>2 DEF CallFits
<1>3. Nested' /\ Apart'
  BY DEF Nested, Apart
<1>4. MountFits'
  BY <1>1 DEF MountFits, NoMount
<1>5. Served'
  BY DEF Served
<1>6. (displaced \/ Sheltered)'
  BY DEF Sheltered
<1>7. (~fault)' /\ Consistent(table)'
  OBVIOUS
<1> QED BY <1>2, <1>3, <1>4, <1>5, <1>6, <1>7

LEMMA RemoteSwapKeeps ==
  ASSUME Inv, NEW a \in Slots, NEW b \in Slots, RemoteSwap(a, b)
  PROVE  Inv'
<1>1. /\ ~raced /\ serving = <<>> /\ a # b /\ table' = Swap(table, a, b)
      /\ UNCHANGED <<modified, done, serving, displaced, fault, gui>>
  BY DEF RemoteSwap, Running, MutexFree
<1>2. /\ table' \in Tables /\ Consistent(table') /\ table'.live = table.live
      /\ \A e \in Device : table'.no[e] = NoAddress <=> table.no[e] = NoAddress
  <2>1. a \in Address /\ b \in Address /\ table \in Tables /\ Consistent(table)
    BY <1>1 DEF Address, Inv, Good, TypeOK
  <2> DEFINE u == Swap(table, a, b)
  <2>2. a # b /\ table' = u
    BY <1>1
  <2>3. /\ u \in Tables /\ Consistent(u) /\ u.live = table.live
        /\ \A e \in Device : u.no[e] = NoAddress <=> table.no[e] = NoAddress
    BY <2>1, <2>2, SwapTable
  <2> HIDE DEF u
  <2> QED BY <2>2, <2>3
<1>3. raced' \in BOOLEAN
  BY Zenon DEF RemoteSwap
<1>4. TypeOK'
  BY <1>1, <1>2, <1>3 DEF Inv, TypeOK, gui
<1>5. ASSUME ~raced' PROVE Good'
  <2>1. Loop
    BY <1>5, Zenon DEF RemoteSwap
  <2>2. table.live \subseteq Device
    BY DEF Inv, TypeOK, Tables
  <2> QED BY <1>1, <1>2, <2>1, <2>2, LoopKeeps DEF gui
<1> QED BY <1>4, <1>5 DEF Inv

LEMMA RemoteUnmountKeeps ==
  ASSUME Inv, NEW S \in SUBSET Slots, RemoteUnmount(S)
  PROVE  Inv'
<1> USE DEF Inv, Good
<1> DEFINE out == {table.dev[a] : a \in S} \ {NoDevice}
<1>1. /\ ~raced /\ serving = <<>>
      /\ table' = [dev  |-> [a \in Address |-> IF a \in S THEN NoDevice ELSE table.dev[a]],
                   no   |-> [d \in Device |-> IF d \in out THEN NoAddress ELSE table.no[d]],
                   live |-> table.live \ (out \cap Images)]
      /\ UNCHANGED <<modified, done, serving, displaced, fault, gui>>
  BY DEF RemoteUnmount, Running, MutexFree
<1>2. /\ table'.live = table.live \ (out \cap Images)
      /\ \A a \in Slots : table'.dev[a] = IF a \in S THEN NoDevice ELSE table.dev[a]
      /\ \A d \in Device : table'.no[d] = IF d \in out THEN NoAddress ELSE table.no[d]
  BY <1>1 DEF Address
<1>3. \A d \in out : d \in Device /\ d \in table.live /\ table.no[d] \in S /\ table.no[d] # NoAddress
  BY <1>1, Occupant
<1>4. /\ table.live \subseteq Device
      /\ \A d \in Device : table.no[d] \in Slots \cup {NoAddress}
      /\ \A a \in Slots : table.dev[a] \in Device \cup {NoDevice}
      /\ NoAddress \notin Slots /\ NoDevice \notin Device
  BY Distinct DEF TypeOK, Tables, Address
<1>5. table' \in Tables
  BY <1>1, <1>4 DEF TypeOK, Tables, Address
<1>6. Consistent(table')
  <2> USE DEF Address
  <2>1. ASSUME NEW a \in Slots, table'.dev[a] # NoDevice
        PROVE  table'.dev[a] \in table'.live /\ table'.no[table'.dev[a]] = a
    <3>1. a \notin S /\ table'.dev[a] = table.dev[a]
      BY <1>2, <2>1
    <3>2. table.dev[a] \in Device /\ table.dev[a] \in table.live /\ table.no[table.dev[a]] = a
      BY <1>1, <2>1, <3>1, Occupant
    <3>3. table.dev[a] \notin out
      BY <1>3, <3>1, <3>2
    <3> QED BY <1>2, <3>1, <3>2, <3>3
  <2>2. ASSUME NEW d \in Device, table'.no[d] # NoAddress
        PROVE  table'.dev[table'.no[d]] = d
    <3>1. d \notin out /\ table'.no[d] = table.no[d]
      BY <1>2, <2>2
    <3>2. table.dev[table.no[d]] = d /\ table.no[d] \in Slots
      BY <1>1, <1>4, <2>2, <3>1 DEF Consistent
    <3>3. table.no[d] \notin S
      BY <1>4, <3>1, <3>2
    <3> QED BY <1>2, <3>1, <3>2, <3>3
  <2> QED BY <2>1, <2>2 DEF Consistent, Installed
<1>7. raced' \in BOOLEAN
  BY Zenon DEF RemoteUnmount
<1>8. TypeOK'
  BY <1>1, <1>5, <1>7 DEF TypeOK, gui
<1>9. ASSUME ~raced' PROVE Good'
  <2>1. Loop
    BY <1>9, Zenon DEF RemoteUnmount
  <2>2. table'.live \cap Loaders = table.live \cap Loaders
    BY <1>2, Distinct
  <2>3. \A d \in table.live :
          table.no[d] = NoAddress => d \in table'.live /\ table'.no[d] = NoAddress
    BY <1>2, <1>3, <1>4
  <2>4. \A d \in Images \cap table'.live :
          table.no[d] # NoAddress => table'.no[d] # NoAddress
    BY <1>2 DEF Device
  <2> HIDE DEF out
  <2> QED BY <1>1, <1>2, <1>6, <2>1, <2>2, <2>3, <2>4, LoopKeeps DEF gui
<1> QED BY <1>8, <1>9

-----------------------------------------------------------------------------
(***************************************************************************)
(* bootExe.                                                                *)
(***************************************************************************)
\* A device that does not exist is in no drive.
LEMMA NewDevice ==
  ASSUME Inv, ~raced, NEW d \in Device, d \notin table.live
  PROVE  /\ table.no[d] = NoAddress /\ \A a \in Slots : table.dev[a] # d
         /\ Consistent([table EXCEPT !.live = @ \cup {d}])
         /\ [table EXCEPT !.live = @ \cup {d}] \in Tables
<1>1. /\ table \in Tables /\ Consistent(table) /\ NoDevice \notin Device
      /\ NoAddress \notin Address
  BY Distinct DEF Inv, Good, TypeOK
<1>2. \A a \in Slots : table.dev[a] # d
  BY <1>1 DEF Consistent, Installed, Address
<1>3. table.no[d] = NoAddress
  <2>1. table.no[d] \in Address \cup {NoAddress}
    BY <1>1 DEF Tables
  <2> QED BY <1>1, <1>2, <2>1 DEF Consistent, Address
<1> DEFINE u == [table EXCEPT !.live = @ \cup {d}]
<1>4. u \in Tables /\ u.dev = table.dev /\ u.no = table.no /\ u.live = table.live \cup {d}
  BY <1>1 DEF Tables
<1>5. Consistent(u)
  BY <1>1, <1>4 DEF Consistent, Installed
<1> QED BY <1>2, <1>3, <1>4, <1>5

LEMMA PushKeeps ==
  ASSUME Inv, ~raced, Loop, serving = <<>>, NEW l \in Loaders, l \notin table.live,
         table' = [table EXCEPT !.live = @ \cup {l}],
         old' = [old EXCEPT ![l] = table.dev[D1]],
         boots' = Append(boots, [pc |-> "uninstall", loader |-> l]),
         UNCHANGED <<mnt, serving, displaced, fault>>
  PROVE  Good' /\ table' \in Tables /\ boots' \in Seq(Calls)
<1> USE DEF Inv, Good
<1> DEFINE n == Len(boots)
           c == [pc |-> "uninstall", loader |-> l]
<1>1. /\ table' \in Tables /\ Consistent(table')
      /\ table'.dev = table.dev /\ table'.no = table.no /\ table'.live = table.live \cup {l}
      /\ table.no[l] = NoAddress /\ \A a \in Slots : table.dev[a] # l
  BY NewDevice DEF Device, TypeOK, Tables
<1>2. mnt = NoMount /\ \A i \in DOMAIN boots : boots[i].pc = "dialog"
  BY InDialogs
<1>3. n \in Nat /\ DOMAIN boots = 1 .. n /\ c \in Calls
  BY Shape DEF Calls
<1>4. /\ boots' \in Seq(Calls) /\ Len(boots') = n + 1
      /\ boots'[n + 1] = c /\ \A i \in 1 .. n : boots'[i] = boots[i]
  BY <1>3, AppendProperties DEF TypeOK
<1>5. DOMAIN boots' = 1 .. (n + 1)
  BY <1>4, LenProperties
<1>6. c.loader = l /\ c.pc = "uninstall"
  OBVIOUS
<1> HIDE DEF c
<1>7. /\ old'[l] = table.dev[D1]
      /\ \A i \in DOMAIN boots : /\ boots[i].loader \in Loaders /\ boots[i].loader \in table.live
                                 /\ boots[i].loader # l
                                 /\ old'[boots[i].loader] = old[boots[i].loader]
  <2>1. \A i \in DOMAIN boots : boots[i].loader \in Loaders /\ boots[i].loader \in table.live
    BY Shape DEF Apart
  <2> QED BY <2>1 DEF TypeOK
<1>8. \A i \in DOMAIN boots : old[boots[i].loader] # NoDevice =>
        /\ old[boots[i].loader] \in table.live /\ table.no[old[boots[i].loader]] = NoAddress
  BY <1>2 DEF CallsFit, CallFits, Aside
<1>9. table.dev[D1] # NoDevice => table.dev[D1] \in table.live /\ table.no[table.dev[D1]] # NoAddress
  BY Occupant, Distinct
<1>10. CallsFit'
  <2>1. CallFits(boots'[n + 1], table', old', displaced')
    BY <1>1, <1>4, <1>6, <1>7 DEF CallFits
  <2>2. ASSUME NEW i \in 1 .. n PROVE CallFits(boots'[i], table', old', displaced')
    <3>1. boots'[i] = boots[i] /\ boots[i].pc = "dialog" /\ i \in DOMAIN boots
      BY <1>2, <1>3, <1>4
    <3>2. Aside(boots[i], table', old')
      BY <1>1, <1>7, <1>8, <3>1 DEF Aside
    <3> QED BY <3>1, <3>2 DEF CallFits
  <2>3. \A i \in DOMAIN boots' : i \in 1 .. n \/ i = n + 1
    BY <1>3, <1>5
  <2>4. \A i \in DOMAIN boots' : CallFits(boots'[i], table', old', displaced')
    BY <2>1, <2>2, <2>3
  <2> QED BY <2>4 DEF CallsFit
<1>11. Nested'
  BY <1>2, <1>3, <1>4, <1>5 DEF Nested, NoMount
<1>12. Apart'
  <2>1. table'.live \cap Loaders = {boots'[i].loader : i \in DOMAIN boots'}
    <3>1. DOMAIN boots' = DOMAIN boots \cup {n + 1}
      BY <1>3, <1>5
    <3>2. boots'[n + 1].loader = l /\ \A i \in DOMAIN boots : boots'[i].loader = boots[i].loader
      BY <1>3, <1>4, <1>6
    <3>3. {boots'[i].loader : i \in DOMAIN boots'} = {boots[i].loader : i \in DOMAIN boots} \cup {l}
      BY <3>1, <3>2
    <3> QED BY <1>1, <3>3 DEF Apart
  <2>2. ASSUME NEW i \in DOMAIN boots', NEW j \in DOMAIN boots'
        PROVE  /\ i # j => boots'[i].loader # boots'[j].loader
               /\ i # j /\ old'[boots'[i].loader] # NoDevice =>
                    old'[boots'[i].loader] # old'[boots'[j].loader]
               /\ old'[boots'[i].loader] = boots'[j].loader => j < i
    <3>1. CASE i \in 1 .. n /\ j \in 1 .. n
      BY <1>3, <1>4, <1>7, <3>1 DEF Apart
    <3>2. CASE i \in 1 .. n /\ j = n + 1
      <4>1. boots'[i] = boots[i] /\ boots'[j].loader = l /\ i < j
        BY <1>3, <1>4, <1>6, <3>2
      <4>2. old[boots[i].loader] # l
        BY <1>3, <1>8, <3>2, Distinct DEF Device
      <4> QED BY <1>3, <1>7, <1>8, <1>9, <3>2, <4>1, <4>2
    <3>3. CASE i = n + 1 /\ j \in 1 .. n
      <4>1. boots'[j] = boots[j] /\ boots'[i].loader = l /\ j < i
        BY <1>3, <1>4, <1>6, <3>3
      <4> QED BY <1>3, <1>7, <1>8, <1>9, <3>3, <4>1
    <3>4. CASE i = n + 1 /\ j = n + 1
      BY <1>1, <1>4, <1>6, <1>7, <3>4, Distinct
    <3> QED BY <1>3, <1>5, <3>1, <3>2, <3>3, <3>4
  <2> QED BY <2>1, <2>2 DEF Apart
<1>13. MountFits' /\ Served'
  BY <1>2 DEF MountFits, NoMount, Served
<1>14. (displaced \/ Sheltered)'
  <2> SUFFICES ASSUME Sheltered, NEW d \in Images \cap table'.live
               PROVE  \/ table'.no[d] # NoAddress
                      \/ \E i \in DOMAIN boots' : old'[boots'[i].loader] = d
    BY <1>2 DEF Sheltered, NoMount
  <2>1. d \in table.live
    BY <1>1, Distinct
  <2>2. CASE table.no[d] # NoAddress
    BY <1>1, <2>2
  <2>3. CASE \E i \in DOMAIN boots : old[boots[i].loader] = d
    <3>1. PICK i \in DOMAIN boots : old[boots[i].loader] = d
      BY <2>3
    <3>2. i \in DOMAIN boots' /\ boots'[i] = boots[i] /\ old'[boots[i].loader] = d
      BY <1>3, <1>4, <1>5, <1>7, <3>1
    <3> QED BY <3>2
  <2> QED BY <1>2, <2>1, <2>2, <2>3 DEF Sheltered, NoMount
<1>15. (~fault)' /\ Consistent(table)'
  BY <1>1
<1> QED BY <1>1, <1>4, <1>10, <1>11, <1>12, <1>13, <1>14, <1>15

LEMMA BootExeKeeps == ASSUME Inv, BootExe PROVE Inv'
<1>1. /\ ~raced /\ Loop /\ posted > 0 /\ posted' = posted - 1
      /\ UNCHANGED <<modified, mnt, named, done, serving, history>>
  BY DEF BootExe, Running
<1>2. posted' \in 0 .. MaxPosted
  BY <1>1, Distinct DEF Inv, TypeOK
<1>3. CASE UNCHANGED <<table, old, boots>>
  <2>1. Served'
    BY <1>1, <1>3 DEF Inv, Good, Served, history
  <2>2. Good'
    BY <1>1, <1>3, <2>1, Elsewhere DEF history
  <2>3. TypeOK'
    BY <1>1, <1>2, <1>3 DEF Inv, TypeOK, history
  <2> QED BY <2>2, <2>3 DEF Inv
<1>4. ASSUME MutexFree, NEW l \in Loaders \ table.live,
             table' = [table EXCEPT !.live = @ \cup {l}],
             old' = [old EXCEPT ![l] = table.dev[D1]],
             boots' = Append(boots, [pc |-> "uninstall", loader |-> l])
      PROVE  Inv'
  <2>1. Good' /\ table' \in Tables /\ boots' \in Seq(Calls)
    BY <1>1, <1>4, PushKeeps DEF MutexFree, history
  <2>2. old' \in [Loaders -> Device \cup {NoDevice}]
    BY <1>4, Distinct DEF Inv, TypeOK, Tables, Address
  <2>3. TypeOK'
    BY <1>1, <1>2, <2>1, <2>2 DEF Inv, TypeOK, history
  <2> QED BY <2>1, <2>3 DEF Inv
<1> QED BY <1>3, <1>4 DEF BootExe

LEMMA AtTop ==
  ASSUME Inv, NEW l, At(l)
  PROVE  /\ ~raced /\ ~fault /\ mnt = NoMount /\ boots # <<>>
         /\ Len(boots) \in DOMAIN boots /\ Len(boots) \in Nat \ {0}
         /\ DOMAIN boots = 1 .. Len(boots)
         /\ Top = boots[Len(boots)] /\ Top \in Calls /\ Top.pc = l
         /\ Top.loader \in Loaders /\ Top.loader \in table.live
         /\ CallFits(Top, table, old, displaced)
         /\ old[Top.loader] \in Device \cup {NoDevice}
<1>1. ~raced /\ ~fault /\ mnt = NoMount /\ boots # <<>> /\ Top.pc = l
  BY DEF At, Running, OnTop
<1>2. /\ Len(boots) \in DOMAIN boots /\ Len(boots) \in Nat \ {0}
      /\ DOMAIN boots = 1 .. Len(boots)
      /\ Top = boots[Len(boots)] /\ Top \in Calls /\ Top.loader \in Loaders
      /\ old[Top.loader] \in Device \cup {NoDevice}
  BY <1>1, TopCall, Shape DEF Inv
<1> QED BY <1>1, <1>2 DEF Inv, Good, CallsFit, Apart

\* What the calls below the top keep aside is in no drive, and neither the
\* loader on top nor what it keeps aside.
LEMMA BelowTop ==
  ASSUME Inv, NEW l, At(l), NEW i \in DOMAIN boots, i < Len(boots),
         old[boots[i].loader] # NoDevice
  PROVE  /\ old[boots[i].loader] \in Device
         /\ old[boots[i].loader] \in table.live
         /\ table.no[old[boots[i].loader]] = NoAddress
         /\ old[boots[i].loader] # Top.loader
         /\ old[boots[i].loader] # old[Top.loader]
<1> USE DEF Inv, Good
<1>1. /\ ~raced /\ Len(boots) \in DOMAIN boots /\ Len(boots) \in Nat \ {0}
      /\ DOMAIN boots = 1 .. Len(boots) /\ Top = boots[Len(boots)]
  BY AtTop
<1>2. boots[i].pc = "dialog" /\ CallFits(boots[i], table, old, displaced)
  BY <1>1 DEF Nested, CallsFit
<1>3. old[boots[i].loader] \in table.live /\ table.no[old[boots[i].loader]] = NoAddress
  BY <1>2 DEF CallFits, Aside
<1>4. table.live \subseteq Device
  BY DEF TypeOK, Tables
<1>5. old[boots[i].loader] # Top.loader /\ old[boots[i].loader] # old[Top.loader]
  BY <1>1 DEF Apart
<1> QED BY <1>3, <1>4, <1>5

LEMMA UninstallOldKeeps == ASSUME Inv, UninstallOld PROVE Inv'
<1> USE DEF Inv, Good
<1>1. /\ At("uninstall") /\ serving = <<>> /\ table' = Uninstall(table, D1) /\ Goto("install")
      /\ UNCHANGED <<modified, posted, named, done, serving, history>>
  BY DEF UninstallOld, MutexFree
<1>2. /\ ~raced /\ mnt = NoMount /\ boots # <<>> /\ Len(boots) \in DOMAIN boots
      /\ Top = boots[Len(boots)] /\ Top \in Calls /\ Top.loader \in Loaders
      /\ table.no[Top.loader] = NoAddress /\ old[Top.loader] = table.dev[D1]
  BY <1>1, AtTop DEF CallFits
<1>3. D1 \in Address /\ table \in Tables /\ Consistent(table) /\ table.live \subseteq Device
      /\ NoAddress \notin Address /\ Loaders \subseteq Device /\ Images \subseteq Device
  BY <1>2, Distinct DEF TypeOK, Tables, Address, Device
<1>4. /\ table' \in Tables /\ Consistent(table') /\ table'.live = table.live
      /\ table'.dev = [table.dev EXCEPT ![D1] = NoDevice]
      /\ \A d \in Device : table'.no[d] = IF d = table.dev[D1] THEN NoAddress ELSE table.no[d]
  BY <1>1, <1>3, UninstallTable
<1>5. table'.dev[D1] = NoDevice
  BY <1>3, <1>4 DEF Tables
<1>6. /\ boots' \in Seq(Calls) /\ DOMAIN boots' = DOMAIN boots /\ old' = old /\ mnt' = mnt
      /\ \A i \in DOMAIN boots : boots'[i].loader = boots[i].loader
  BY <1>1, <1>2, GotoCalls DEF Labels
<1>7. CallsFit' /\ Nested' /\ Apart' /\ MountFits'
  <2>1. \A i \in DOMAIN boots : i < Len(boots) /\ old[boots[i].loader] # NoDevice =>
          table'.no[old[boots[i].loader]] = NoAddress
    BY <1>1, <1>4, BelowTop
  <2>2. CallFits([Top EXCEPT !.pc = "install"], table', old, displaced')
    <3>1. [Top EXCEPT !.pc = "install"].pc = "install"
          /\ [Top EXCEPT !.pc = "install"].loader = Top.loader
      BY <1>2 DEF Calls
    <3>2. Aside(Top, table', old)
      BY <1>2, <1>3, <1>4, Occupant, Distinct DEF Aside
    <3>3. table'.no[Top.loader] = NoAddress
      BY <1>2, <1>3, <1>4
    <3> QED BY <1>5, <3>1, <3>2, <3>3 DEF CallFits, Aside
  <2> QED BY <1>1, <1>2, <1>4, <2>1, <2>2, GotoKeeps DEF Labels
<1>8. Served'
  BY <1>1 DEF Served
<1>9. (displaced \/ Sheltered)'
  <2> SUFFICES ASSUME Sheltered, NEW d \in Images \cap table'.live, table'.no[d] = NoAddress
               PROVE  \E i \in DOMAIN boots' : old'[boots'[i].loader] = d
    BY <1>1, <1>2 DEF Sheltered, history
  <2>1. CASE d = table.dev[D1]
    BY <1>2, <1>6, <2>1
  <2>2. CASE d # table.dev[D1]
    <3>1. table.no[d] = NoAddress
      BY <1>3, <1>4, <2>2
    <3>2. \E i \in DOMAIN boots : old[boots[i].loader] = d
      BY <1>2, <1>4, <3>1 DEF Sheltered, NoMount
    <3> QED BY <1>6, <3>2
  <2> QED BY <2>1, <2>2
<1>10. (~fault)' /\ Consistent(table)'
  BY <1>1, <1>2, <1>4 DEF history
<1>11. TypeOK'
  BY <1>1, <1>4, <1>6 DEF TypeOK, history
<1> QED BY <1>7, <1>8, <1>9, <1>10, <1>11

\* Into an empty drive.
LEMMA InstallEmpty ==
  ASSUME NEW t \in Tables, Consistent(t), NEW a \in Address, NEW d \in t.live,
         t.no[d] = NoAddress, t.dev[a] = NoDevice, NEW u, u = Install(t, a, d)
  PROVE  /\ u \in Tables /\ Consistent(u) /\ u.live = t.live
         /\ u.dev = [t.dev EXCEPT ![a] = d]
         /\ \A e \in Device : u.no[e] = IF e = d THEN a ELSE t.no[e]
<1> DEFINE v == Install(t, a, d)
<1>1. /\ v \in Tables /\ Consistent(v)
      /\ v.live = t.live \ {t.dev[a]}
      /\ v.dev = [t.dev EXCEPT ![a] = d]
      /\ \A e \in Device : v.no[e] = IF e = d THEN a
                                     ELSE IF e = t.dev[a] THEN NoAddress ELSE t.no[e]
  BY InstallTable
<1>2. NoDevice \notin Device /\ t.live \subseteq Device
  BY Distinct DEF Tables
<1>3. u = v
  OBVIOUS
<1> HIDE DEF v
<1>4. v.live = t.live /\ \A e \in Device : v.no[e] = IF e = d THEN a ELSE t.no[e]
  BY <1>1, <1>2
<1> QED BY <1>1, <1>3, <1>4

\* A device that exists and is in no drive is put into the empty drive 1.
LEMMA PutInKeeps ==
  ASSUME Inv, NEW l, At(l), NEW m \in Labels, NEW d \in {Top.loader, old[Top.loader]},
         PutIn(d, m), d \in table.live, table.no[d] = NoAddress, table.dev[D1] = NoDevice,
         named' \in BOOLEAN,
         \/ Top.pc = "install" /\ m = "dialog" /\ d = Top.loader
         \/ Top.pc = "restore" /\ m = "leave" /\ d = old[Top.loader]
  PROVE  Inv'
<1> USE DEF Inv, Good
<1>1. /\ serving = <<>> /\ table' = Install(table, D1, d)
      /\ modified' = modified \ {table.dev[D1]}
      /\ fault' = (d \notin table.live \/ table.dev[D1] \in Loaders)
      /\ Goto(m) /\ UNCHANGED <<posted, done, serving, raced, displaced>>
  BY DEF PutIn, MutexFree, Use
<1>2. /\ ~raced /\ mnt = NoMount /\ boots # <<>> /\ Len(boots) \in DOMAIN boots
      /\ Len(boots) \in Nat \ {0} /\ DOMAIN boots = 1 .. Len(boots)
      /\ Top = boots[Len(boots)] /\ Top \in Calls /\ Top.loader \in Loaders
      /\ CallFits(Top, table, old, displaced)
  BY AtTop
<1>3. D1 \in Address /\ table \in Tables /\ Consistent(table) /\ table.live \subseteq Device
      /\ NoAddress \notin Address /\ Loaders \subseteq Device /\ Images \subseteq Device
      /\ NoDevice \notin Device
  BY <1>2, Distinct DEF TypeOK, Tables, Address, Device
<1>4. /\ table' \in Tables /\ Consistent(table') /\ table'.live = table.live
      /\ \A e \in Device : table'.no[e] = IF e = d THEN D1 ELSE table.no[e]
  <2> HIDE DEF Inv, Good
  <2>1. D1 \in Address /\ d \in table.live /\ Consistent(table) /\ table \in Tables
    BY <1>3
  <2>2. table' = Install(table, D1, d) /\ table.no[d] = NoAddress /\ table.dev[D1] = NoDevice
    BY <1>1
  <2>3. PICK u : u = Install(table, D1, d)
    OBVIOUS
  <2>4. /\ u \in Tables /\ Consistent(u) /\ u.live = table.live
        /\ u.dev = [table.dev EXCEPT ![D1] = d]
        /\ \A e \in Device : u.no[e] = IF e = d THEN D1 ELSE table.no[e]
    BY <2>1, <2>2, <2>3, InstallEmpty, SMTT(30)
  <2>5. table' = u
    BY <2>2, <2>3
  <2> QED BY <2>4, <2>5
<1>5. /\ boots' \in Seq(Calls) /\ DOMAIN boots' = DOMAIN boots /\ old' = old /\ mnt' = mnt
      /\ \A i \in DOMAIN boots : boots'[i].loader = boots[i].loader
  BY <1>1, <1>2, GotoCalls
<1>6. old[Top.loader] # Top.loader
  BY <1>2 DEF Apart
<1>7. CallsFit' /\ Nested' /\ Apart' /\ MountFits'
  <2>1. \A i \in DOMAIN boots : i < Len(boots) /\ old[boots[i].loader] # NoDevice =>
          table'.no[old[boots[i].loader]] = NoAddress
    BY <1>4, BelowTop
  <2>2. CallFits([Top EXCEPT !.pc = m], table', old, displaced')
    <3>1. [Top EXCEPT !.pc = m].pc = m /\ [Top EXCEPT !.pc = m].loader = Top.loader
      BY <1>2 DEF Calls
    <3>2. Aside(Top, table, old)
      BY <1>2 DEF CallFits
    <3>3. CASE m = "dialog" /\ d = Top.loader /\ Top.pc = "install"
      <4>1. Aside(Top, table', old)
        BY <1>3, <1>4, <1>6, <3>2, <3>3 DEF Aside
      <4> QED BY <3>1, <3>3, <4>1 DEF CallFits, Aside
    <3>4. CASE m = "leave" /\ d = old[Top.loader] /\ Top.pc = "restore"
      <4>1. displaced \/ table.no[Top.loader] = NoAddress
        BY <1>2, <3>4 DEF CallFits
      <4>2. table'.no[d] = D1 /\ table'.no[Top.loader] = table.no[Top.loader]
        BY <1>2, <1>3, <1>4, <1>6, <3>4
      <4> QED BY <1>1, <1>4, <3>1, <3>4, <4>1, <4>2 DEF CallFits
    <3> QED BY <3>3, <3>4
  <2> QED BY <1>1, <1>2, <1>4, <2>1, <2>2, GotoKeeps
<1>8. Served'
  BY <1>1 DEF Served
<1>9. (displaced \/ Sheltered)'
  <2> SUFFICES ASSUME Sheltered, NEW e \in Images \cap table'.live, table'.no[e] = NoAddress
               PROVE  \E i \in DOMAIN boots' : old'[boots'[i].loader] = e
    BY <1>1, <1>2 DEF Sheltered
  <2>1. table.no[e] = NoAddress
    BY <1>3, <1>4
  <2>2. \E i \in DOMAIN boots : old[boots[i].loader] = e
    BY <1>2, <1>4, <2>1 DEF Sheltered, NoMount
  <2> QED BY <1>5, <2>2
<1>10. fault' = FALSE
  <2>1. ~ (d \notin table.live \/ table.dev[D1] \in Loaders)
    BY <1>3
  <2> QED BY <1>1, <2>1, Zenon
<1>11. TypeOK'
  <2>1. modified' \subseteq Images
    BY <1>1 DEF TypeOK
  <2> QED BY <1>1, <1>4, <1>5, <1>10, <2>1 DEF TypeOK
<1> QED BY <1>4, <1>7, <1>8, <1>9, <1>10, <1>11

LEMMA InstallLoaderKeeps == ASSUME Inv, InstallLoader PROVE Inv'
<1>1. At("install") /\ PutIn(Top.loader, "dialog") /\ named' = named
  BY DEF InstallLoader
<1>2. /\ ~raced /\ Top.pc = "install" /\ Top.loader \in table.live
      /\ CallFits(Top, table, old, displaced)
  BY <1>1, AtTop
<1>3. table.no[Top.loader] = NoAddress /\ table.dev[D1] = NoDevice
  BY <1>2 DEF CallFits
<1>4. named' \in BOOLEAN
  BY <1>1 DEF Inv, TypeOK
<1> QED BY <1>1, <1>2, <1>3, <1>4, PutInKeeps DEF Labels

LEMMA RestoreKeeps == ASSUME Inv, Restore PROVE Inv'
<1>1. At("restore") /\ PutIn(old[Top.loader], "leave") /\ named' = named
  BY DEF Restore
<1>2. Top.pc = "restore" /\ CallFits(Top, table, old, displaced)
  BY <1>1, AtTop
<1>3. /\ old[Top.loader] \in table.live /\ table.no[old[Top.loader]] = NoAddress
      /\ table.dev[D1] = NoDevice
  BY <1>2 DEF CallFits, Aside
<1>4. named' \in BOOLEAN
  BY <1>1 DEF Inv, TypeOK
<1> QED BY <1>1, <1>2, <1>3, <1>4, PutInKeeps DEF Labels

\* The dialog ends.
LEMMA DialogEnds ==
  ASSUME Inv, At("dialog"), Goto("remove"), named' \in BOOLEAN,
         UNCHANGED <<table, modified, posted, done, serving, history>>
  PROVE  Inv'
<1> USE DEF Inv, Good
<1>1. /\ ~raced /\ mnt = NoMount /\ boots # <<>> /\ Top \in Calls /\ Top.pc = "dialog"
      /\ CallFits(Top, table, old, displaced)
  BY AtTop
<1>2. /\ boots' \in Seq(Calls) /\ DOMAIN boots' = DOMAIN boots /\ old' = old /\ mnt' = mnt
      /\ \A i \in DOMAIN boots : boots'[i].loader = boots[i].loader
  BY <1>1, GotoCalls DEF Labels
<1>3. CallsFit' /\ Nested' /\ Apart' /\ MountFits'
  <2>1. \A i \in DOMAIN boots : i < Len(boots) /\ old[boots[i].loader] # NoDevice =>
          table'.no[old[boots[i].loader]] = NoAddress
    BY BelowTop
  <2>2. CallFits([Top EXCEPT !.pc = "remove"], table', old, displaced')
    <3>1. [Top EXCEPT !.pc = "remove"].pc = "remove"
          /\ [Top EXCEPT !.pc = "remove"].loader = Top.loader
      BY <1>1 DEF Calls
    <3>2. Aside(Top, table, old)
      BY <1>1 DEF CallFits
    <3> QED BY <3>1, <3>2 DEF CallFits, Aside
  <2> QED BY <1>1, <2>1, <2>2, GotoKeeps DEF Labels
<1>4. Served'
  BY <1>1, <1>2 DEF Served, history
<1>5. (displaced \/ Sheltered)'
  BY <1>1, <1>2 DEF Sheltered, history
<1>6. (~fault)' /\ Consistent(table)'
  BY <1>1 DEF history
<1>7. TypeOK'
  BY <1>1, <1>2 DEF TypeOK, history
<1> QED BY <1>3, <1>4, <1>5, <1>6, <1>7

LEMMA UserEndsKeeps == ASSUME Inv, UserEnds PROVE Inv'
<1>1. named' \in BOOLEAN
  BY DEF UserEnds, Inv, TypeOK
<1> QED BY <1>1, DialogEnds DEF UserEnds

LEMMA LoaderDoneKeeps == ASSUME Inv, LoaderDone PROVE Inv'
<1>1. named' \in BOOLEAN
  BY DEF LoaderDone, Inv, TypeOK
<1> QED BY <1>1, DialogEnds DEF LoaderDone

LEMMA RemoveKeeps == ASSUME Inv, Remove PROVE Inv'
<1> USE DEF Inv, Good
<1> DEFINE l == IF old[Top.loader] = NoDevice THEN "leave" ELSE "restore"
<1>1. /\ At("remove") /\ serving = <<>> /\ table' = Uninstall(table, D1) /\ Goto(l)
      /\ UNCHANGED <<modified, posted, named, done, serving, raced, fault>>
  BY DEF Remove, MutexFree
<1>2. displaced' = (displaced \/ table.dev[D1] # Top.loader)
  BY DEF Remove
<1>3. /\ ~raced /\ mnt = NoMount /\ boots # <<>> /\ Top \in Calls /\ Top.pc = "remove"
      /\ Top.loader \in Loaders /\ CallFits(Top, table, old, displaced)
  BY <1>1, AtTop
<1>4. D1 \in Address /\ table \in Tables /\ Consistent(table) /\ table.live \subseteq Device
      /\ NoAddress \notin Address /\ Loaders \subseteq Device /\ Images \subseteq Device
      /\ NoDevice \notin Device
  BY <1>3, Distinct DEF TypeOK, Tables, Address, Device
<1>5. /\ table' \in Tables /\ Consistent(table') /\ table'.live = table.live
      /\ table'.dev = [table.dev EXCEPT ![D1] = NoDevice]
      /\ \A d \in Device : table'.no[d] = IF d = table.dev[D1] THEN NoAddress ELSE table.no[d]
  BY <1>1, <1>4, UninstallTable
<1>6. table'.dev[D1] = NoDevice
  BY <1>4, <1>5 DEF Tables
<1>7. l \in Labels
  BY DEF Labels
<1>8. /\ boots' \in Seq(Calls) /\ DOMAIN boots' = DOMAIN boots /\ old' = old /\ mnt' = mnt
      /\ \A i \in DOMAIN boots : boots'[i].loader = boots[i].loader
  BY <1>1, <1>3, <1>7, GotoCalls
<1>9. displaced' \in BOOLEAN
  BY <1>2, Zenon
<1>10. ~displaced' => ~displaced /\ table.dev[D1] = Top.loader
  BY <1>2, Zenon
<1>11. CallsFit' /\ Nested' /\ Apart' /\ MountFits'
  <2>1. \A i \in DOMAIN boots : i < Len(boots) /\ old[boots[i].loader] # NoDevice =>
          table'.no[old[boots[i].loader]] = NoAddress
    BY <1>1, <1>5, BelowTop
  <2>2. CallFits([Top EXCEPT !.pc = l], table', old, displaced')
    <3>1. [Top EXCEPT !.pc = l].pc = l /\ [Top EXCEPT !.pc = l].loader = Top.loader
      BY <1>3 DEF Calls
    <3>2. Aside(Top, table, old)
      BY <1>3 DEF CallFits
    <3>3. Aside(Top, table', old)
      BY <1>4, <1>5, <3>2 DEF Aside
    <3>4. displaced' \/ table'.no[Top.loader] = NoAddress
      BY <1>3, <1>4, <1>5, <1>10
    <3>5. CASE old[Top.loader] = NoDevice
      BY <3>1, <3>4, <3>5 DEF CallFits
    <3>6. CASE old[Top.loader] # NoDevice
      BY <1>6, <3>1, <3>3, <3>4, <3>6 DEF CallFits, Aside
    <3> QED BY <3>5, <3>6
  <2> HIDE DEF l
  <2> QED BY <1>1, <1>3, <1>5, <1>7, <2>1, <2>2, GotoKeeps
<1>12. Served'
  BY <1>1 DEF Served
<1>13. (displaced \/ Sheltered)'
  <2> SUFFICES ASSUME ~displaced', NEW d \in Images \cap table'.live, table'.no[d] = NoAddress
               PROVE  \E i \in DOMAIN boots' : old'[boots'[i].loader] = d
    BY DEF Sheltered
  <2>1. d # Top.loader /\ d \in Device
    BY <1>3, Distinct DEF Device
  <2>2. table.no[d] = NoAddress /\ ~displaced
    BY <1>5, <1>10, <2>1
  <2>3. \E i \in DOMAIN boots : old[boots[i].loader] = d
    BY <1>3, <1>5, <2>2 DEF Sheltered, NoMount
  <2> QED BY <1>8, <2>3
<1>14. (~fault)' /\ Consistent(table)'
  BY <1>1, <1>3, <1>5
<1>15. TypeOK'
  BY <1>1, <1>5, <1>8, <1>9 DEF TypeOK
<1> QED BY <1>11, <1>12, <1>13, <1>14, <1>15

\* The loader that goes is in nobody's handler and aside for nobody.
LEMMA Forgotten ==
  ASSUME Inv, At("leave"), MutexFree \/ table.no[Top.loader] = NoAddress
  PROVE  \A i \in DOMAIN serving : serving[i] # Top.loader
<1> USE DEF Inv, Good
<1>1. /\ ~raced /\ boots # <<>> /\ Len(boots) \in DOMAIN boots /\ Len(boots) \in Nat \ {0}
      /\ DOMAIN boots = 1 .. Len(boots) /\ Top = boots[Len(boots)]
  BY AtTop
<1> SUFFICES ASSUME NEW i \in DOMAIN serving, serving[i] = Top.loader PROVE FALSE
  OBVIOUS
<1>2. i \in 1 .. Len(serving) /\ DOMAIN serving = 1 .. Len(serving) /\ Len(serving) \in Nat
  BY Shape
<1>3. serving # <<>>
  BY <1>2
<1>4. table.no[Top.loader] = NoAddress
  BY <1>3 DEF MutexFree
<1>5. CASE i = 1
  BY <1>1, <1>3, <1>4, <1>5 DEF Served
<1>6. CASE i > 1
  <2>1. i - 1 \in DOMAIN serving /\ serving[i - 1] \in Loaders /\ serving[i] = old[serving[i - 1]]
    BY <1>1, <1>2, <1>6 DEF Served
  <2>2. serving[i - 1] \in table.live
    BY <1>1, <2>1 DEF Served
  <2>3. PICK j \in DOMAIN boots : serving[i - 1] = boots[j].loader
    BY <1>1, <2>1, <2>2 DEF Apart
  <2>4. Len(boots) < j
    BY <1>1, <2>1, <2>3 DEF Apart
  <2> QED BY <1>1, <2>4
<1> QED BY <1>2, <1>5, <1>6

LEMMA LeaveKeeps == ASSUME Inv, Leave PROVE Inv'
<1> USE DEF Inv, Good
<1> DEFINE n == Len(boots)
           g == Top.loader
<1>1. /\ At("leave") /\ (MutexFree \/ table.no[g] = NoAddress)
      /\ posted' = IF named /\ posted < MaxPosted THEN posted + 1 ELSE posted
      /\ table' = Delete(table, g)
      /\ fault' = (g \notin table.live)
      /\ boots' = SubSeq(boots, 1, n - 1) /\ done' = done \ {g}
      /\ UNCHANGED <<modified, old, mnt, named, serving, raced, displaced>>
  BY DEF Leave
<1>2. /\ ~raced /\ mnt = NoMount /\ boots # <<>> /\ n \in DOMAIN boots
      /\ n \in Nat \ {0} /\ DOMAIN boots = 1 .. n
      /\ Top = boots[n] /\ Top.pc = "leave" /\ g \in Loaders /\ g \in table.live
      /\ CallFits(Top, table, old, displaced)
  BY <1>1, AtTop
<1>3. /\ table \in Tables /\ Consistent(table) /\ table.live \subseteq Device
      /\ Loaders \subseteq Device /\ Images \subseteq Device /\ g \in Device
      /\ NoDevice \notin Device /\ Images \cap Loaders = {}
  BY <1>2, Distinct DEF TypeOK, Tables, Device
<1>4. /\ table' \in Tables /\ Consistent(table') /\ table'.live = table.live \ {g}
      /\ \A e \in Device : table'.no[e] = IF e = g THEN NoAddress ELSE table.no[e]
  <2>1. PICK e \in Device : e = g
    BY <1>3
  <2>2. table' = Delete(table, e)
    BY <1>1, <2>1
  <2> HIDE DEF Inv, Good, g
  <2>3. /\ table' \in Tables /\ Consistent(table') /\ table'.live = table.live \ {e}
        /\ \A c \in Device : table'.no[c] = IF c = e THEN NoAddress ELSE table.no[c]
    <3> DEFINE u == Delete(table, e)
    <3>1. /\ u \in Tables /\ Consistent(u) /\ u.live = table.live \ {e}
          /\ \A c \in Device : u.no[c] = IF c = e THEN NoAddress ELSE table.no[c]
      BY <1>3, <2>1, DeleteTable
    <3>2. table' = u
      BY <2>2
    <3> HIDE DEF u
    <3> QED BY <3>1, <3>2
  <2> QED BY <2>1, <2>3
<1>5. fault' = FALSE
  <2>1. ~ (g \notin table.live)
    BY <1>2
  <2> QED BY <1>1, <2>1, Zenon
<1>6. /\ boots' \in Seq(Calls) /\ Len(boots') = n - 1
      /\ \A i \in 1 .. (n - 1) : boots'[i] = boots[i]
  <2>1. boots \in Seq(Calls) /\ 1 \in 1 .. (n + 1) /\ n - 1 \in 0 .. n
    BY <1>2 DEF TypeOK
  <2> QED BY <1>1, <1>2, <2>1, SubSeqProperties
<1>7. DOMAIN boots' = 1 .. (n - 1)
  BY <1>6, LenProperties
<1>8. \A i \in 1 .. (n - 1) : i \in DOMAIN boots /\ i < n
  BY <1>2
<1>9. \A i \in 1 .. (n - 1) : old[boots[i].loader] # NoDevice =>
        /\ old[boots[i].loader] \in table'.live
        /\ table'.no[old[boots[i].loader]] = NoAddress
  BY <1>1, <1>4, <1>8, BelowTop
<1>10. CallsFit'
  <2> SUFFICES ASSUME NEW i \in 1 .. (n - 1)
               PROVE  CallFits(boots[i], table', old, displaced)
    BY <1>1, <1>6, <1>7 DEF CallsFit
  <2>1. boots[i].pc = "dialog"
    BY <1>2, <1>8 DEF Nested
  <2>2. Aside(boots[i], table', old)
    BY <1>9 DEF Aside
  <2> QED BY <2>1, <2>2 DEF CallFits
<1>11. Nested'
  BY <1>1, <1>2, <1>6, <1>7, <1>8 DEF Nested
<1>12. Apart'
  <2>1. table'.live \cap Loaders = {boots[i].loader : i \in 1 .. (n - 1)}
    <3>1. table.live \cap Loaders = {boots[i].loader : i \in DOMAIN boots}
      BY <1>2 DEF Apart
    <3>2. \A i \in DOMAIN boots : i # n => boots[i].loader # g
      BY <1>2 DEF Apart
    <3>3. \A i \in DOMAIN boots : i = n \/ i \in 1 .. (n - 1)
      BY <1>2
    <3> QED BY <1>2, <1>4, <1>8, <3>1, <3>2, <3>3
  <2>2. table'.live \cap Loaders = {boots'[i].loader : i \in DOMAIN boots'}
    BY <1>6, <1>7, <2>1
  <2>3. ASSUME NEW i \in 1 .. (n - 1), NEW j \in 1 .. (n - 1)
        PROVE  /\ i # j => boots'[i].loader # boots'[j].loader
               /\ i # j /\ old'[boots'[i].loader] # NoDevice =>
                    old'[boots'[i].loader] # old'[boots'[j].loader]
               /\ old'[boots'[i].loader] = boots'[j].loader => j < i
    <3>1. boots'[i] = boots[i] /\ boots'[j] = boots[j] /\ i \in DOMAIN boots /\ j \in DOMAIN boots
      BY <1>6, <1>8
    <3> QED BY <1>1, <1>2, <3>1 DEF Apart
  <2>4. \A i, j \in DOMAIN boots' :
          /\ i # j => boots'[i].loader # boots'[j].loader
          /\ i # j /\ old'[boots'[i].loader] # NoDevice =>
               old'[boots'[i].loader] # old'[boots'[j].loader]
          /\ old'[boots'[i].loader] = boots'[j].loader => j < i
    BY <1>7, <2>3
  <2> QED BY <2>2, <2>4 DEF Apart
<1>13. MountFits'
  BY <1>1, <1>2 DEF MountFits, NoMount
<1>14. Served'
  <2>1. \A i \in DOMAIN serving : serving[i] # g /\ serving[i] \in Device
    BY <1>1, Forgotten, Shape
  <2>2. \A i \in DOMAIN serving : /\ serving[i] \in table'.live
                                  /\ table'.no[serving[i]] = table.no[serving[i]]
    BY <1>2, <1>4, <2>1 DEF Served
  <2>3. serving # <<>> => 1 \in DOMAIN serving
    BY Shape, EmptySeq DEF TypeOK
  <2> QED BY <1>1, <1>2, <2>2, <2>3 DEF Served
<1>15. (displaced \/ Sheltered)'
  <2> SUFFICES ASSUME ~displaced, NEW d \in Images \cap table'.live, table'.no[d] = NoAddress
               PROVE  \E i \in DOMAIN boots' : old'[boots'[i].loader] = d
    BY <1>1 DEF Sheltered
  <2>1. d # g /\ d \in Device /\ d # NoDevice
    BY <1>2, <1>3
  <2>2. table.no[d] = NoAddress /\ d \in table.live
    BY <1>4, <2>1
  <2>3. PICK i \in DOMAIN boots : old[boots[i].loader] = d
    BY <1>2, <2>2 DEF Sheltered, NoMount
  <2>4. i # n
    BY <1>2, <2>1, <2>2, <2>3, Distinct DEF CallFits, Address
  <2>5. i \in 1 .. (n - 1)
    BY <1>2, <2>4
  <2> QED BY <1>1, <1>6, <1>7, <2>3, <2>5
<1>16. TypeOK'
  <2>1. posted' \in 0 .. MaxPosted
    BY <1>1, Distinct DEF TypeOK
  <2>2. done' \subseteq Loaders
    BY <1>1 DEF TypeOK
  <2> QED BY <1>1, <1>4, <1>5, <1>6, <2>1, <2>2 DEF TypeOK
<1> QED BY <1>4, <1>5, <1>10, <1>11, <1>12, <1>13, <1>14, <1>15, <1>16

-----------------------------------------------------------------------------
(***************************************************************************)
(* mountFile.                                                              *)
(***************************************************************************)
\* Above dialogs, and leaving alone what they keep aside.
LEMMA AsideKept ==
  ASSUME Inv, ~raced, \A i \in DOMAIN boots : boots[i].pc = "dialog",
         UNCHANGED <<old, boots, displaced>>,
         table'.live \cap Loaders = table.live \cap Loaders,
         \A i \in DOMAIN boots :
           old[boots[i].loader] \in table.live /\ table.no[old[boots[i].loader]] = NoAddress =>
             old[boots[i].loader] \in table'.live /\ table'.no[old[boots[i].loader]] = NoAddress
  PROVE  CallsFit' /\ Apart'
<1> USE DEF Inv, Good
<1>1. CallsFit'
  <2> SUFFICES ASSUME NEW i \in DOMAIN boots PROVE CallFits(boots[i], table', old, displaced)
    BY DEF CallsFit
  <2>1. Aside(boots[i], table, old) /\ boots[i].pc = "dialog"
    BY DEF CallsFit, CallFits
  <2>2. Aside(boots[i], table', old)
    BY <2>1 DEF Aside
  <2> QED BY <2>1, <2>2 DEF CallFits
<1>2. Apart'
  BY DEF Apart
<1> QED BY <1>1, <1>2

\* In the middle of mountFile.
LEMMA AtMount ==
  ASSUME Inv, NEW l \in {"get", "eject", "delete", "install"}, MountAt(l)
  PROVE  /\ ~raced /\ ~fault /\ mnt.pc = l
         /\ mnt.no \in Slots /\ mnt.disk \in Images /\ mnt.img \in Images \cup {NoDevice}
         /\ \A i \in DOMAIN boots :
              /\ boots[i].pc = "dialog" /\ boots[i].loader \in Loaders
              /\ old[boots[i].loader] # NoDevice =>
                   /\ old[boots[i].loader] \in Device
                   /\ old[boots[i].loader] \in table.live
                   /\ table.no[old[boots[i].loader]] = NoAddress
         /\ Loose(mnt.disk, table, old, boots)
         /\ UNCHANGED <<old, boots, posted, named, done, serving>>
<1> USE DEF Inv, Good
<1>1. /\ ~raced /\ ~fault /\ mnt.pc = l
      /\ UNCHANGED <<old, boots, posted, named, done, serving>>
  BY DEF MountAt, Running
<1>2. mnt.no \in Slots /\ mnt.img \in Images \cup {NoDevice}
  BY DEF TypeOK
<1>3. Loose(mnt.disk, table, old, boots)
  BY <1>1 DEF MountFits
<1>4. ASSUME NEW i \in DOMAIN boots
      PROVE  /\ boots[i].pc = "dialog" /\ boots[i].loader \in Loaders
             /\ old[boots[i].loader] # NoDevice =>
                  /\ old[boots[i].loader] \in Device
                  /\ old[boots[i].loader] \in table.live
                  /\ table.no[old[boots[i].loader]] = NoAddress
  <2>1. boots[i].pc = "dialog"
    BY <1>1 DEF Nested
  <2>2. CallFits(boots[i], table, old, displaced) /\ boots[i].loader \in Loaders
        /\ old[boots[i].loader] \in Device \cup {NoDevice}
    BY <1>1, Shape DEF CallsFit
  <2> QED BY <2>1, <2>2 DEF CallFits, Aside
<1> QED BY <1>1, <1>2, <1>3, <1>4 DEF Loose

LEMMA BeginMountKeeps ==
  ASSUME Inv, NEW no \in Slots, NEW d \in Images, BeginMount(no, d)
  PROVE  Inv'
<1> USE DEF Inv, Good
<1>1. /\ ~raced /\ ~fault /\ Loop /\ d \notin table.live
      /\ table' = [table EXCEPT !.live = @ \cup {d}]
      /\ mnt' = [NoMount EXCEPT !.pc = "get", !.no = no, !.disk = d]
      /\ UNCHANGED <<old, boots, posted, named, done, serving, modified, history>>
  BY DEF BeginMount, MountAt, Running
<1>2. mnt'.pc = "get" /\ mnt'.no = no /\ mnt'.disk = d /\ mnt'.img = NoDevice
      /\ mnt' = [pc |-> "get", no |-> no, disk |-> d, img |-> NoDevice]
  BY <1>1 DEF NoMount
<1>3. /\ mnt = NoMount /\ mnt.pc = "none"
      /\ \A i \in DOMAIN boots : boots[i].pc = "dialog"
  BY <1>1, InDialogs DEF NoMount
<1>4. d \in Device /\ Images \cap Loaders = {} /\ NoDevice \notin Device /\ table.live \subseteq Device
  BY Distinct DEF Device, TypeOK, Tables
<1>5. /\ table' \in Tables /\ Consistent(table') /\ table.no[d] = NoAddress
      /\ table'.dev = table.dev /\ table'.no = table.no /\ table'.live = table.live \cup {d}
  BY <1>1, <1>4, NewDevice DEF TypeOK, Tables
<1>6. CallsFit' /\ Apart'
  BY <1>1, <1>3, <1>4, <1>5, AsideKept DEF history
<1>7. Nested'
  BY <1>1, <1>2, <1>3 DEF Nested
<1>8. MountFits'
  <2>1. \A i \in DOMAIN boots : old[boots[i].loader] # d
    <3> SUFFICES ASSUME NEW i \in DOMAIN boots PROVE old[boots[i].loader] # d
      OBVIOUS
    <3>1. Aside(boots[i], table, old)
      BY <1>1, <1>3 DEF CallsFit, CallFits
    <3> QED BY <1>1, <1>4, <3>1 DEF Aside
  <2>2. Loose(mnt'.disk, table', old', boots')
    BY <1>1, <1>2, <1>5, <2>1 DEF Loose
  <2> QED BY <1>2, <2>2 DEF MountFits
<1>9. Served'
  BY <1>1, <1>5 DEF Served, history
<1>10. (displaced \/ Sheltered)'
  BY <1>1, <1>2, <1>3, <1>5 DEF Sheltered, history
<1>11. TypeOK'
  <2>1. mnt' \in [pc : {"none", "get", "eject", "delete", "install"}, no : Slots,
                  disk : Images \cup {NoDevice}, img : Images \cup {NoDevice}]
    BY <1>2
  <2> QED BY <1>1, <1>5, <2>1 DEF TypeOK, history
<1>12. (~fault)' /\ Consistent(table)'
  BY <1>1, <1>5 DEF history
<1> QED BY <1>6, <1>7, <1>8, <1>9, <1>10, <1>11, <1>12

LEMMA GetImgKeeps == ASSUME Inv, GetImg PROVE Inv'
<1> USE DEF Inv, Good
<1> DEFINE e == IF table.dev[mnt.no] \in Images THEN table.dev[mnt.no] ELSE NoDevice
<1>1. /\ MountAt("get") /\ serving = <<>> /\ mnt' = [mnt EXCEPT !.pc = "eject", !.img = e]
      /\ UNCHANGED <<table, modified, history>>
  BY DEF GetImg, MutexFree
<1>2. /\ ~raced /\ ~fault /\ mnt.pc = "get"
      /\ \A i \in DOMAIN boots : boots[i].pc = "dialog"
      /\ Loose(mnt.disk, table, old, boots)
      /\ UNCHANGED <<old, boots, posted, named, done, serving>>
  BY <1>1, AtMount
<1>3. e \in Images \cup {NoDevice}
  OBVIOUS
<1> HIDE DEF e
<1>4. /\ mnt' \in [pc : {"none", "get", "eject", "delete", "install"}, no : Slots,
                   disk : Images \cup {NoDevice}, img : Images \cup {NoDevice}]
      /\ mnt'.pc = "eject" /\ mnt'.no = mnt.no /\ mnt'.disk = mnt.disk /\ mnt'.img = e
  BY <1>1, <1>3 DEF TypeOK
<1>5. CallsFit' /\ Apart'
  BY <1>1, <1>2 DEF CallsFit, Apart, history
<1>6. Nested'
  BY <1>2, <1>4 DEF Nested
<1>7. MountFits'
  BY <1>1, <1>2, <1>4 DEF MountFits, e
<1>8. Served'
  BY <1>1, <1>2 DEF Served, history
<1>9. (displaced \/ Sheltered)'
  BY <1>1, <1>2, <1>4 DEF Sheltered, history
<1>10. TypeOK'
  BY <1>1, <1>2, <1>4 DEF TypeOK, history
<1>11. (~fault)' /\ Consistent(table)'
  BY <1>1, <1>2 DEF history
<1> QED BY <1>5, <1>6, <1>7, <1>8, <1>9, <1>10, <1>11

LEMMA EjectKeeps == ASSUME Inv, Eject PROVE Inv'
<1> USE DEF Inv, Good
<1> DEFINE l == IF mnt.img = NoDevice THEN "install" ELSE "delete"
<1>1. /\ MountAt("eject") /\ serving = <<>> /\ table' = Uninstall(table, mnt.no)
      /\ mnt' = [mnt EXCEPT !.pc = l] /\ UNCHANGED <<modified, history>>
  BY DEF Eject, MutexFree
<1>2. /\ ~raced /\ ~fault /\ mnt.pc = "eject" /\ mnt.no \in Slots
      /\ \A i \in DOMAIN boots :
           /\ boots[i].pc = "dialog"
           /\ old[boots[i].loader] # NoDevice =>
                /\ old[boots[i].loader] \in Device
                /\ old[boots[i].loader] \in table.live
                /\ table.no[old[boots[i].loader]] = NoAddress
      /\ Loose(mnt.disk, table, old, boots)
      /\ UNCHANGED <<old, boots, posted, named, done, serving>>
  BY <1>1, AtMount
<1>3. /\ table \in Tables /\ Consistent(table) /\ mnt.no \in Address
      /\ table.live \subseteq Device /\ Images \subseteq Device
      /\ NoDevice \notin Device /\ NoAddress \notin Address
  BY <1>2, Distinct DEF TypeOK, Tables, Device, Address
<1>4. /\ table' \in Tables /\ Consistent(table') /\ table'.live = table.live
      /\ table'.dev = [table.dev EXCEPT ![mnt.no] = NoDevice]
      /\ \A d \in Device : table'.no[d] = IF d = table.dev[mnt.no] THEN NoAddress ELSE table.no[d]
  <2> DEFINE u == Uninstall(table, mnt.no)
  <2>1. /\ u \in Tables /\ Consistent(u) /\ u.live = table.live
        /\ u.dev = [table.dev EXCEPT ![mnt.no] = NoDevice]
        /\ \A d \in Device : u.no[d] = IF d = table.dev[mnt.no] THEN NoAddress ELSE table.no[d]
    BY <1>3, UninstallTable
  <2>2. table' = u
    BY <1>1
  <2> HIDE DEF u
  <2> QED BY <2>1, <2>2
<1>5. table'.dev[mnt.no] = NoDevice
  BY <1>3, <1>4 DEF Tables
<1>6. l \in {"install", "delete"} /\ (l = "delete" <=> mnt.img # NoDevice)
  OBVIOUS
<1> HIDE DEF l
<1>7. /\ mnt' \in [pc : {"none", "get", "eject", "delete", "install"}, no : Slots,
                   disk : Images \cup {NoDevice}, img : Images \cup {NoDevice}]
      /\ mnt'.pc = l /\ mnt'.no = mnt.no /\ mnt'.disk = mnt.disk /\ mnt'.img = mnt.img
  BY <1>1, <1>6 DEF TypeOK
<1>8. CallsFit' /\ Apart'
  <2>1. \A d \in table.live : table.no[d] = NoAddress => d \in table'.live /\ table'.no[d] = NoAddress
    BY <1>3, <1>4
  <2> QED BY <1>1, <1>2, <1>4, <2>1, AsideKept DEF history
<1>9. Nested'
  BY <1>2, <1>6, <1>7 DEF Nested
<1>10. mnt.img = IF table.dev[mnt.no] \in Images THEN table.dev[mnt.no] ELSE NoDevice
  BY <1>2 DEF MountFits
<1>11. MountFits'
  <2>1. Loose(mnt.disk, table', old, boots)
    BY <1>2, <1>3, <1>4 DEF Loose
  <2>2. ASSUME l = "delete" PROVE Loose(mnt.img, table', old, boots) /\ mnt.img # mnt.disk
    <3>1. mnt.img \in Images /\ mnt.img = table.dev[mnt.no]
      BY <1>6, <1>10, <2>2
    <3>2. mnt.img \in table.live /\ table.no[mnt.img] # NoAddress /\ table'.no[mnt.img] = NoAddress
      BY <1>2, <1>3, <1>4, <3>1, Occupant
    <3>3. \A i \in DOMAIN boots : old[boots[i].loader] # mnt.img
      BY <1>2, <1>3, <3>1, <3>2
    <3> QED BY <1>2, <1>4, <3>1, <3>2, <3>3 DEF Loose
  <2> QED BY <1>2, <1>5, <1>6, <1>7, <2>1, <2>2 DEF MountFits
<1>12. Served'
  BY <1>1, <1>2 DEF Served
<1>13. (displaced \/ Sheltered)'
  <2> SUFFICES ASSUME Sheltered, NEW d \in Images \cap table'.live, table'.no[d] = NoAddress
               PROVE  \/ \E i \in DOMAIN boots : old[boots[i].loader] = d
                      \/ d = mnt.disk
                      \/ l = "delete" /\ d = mnt.img
    BY <1>1, <1>2, <1>6, <1>7 DEF Sheltered, history
  <2>1. CASE d = table.dev[mnt.no]
    <3>1. mnt.img = d /\ d # NoDevice
      BY <1>3, <1>10, <2>1
    <3> QED BY <1>6, <3>1
  <2>2. CASE d # table.dev[mnt.no]
    <3>1. table.no[d] = NoAddress /\ d \in table.live
      BY <1>3, <1>4, <2>2
    <3> QED BY <1>2, <3>1 DEF Sheltered
  <2> QED BY <2>1, <2>2
<1>14. TypeOK'
  BY <1>1, <1>2, <1>4, <1>7 DEF TypeOK, history
<1>15. (~fault)' /\ Consistent(table)'
  BY <1>1, <1>2, <1>4 DEF history
<1> QED BY <1>8, <1>9, <1>11, <1>12, <1>13, <1>14, <1>15

LEMMA DeleteImgKeeps == ASSUME Inv, DeleteImg PROVE Inv'
<1> USE DEF Inv, Good
<1> DEFINE g == mnt.img
<1>1. /\ MountAt("delete") /\ table' = Delete(table, g)
      /\ modified' = modified \ {g}
      /\ fault' = (g \notin table.live \/ NoDevice \in Loaders)
      /\ mnt' = [mnt EXCEPT !.pc = "install"]
      /\ UNCHANGED <<raced, displaced>>
  BY DEF DeleteImg, Use
<1>2. /\ ~raced /\ ~fault /\ mnt.pc = "delete" /\ mnt.no \in Slots
      /\ \A i \in DOMAIN boots :
           /\ boots[i].pc = "dialog" /\ boots[i].loader \in Loaders
           /\ old[boots[i].loader] # NoDevice =>
                /\ old[boots[i].loader] \in Device
                /\ old[boots[i].loader] \in table.live
                /\ table.no[old[boots[i].loader]] = NoAddress
      /\ Loose(mnt.disk, table, old, boots)
      /\ UNCHANGED <<old, boots, posted, named, done, serving>>
  BY <1>1, AtMount
<1>3. Loose(g, table, old, boots) /\ g # mnt.disk /\ table.dev[mnt.no] = NoDevice
  BY <1>2 DEF MountFits
<1>4. /\ table \in Tables /\ Consistent(table) /\ mnt.no \in Address
      /\ table.live \subseteq Device /\ Images \subseteq Device
      /\ NoDevice \notin Device /\ Images \cap Loaders = {} /\ NoDevice \notin Loaders
      /\ g \in Images /\ g \in Device /\ g \in table.live /\ table.no[g] = NoAddress
  BY <1>2, <1>3, Distinct DEF Loose, TypeOK, Tables, Device, Address
<1>5. /\ table' \in Tables /\ Consistent(table') /\ table'.live = table.live \ {g}
      /\ table'.dev = [a \in Address |-> IF table.dev[a] = g THEN NoDevice ELSE table.dev[a]]
      /\ \A e \in Device : table'.no[e] = IF e = g THEN NoAddress ELSE table.no[e]
  <2> DEFINE u == Delete(table, g)
  <2>1. /\ u \in Tables /\ Consistent(u) /\ u.live = table.live \ {g}
        /\ u.dev = [a \in Address |-> IF table.dev[a] = g THEN NoDevice ELSE table.dev[a]]
        /\ \A e \in Device : u.no[e] = IF e = g THEN NoAddress ELSE table.no[e]
    BY <1>4, DeleteTable
  <2>2. table' = u
    BY <1>1
  <2> HIDE DEF u, g
  <2> QED BY <2>1, <2>2
<1>6. table'.dev[mnt.no] = NoDevice
  BY <1>3, <1>4, <1>5
<1>7. fault' = FALSE
  <2>1. ~ (g \notin table.live \/ NoDevice \in Loaders)
    BY <1>4
  <2> QED BY <1>1, <2>1, Zenon
<1>8. /\ mnt' \in [pc : {"none", "get", "eject", "delete", "install"}, no : Slots,
                   disk : Images \cup {NoDevice}, img : Images \cup {NoDevice}]
      /\ mnt'.pc = "install" /\ mnt'.no = mnt.no /\ mnt'.disk = mnt.disk
  BY <1>1 DEF TypeOK
<1> HIDE DEF g
<1>9. CallsFit' /\ Apart'
  <2>1. table'.live \cap Loaders = table.live \cap Loaders
    BY <1>4, <1>5
  <2>2. \A i \in DOMAIN boots : old[boots[i].loader] # g
    BY <1>3 DEF Loose
  <2>3. \A d \in table.live : d # g /\ table.no[d] = NoAddress =>
          d \in table'.live /\ table'.no[d] = NoAddress
    BY <1>4, <1>5
  <2> QED BY <1>1, <1>2, <2>1, <2>2, <2>3, AsideKept
<1>10. Nested'
  BY <1>2, <1>8 DEF Nested
<1>11. MountFits'
  <2>1. Loose(mnt.disk, table', old, boots)
    BY <1>2, <1>3, <1>4, <1>5 DEF Loose
  <2> QED BY <1>2, <1>6, <1>8, <2>1 DEF MountFits
<1>12. Served'
  <2>1. ASSUME NEW i \in DOMAIN serving PROVE serving[i] # g
    <3>1. i \in 1 .. Len(serving) /\ DOMAIN serving = 1 .. Len(serving) /\ Len(serving) \in Nat
      BY Shape
    <3>2. serving # <<>>
      BY <3>1
    <3>3. CASE i = 1
      BY <1>2, <1>4, <3>2, <3>3 DEF Served
    <3>4. CASE i > 1
      <4>1. i - 1 \in DOMAIN serving /\ serving[i - 1] \in Loaders /\ serving[i] = old[serving[i - 1]]
        BY <1>2, <3>1, <3>4 DEF Served
      <4>2. serving[i - 1] \in table.live
        BY <1>2, <4>1 DEF Served
      <4>3. PICK j \in DOMAIN boots : serving[i - 1] = boots[j].loader
        BY <1>2, <4>1, <4>2 DEF Apart
      <4> QED BY <1>3, <4>1, <4>3 DEF Loose
    <3> QED BY <3>1, <3>3, <3>4
  <2>2. \A i \in DOMAIN serving : /\ serving[i] \in table'.live
                                  /\ table'.no[serving[i]] = table.no[serving[i]]
    BY <1>2, <1>5, <2>1, Shape DEF Served
  <2>3. serving # <<>> => 1 \in DOMAIN serving
    BY Shape, EmptySeq DEF TypeOK
  <2> QED BY <1>1, <1>2, <2>2, <2>3 DEF Served
<1>13. (displaced \/ Sheltered)'
  <2> SUFFICES ASSUME Sheltered, NEW d \in Images \cap table'.live, table'.no[d] = NoAddress
               PROVE  \/ \E i \in DOMAIN boots : old[boots[i].loader] = d
                      \/ d = mnt.disk
    BY <1>1, <1>2, <1>8 DEF Sheltered
  <2>1. d # g /\ d \in Device /\ d \in table.live
    BY <1>4, <1>5
  <2>2. table.no[d] = NoAddress
    BY <1>5, <2>1
  <2> QED BY <1>2, <2>1, <2>2 DEF Sheltered, g
<1>14. TypeOK'
  <2>1. modified' \subseteq Images
    BY <1>1 DEF TypeOK
  <2> QED BY <1>1, <1>2, <1>5, <1>7, <1>8, <2>1 DEF TypeOK
<1> QED BY <1>5, <1>7, <1>9, <1>10, <1>11, <1>12, <1>13, <1>14

LEMMA InstallDiskKeeps == ASSUME Inv, InstallDisk PROVE Inv'
<1> USE DEF Inv, Good
<1> DEFINE d == mnt.disk
           a == mnt.no
<1>1. /\ MountAt("install") /\ serving = <<>> /\ table' = Install(table, a, d)
      /\ modified' = modified \ {table.dev[a]}
      /\ fault' = (d \notin table.live \/ table.dev[a] \in Loaders)
      /\ mnt' = NoMount /\ UNCHANGED <<raced, displaced>>
  BY DEF InstallDisk, Use, MutexFree
<1>2. /\ ~raced /\ ~fault /\ mnt.pc = "install" /\ a \in Slots
      /\ \A i \in DOMAIN boots :
           /\ boots[i].pc = "dialog" /\ boots[i].loader \in Loaders
           /\ old[boots[i].loader] # NoDevice =>
                /\ old[boots[i].loader] \in Device
                /\ old[boots[i].loader] \in table.live
                /\ table.no[old[boots[i].loader]] = NoAddress
      /\ Loose(d, table, old, boots)
      /\ UNCHANGED <<old, boots, posted, named, done, serving>>
  BY <1>1, AtMount
<1>3. /\ table \in Tables /\ Consistent(table) /\ a \in Address
      /\ table.live \subseteq Device /\ Images \subseteq Device
      /\ NoDevice \notin Device /\ NoDevice \notin Loaders /\ NoAddress \notin Address
      /\ d \in Device /\ d \in table.live /\ table.no[d] = NoAddress /\ table.dev[a] = NoDevice
  BY <1>2, Distinct DEF MountFits, Loose, TypeOK, Tables, Device, Address
<1> HIDE DEF d, a
<1>4. /\ table' \in Tables /\ Consistent(table') /\ table'.live = table.live
      /\ \A e \in Device : table'.no[e] = IF e = d THEN a ELSE table.no[e]
  <2> HIDE DEF Inv, Good
  <2>1. PICK u : u = Install(table, a, d)
    OBVIOUS
  <2>2. /\ u \in Tables /\ Consistent(u) /\ u.live = table.live
        /\ u.dev = [table.dev EXCEPT ![a] = d]
        /\ \A e \in Device : u.no[e] = IF e = d THEN a ELSE table.no[e]
    BY <1>3, <2>1, InstallEmpty, SMTT(30)
  <2>3. table' = u
    BY <1>1, <2>1
  <2> QED BY <2>2, <2>3
<1>5. fault' = FALSE
  <2>1. ~ (d \notin table.live \/ table.dev[a] \in Loaders)
    BY <1>3
  <2> QED BY <1>1, <2>1, Zenon
<1>6. NoMount.pc = "none"
  BY DEF NoMount
<1>7. CallsFit' /\ Apart'
  <2>1. \A i \in DOMAIN boots : old[boots[i].loader] # d
    BY <1>2 DEF Loose
  <2>2. \A e \in table.live : e # d /\ table.no[e] = NoAddress =>
          e \in table'.live /\ table'.no[e] = NoAddress
    BY <1>3, <1>4
  <2> QED BY <1>1, <1>2, <1>4, <2>1, <2>2, AsideKept
<1>8. Nested'
  BY <1>1, <1>2, <1>6 DEF Nested
<1>9. MountFits'
  BY <1>1, <1>6 DEF MountFits
<1>10. Served'
  BY <1>1, <1>2 DEF Served
<1>11. (displaced \/ Sheltered)'
  <2> SUFFICES ASSUME Sheltered, NEW e \in Images \cap table'.live, table'.no[e] = NoAddress
               PROVE  \E i \in DOMAIN boots : old[boots[i].loader] = e
    BY <1>1, <1>2 DEF Sheltered
  <2>1. e # d /\ table.no[e] = NoAddress /\ e \in table.live
    BY <1>3, <1>4
  <2> QED BY <1>2, <2>1 DEF Sheltered, d
<1>12. TypeOK'
  <2>1. modified' \subseteq Images
    BY <1>1 DEF TypeOK
  <2>2. mnt' \in [pc : {"none", "get", "eject", "delete", "install"}, no : Slots,
                  disk : Images \cup {NoDevice}, img : Images \cup {NoDevice}]
    BY <1>1, Distinct DEF NoMount
  <2> QED BY <1>1, <1>2, <1>4, <1>5, <2>1, <2>2 DEF TypeOK
<1> QED BY <1>4, <1>5, <1>7, <1>8, <1>9, <1>10, <1>11, <1>12

-----------------------------------------------------------------------------
(***************************************************************************)
(* Initially and in every step.                                            *)
(***************************************************************************)
LEMMA InitInv == Init => Inv
<1> SUFFICES ASSUME Init PROVE Inv
  OBVIOUS
<1>1. /\ table \in Tables /\ Consistent(table)
      /\ table.live = {table.dev[a] : a \in Installed(table)} /\ table.live \subseteq Images
      /\ modified \subseteq Images
      /\ old = [l \in Loaders |-> NoDevice]
      /\ boots = <<>> /\ mnt = NoMount /\ posted = 0 /\ named = FALSE /\ done = {}
      /\ serving = <<>> /\ raced = FALSE /\ displaced = FALSE /\ fault = FALSE
  BY DEF Init
<1>2. boots \in Seq(Calls) /\ serving \in Seq(Device) /\ DOMAIN boots = {} /\ DOMAIN serving = {}
  BY <1>1, EmptySeq
<1>3. mnt \in [pc : {"none", "get", "eject", "delete", "install"}, no : Slots,
               disk : Images \cup {NoDevice}, img : Images \cup {NoDevice}] /\ mnt.pc = "none"
  BY <1>1, Distinct DEF NoMount
<1>4. TypeOK
  <2>1. posted \in 0 .. MaxPosted
    BY <1>1, Distinct
  <2>2. named \in BOOLEAN /\ raced \in BOOLEAN /\ displaced \in BOOLEAN /\ fault \in BOOLEAN
    BY <1>1, Zenon
  <2>3. old \in [Loaders -> Device \cup {NoDevice}] /\ done \subseteq Loaders
    BY <1>1
  <2> QED BY <1>1, <1>2, <1>3, <2>1, <2>2, <2>3 DEF TypeOK
<1>5. CallsFit /\ Nested /\ MountFits /\ Served
  BY <1>1, <1>2, <1>3 DEF CallsFit, Nested, MountFits, Served
<1>6. Apart
  <2>1. table.live \cap Loaders = {}
    BY <1>1, Distinct
  <2>2. {boots[i].loader : i \in DOMAIN boots} = {}
    BY <1>2
  <2> QED BY <1>2, <2>1, <2>2 DEF Apart
<1>7. Sheltered
  BY <1>1, Distinct DEF Sheltered, Consistent, Installed, Address
<1> QED BY <1>1, <1>4, <1>5, <1>6, <1>7 DEF Inv, Good

LEMMA NextInv == Inv /\ [Next]_vars => Inv'
<1> SUFFICES ASSUME Inv, [Next]_vars PROVE Inv'
  OBVIOUS
<1>1. CASE UNCHANGED vars
  BY <1>1 DEF vars, history, Inv, TypeOK, Good, CallsFit, Nested, Apart, MountFits, Served, Sheltered
<1>2. CASE Atari
  <2>1. ASSUME NEW a \in Slots, Dispatch(a) PROVE Inv'
    BY <2>1, DispatchKeeps
  <2>2. ASSUME NEW a \in Slots, NEW b \in Slots, RemoteSwap(a, b) PROVE Inv'
    BY <2>2, RemoteSwapKeeps
  <2>3. ASSUME NEW S \in {{a} : a \in Slots} \cup {Slots}, RemoteUnmount(S) PROVE Inv'
    BY <2>3, RemoteUnmountKeeps
  <2> QED BY <1>2, <2>1, <2>2, <2>3, PassToOldHandlerKeeps, BootExeTriggeredKeeps DEF Atari
<1>3. CASE Gui
  BY <1>3, UninstallOldKeeps, InstallLoaderKeeps, LoaderDoneKeeps, RemoveKeeps, RestoreKeeps,
     LeaveKeeps, GetImgKeeps, EjectKeeps, DeleteImgKeeps, InstallDiskKeeps DEF Gui
<1>4. CASE Events
  BY <1>4, BootExeKeeps, UserEndsKeeps, BeginMountKeeps DEF Events
<1>5. CASE Return
  BY <1>5, ReturnKeeps
<1>6. CASE Ended
  BY <1>1, <1>6 DEF Ended
<1> QED BY <1>1, <1>2, <1>3, <1>4, <1>5, <1>6 DEF Next

\* Whatever the Atari does while dialogs are open: until the worker gets
\* between the steps of a handler, every handler finds what it left.
THEOREM CallsKept == Spec => []Inv
BY InitInv, NextInv, PTL DEF Spec

\* The variables keep their types.
THEOREM TypeCorrect == Spec => []TypeOK
<1>1. Inv => TypeOK
  BY DEF Inv
<1> QED BY <1>1, CallsKept, PTL

\* The drives hold only devices that exist, loaders live as long as their
\* calls, and no object is used or deleted that may not be.
THEOREM TableCorrect == Spec => []BootKeepsTable
<1>1. Inv => BootKeepsTable
  BY DEF Inv, Good, Apart, BootKeepsTable
<1> QED BY <1>1, CallsKept, PTL

\* A loader passes commands only to a device that exists and is in no drive.
THEOREM LivingCorrect == Spec => []PassedToLivingDevice
<1>1. Inv => PassedToLivingDevice
  BY DEF Inv, Good, Served, PassedToLivingDevice
<1> QED BY <1>1, CallsKept, PTL

\* When all dialogs are closed no image has dropped out of the drives.
THEOREM LostCorrect == Spec => []NothingLost
<1>1. Inv => NothingLost
  <2> SUFFICES ASSUME Inv, boots = <<>>, mnt = NoMount, ~raced, ~displaced,
                      NEW d \in Images \cap table.live
               PROVE  table.no[d] # NoAddress
    BY DEF NothingLost
  <2>1. DOMAIN boots = {} /\ mnt.pc = "none"
    BY DEF NoMount
  <2> QED BY <2>1 DEF Inv, Good, Sheltered
<1> QED BY <1>1, CallsKept, PTL
=============================================================================
