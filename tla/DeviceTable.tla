---------------------------- MODULE DeviceTable ----------------------------
(***************************************************************************)
(* The table of installed devices of class SioWorker                       *)
(* (src/src/sio/sioworker.cpp, include/sio/sioworker.h), as pure           *)
(* operators.  The code keeps                                              *)
(*   SioWorker::devices[256]   the device at each SIO address, or nullptr, *)
(*   SioDevice::m_deviceNo     the address each device believes it has, -1 *)
(*                             when it is not installed,                   *)
(* and the C++ heap decides which device objects still exist.  A table     *)
(* value is a record of the three:                                         *)
(*   dev[a]  devices[a], with NoDevice for nullptr,                        *)
(*   no[d]   d->m_deviceNo, with NoAddress for -1,                         *)
(*   live    the devices that have been constructed and not deleted.       *)
(* Every operator below runs with SioWorker::deviceMutex held in the code; *)
(* module SioDevices adds the threads.                                     *)
(***************************************************************************)
CONSTANTS Address,     \* SIO addresses the program uses
          Device,      \* device objects
          NoDevice,    \* nullptr
          NoAddress    \* m_deviceNo = -1

Tables == [dev  : [Address -> Device \cup {NoDevice}],
           no   : [Device -> Address \cup {NoAddress}],
           live : SUBSET Device]

\* The addresses a scan of devices[0..255] finds occupied.
Installed(t) == {a \in Address : t.dev[a] # NoDevice}

\* Defects: -1 stored in the table instead of nullptr; the device not told.
UninstallMinusOne(t, a) == [t EXCEPT !.dev[a] = NoAddress]

UninstallKeepsNo(t, a) == [t EXCEPT !.dev[a] = NoDevice]

\* SioWorker::uninstallDevice, up to the unlock of deviceMutex.
Uninstall(t, a) ==
  [t EXCEPT !.dev[a] = NoDevice,
            !.no = [d \in Device |-> IF d = t.dev[a] THEN NoAddress ELSE @[d]]]

\* `delete d`: ~SioDevice uninstalls whatever is at the address d believes
\* it has, then the object is gone.
Delete(t, d) ==
  LET u == IF t.no[d] = NoAddress THEN t ELSE Uninstall(t, t.no[d])
  IN  [u EXCEPT !.live = @ \ {d}]

\* SioWorker::installDevice, up to the unlock: an occupant is deleted.
Install(t, a, d) ==
  LET u == IF t.dev[a] = NoDevice THEN t ELSE Delete(t, t.dev[a])
  IN  [u EXCEPT !.dev[a] = d, !.no[d] = a]

\* Defect: the device at a is not put back.
SwapHalf(t, a, b) ==
  LET u == Uninstall(Uninstall(t, a), b)
  IN  IF t.dev[b] = NoDevice THEN u ELSE Install(u, a, t.dev[b])

\* SioWorker::swapDevices: both out, then each back in at the other address.
Swap(t, a, b) ==
  LET u == Uninstall(Uninstall(t, a), b)
      v == IF t.dev[b] = NoDevice THEN u ELSE Install(u, a, t.dev[b])
  IN  IF t.dev[a] = NoDevice THEN v ELSE Install(v, b, t.dev[a])

\* The table and the devices agree: what is installed exists and knows its
\* address, and a device that believes it has an address is the one there.
Consistent(t) ==
  /\ \A a \in Installed(t) : t.dev[a] \in t.live /\ t.no[t.dev[a]] = a
  /\ \A d \in Device : t.no[d] # NoAddress => t.dev[t.no[d]] = d
=============================================================================
