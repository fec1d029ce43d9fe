-------------------------- MODULE SioRecorderProofs --------------------------
(***************************************************************************)
(* Proofs about FrameReader and SioRecorder, for any limit of retries and  *)
(* any snapshots.                                                          *)
(*                                                                         *)
(* The reader: the frames missed so far, and those still to be missed      *)
(* before the port has the speed of the Atari, are at most two more than   *)
(* twice the bad frames.                                                   *)
(*                                                                         *)
(* The recorder: as long as replays and snapshots do not overlap, one      *)
(* invariant says whose the array is, and where a replay that has changed  *)
(* the setting is before it gives it back.                                 *)
(***************************************************************************)
EXTENDS SioRecorder, TLAPS

\* What the window, the thread and the port know of each other.
Books ==
  /\ gpc = "loop" => ~again /\ (~checked => wpc = "off")
  /\ gpc = "start" => again /\ wpc = "off"
  /\ gpc \in {"cancel", "join"} => mustTerminate /\ ~checked
  /\ wpc \in {"read", "record", "append"} => mPort = "Standard"
  /\ wpc \in {"pause", "take"} => mPort = "Test"
  /\ wpc # "off" => mPort # "None"
  /\ wpc = "reopen" => autoReconnect

\* A snapshot has its array, and no replay runs or is to run.
SnapshotAlone ==
  running => /\ data = "snapshot" /\ ~again
             /\ mPort = "Test" => wpc = "off" /\ ~checked /\ gpc = "loop"

\* The setting is the recorder only until the worker opens it, and the recorder
\* does not give back itself.
SettingAlone ==
  /\ previous # "Test"
  /\ backend = "Test" =>
       wpc = "open" /\ mPort = "Test" /\ previous = "Standard" /\ data = "none"

\* The array of no snapshot is the one that the worker replays.
ReplayAlone ==
  ~running /\ data # "none" => mPort = "Test" /\ wpc \notin {"off", "open"}

\* A replay that waits for the worker to stop knows the setting to give back.
WaitAlone ==
  again => /\ previous = "Standard" /\ ~checked
           /\ gpc \in {"cancel", "join"} => mPort = "Standard"

\* The worker replays from an array, unless it was taken away in one of the two
\* known ways.
ArrayAlone ==
  /\ mPort = "Test" /\ wpc \in {"loop", "pause", "take", "got", "handle"} /\ data = "none"
       => mustTerminate \/ autoReconnect
  /\ wpc = "crashed" => mustTerminate \/ autoReconnect \/ mPort = "Standard"

Alone == SnapshotAlone /\ SettingAlone /\ ReplayAlone /\ WaitAlone /\ ArrayAlone

IInv == TypeOK /\ Books /\ (~mixed => Alone)

-----------------------------------------------------------------------------
(* Types.                                                                  *)

\* What a step of the reader leaves of its types.
LEMMA ReaderKeepsType ==
  ASSUME ReaderTypeOK,
         NormalSpeed \/ Begin \/ Hear \/ Miss \/ Turn \/ UNCHANGED reader
  PROVE  ReaderTypeOK'
<1> USE RetriesAssumption DEF ReaderTypeOK
<1>1. CASE NormalSpeed BY <1>1 DEF NormalSpeed
<1>2. CASE Begin \/ Hear BY <1>2 DEF Begin, Hear
<1>3. CASE Miss
  <2>1. high' \in BOOLEAN /\ line' = line
    BY <1>3 DEF Miss, OtherSpeed
  <2>2. retries' \in {0, 1}
    BY <1>3 DEF Miss, Count
  <2>3. total' \in 0..MaxRetries /\ noise' \in Nat
    BY <1>3 DEF Miss
  <2> QED BY <2>1, <2>2, <2>3
<1>4. CASE Turn BY <1>4 DEF Turn
<1>5. CASE UNCHANGED reader BY <1>5 DEF reader
<1> QED BY <1>1, <1>2, <1>3, <1>4, <1>5

LEMMA CancelKeepsType ==
  ASSUME TypeOK, CancelTape
  PROVE  /\ data' = "none" /\ items' = <<>> /\ previous' = "None"
         /\ backend' \in {"Standard", "Test"}
         /\ UNCHANGED <<index, running, tape>>
BY DEF TypeOK, PlacesTypeOK, CancelTape

LEMMA LoadKeepsType ==
  ASSUME TypeOK, LoadTape
  PROVE  /\ data' \in {"none", "snapshot", "replay"}
         /\ items' \in Tapes \cup {<<>>}
         /\ index' \in Nat
         /\ previous' \in {"None", "Standard", "Test"}
         /\ backend' \in {"Standard", "Test"}
         /\ UNCHANGED <<running, tape>>
BY DEF TypeOK, PlacesTypeOK, LoadTape, CloseFirst

LEMMA WorkerKeepsType == ASSUME TypeOK, WorkerNext PROVE TypeOK'
<1> USE DEF TypeOK, FlagsTypeOK, PlacesTypeOK, Worker, Quiet, recorder, gui
<1>1. CASE OpenPort BY <1>1, ReaderKeepsType, LoadKeepsType DEF OpenPort
<1>2. CASE Loop BY <1>2, ReaderKeepsType DEF Loop
<1>3. CASE ReadFrame BY <1>3, ReaderKeepsType DEF ReadFrame
<1>4. CASE ReadDamaged BY <1>4, ReaderKeepsType DEF ReadDamaged
<1>5. CASE ReadFails BY <1>5, ReaderKeepsType DEF ReadFails
<1>6. CASE TurnSpeed BY <1>6, ReaderKeepsType DEF TurnSpeed
<1>7. CASE Record BY <1>7, ReaderKeepsType DEF Record, AfterFrame
<1>8. CASE Push BY <1>8, ReaderKeepsType DEF Push, AfterFrame
<1>9. CASE Pause BY <1>9, ReaderKeepsType DEF Pause, NoFrame
<1>10. CASE Take BY <1>10, ReaderKeepsType DEF Take, NoFrame, AfterFrame
<1>11. CASE Got BY <1>11, ReaderKeepsType DEF Got
<1>12. CASE HandleData BY <1>12, ReaderKeepsType DEF HandleData
<1>13. CASE Handled BY <1>13, ReaderKeepsType DEF Handled
<1>14. CASE Lost BY <1>14, ReaderKeepsType, CancelKeepsType DEF Lost
<1>15. CASE ReopenPort BY <1>15, ReaderKeepsType, LoadKeepsType DEF ReopenPort
<1>16. CASE ClosePort BY <1>16, ReaderKeepsType, CancelKeepsType DEF ClosePort
<1> QED BY <1>1, <1>2, <1>3, <1>4, <1>5, <1>6, <1>7, <1>8, <1>9, <1>10, <1>11,
           <1>12, <1>13, <1>14, <1>15, <1>16 DEF WorkerNext

\* The flags of the GUI's steps.
LEMMA FlagsKeepType == ASSUME TypeOK, GuiNext PROVE FlagsTypeOK'
BY Zenon DEF TypeOK, FlagsTypeOK, GuiNext, ClickStart, ClickStop, CancelPort, CancelTape,
   Join, SioFinished, StartSnapshot, StopSnapshot, StopSIOSnapshot, Replay, StartReplay,
   StartThread, StopThread, Gui, recorder

LEMMA GuiKeepsType == ASSUME TypeOK, GuiNext PROVE TypeOK'
<1>1. ReaderTypeOK'
  <2>1. UNCHANGED reader
    BY Zenon DEF GuiNext, ClickStart, ClickStop, CancelPort, Join, SioFinished,
       StartSnapshot, StopSnapshot, Replay, StartReplay, Gui
  <2> QED BY <2>1, ReaderKeepsType DEF TypeOK
<1>2. PlacesTypeOK'
  <2> USE DEF TypeOK, PlacesTypeOK, Gui, recorder
  <2>1. CASE ClickStart BY <2>1 DEF ClickStart, StartThread
  <2>2. CASE ClickStop BY <2>2 DEF ClickStop, StopThread
  <2>3. CASE CancelPort BY <2>3, CancelKeepsType DEF CancelPort
  <2>4. CASE Join BY <2>4 DEF Join
  <2>5. CASE SioFinished BY <2>5 DEF SioFinished
  <2>6. CASE StartSnapshot BY <2>6 DEF StartSnapshot
  <2>7. CASE StopSnapshot
    <3>1. running' \in BOOLEAN
      BY <2>7 DEF StopSnapshot, StopSIOSnapshot
    <3>2. data' \in {data, "none"} /\ items' \in {items, <<>>}
      BY <2>7 DEF StopSnapshot, StopSIOSnapshot
    <3> QED BY <2>7, <3>1, <3>2 DEF StopSnapshot
  <2>8. ASSUME NEW t \in Tapes \cup {NoTape, BadTape}, Replay(t) PROVE PlacesTypeOK'
    BY <2>8 DEF Replay, StopThread
  <2>9. CASE StartReplay BY <2>9 DEF StartReplay, StartThread, StopThread
  <2> QED BY <2>1, <2>2, <2>3, <2>4, <2>5, <2>6, <2>7, <2>8, <2>9 DEF GuiNext
<1> QED BY <1>1, <1>2, FlagsKeepType DEF TypeOK

LEMMA RestartKeepsType == ASSUME TypeOK, Restart PROVE TypeOK'
<1>1. ReaderTypeOK'
  <2>1. high' \in BOOLEAN /\ line' \in BOOLEAN
    BY Zenon DEF Restart, TypeOK, ReaderTypeOK
  <2>2. retries' = 0 /\ total' = 0 /\ noise' = 0
    BY DEF Restart
  <2> QED BY <2>1, <2>2, RetriesAssumption DEF ReaderTypeOK
<1>2. FlagsTypeOK'
  BY Zenon DEF Restart, Start, TypeOK, FlagsTypeOK
<1>3. PlacesTypeOK'
  BY DEF Restart, Start, TypeOK, PlacesTypeOK
<1> QED BY <1>1, <1>2, <1>3 DEF TypeOK

LEMMA InitType == Init => TypeOK
<1> SUFFICES ASSUME Init PROVE TypeOK
  OBVIOUS
<1>1. high \in BOOLEAN /\ line \in BOOLEAN
  BY Zenon DEF Init, ReaderInit
<1>2. retries = 0 /\ total = 0 /\ noise = 0
  BY DEF Init, ReaderInit
<1>3. ReaderTypeOK
  BY <1>1, <1>2, RetriesAssumption DEF ReaderTypeOK
<1> QED BY <1>3 DEF Init, TypeOK, FlagsTypeOK, PlacesTypeOK

LEMMA NextType == TypeOK /\ [Next]_vars => TypeOK'
<1> SUFFICES ASSUME TypeOK, [Next]_vars PROVE TypeOK'
  OBVIOUS
<1>1. CASE UNCHANGED vars
  BY <1>1 DEF vars, reader, recorder, gui, TypeOK, ReaderTypeOK, FlagsTypeOK,
     PlacesTypeOK
<1> QED BY <1>1, WorkerKeepsType, GuiKeepsType, RestartKeepsType DEF Next

\* Every variable of the recorder and of the reader keeps its type.
THEOREM TypeCorrect == Spec => []TypeOK
BY InitType, NextType, PTL DEF Spec

-----------------------------------------------------------------------------
(* The recorder.                                                           *)

LEMMA WorkerKeepsBooks == ASSUME TypeOK, Books, WorkerNext PROVE Books'
<1> USE DEF TypeOK, FlagsTypeOK, PlacesTypeOK, Books, Worker, Quiet, recorder, gui
<1>1. CASE OpenPort BY <1>1 DEF OpenPort, Opens, LoadTape, CloseFirst, IsOpen
<1>2. CASE Loop BY <1>2 DEF Loop
<1>3. CASE ReadFrame BY <1>3 DEF ReadFrame
<1>4. CASE ReadDamaged BY <1>4 DEF ReadDamaged
<1>5. CASE ReadFails BY <1>5 DEF ReadFails
<1>6. CASE TurnSpeed BY <1>6 DEF TurnSpeed
<1>7. CASE Record BY <1>7 DEF Record, AfterFrame
<1>8. CASE Push BY <1>8 DEF Push, AfterFrame
<1>9. CASE Pause BY <1>9 DEF Pause, NoFrame
<1>10. CASE Take BY <1>10 DEF Take, NoFrame, AfterFrame
<1>11. CASE Got BY <1>11 DEF Got
<1>12. CASE HandleData BY <1>12 DEF HandleData
<1>13. CASE Handled BY <1>13 DEF Handled
<1>14. CASE Lost BY <1>14 DEF Lost, CancelTape
<1>15. CASE ReopenPort BY <1>15 DEF ReopenPort, LoadTape, CloseFirst, IsOpen
<1>16. CASE ClosePort BY <1>16 DEF ClosePort, CancelTape
<1> QED BY <1>1, <1>2, <1>3, <1>4, <1>5, <1>6, <1>7, <1>8, <1>9, <1>10, <1>11,
           <1>12, <1>13, <1>14, <1>15, <1>16 DEF WorkerNext

LEMMA GuiKeepsBooks == ASSUME TypeOK, Books, GuiNext PROVE Books'
<1> USE DEF TypeOK, FlagsTypeOK, PlacesTypeOK, Books, Gui, recorder
<1>1. CASE ClickStart BY <1>1 DEF ClickStart, StartThread
<1>2. CASE ClickStop BY <1>2 DEF ClickStop, StopThread
<1>3. CASE CancelPort BY <1>3 DEF CancelPort, CancelTape
<1>4. CASE Join BY <1>4 DEF Join
<1>5. CASE SioFinished BY <1>5 DEF SioFinished
<1>6. CASE StartSnapshot BY <1>6 DEF StartSnapshot
<1>7. CASE StopSnapshot BY <1>7 DEF StopSnapshot, StopSIOSnapshot
<1>8. ASSUME NEW t \in Tapes \cup {NoTape, BadTape}, Replay(t) PROVE Books'
  BY <1>8 DEF Replay, StopThread
<1>9. CASE StartReplay BY <1>9 DEF StartReplay, StartThread, StopThread
<1> QED BY <1>1, <1>2, <1>3, <1>4, <1>5, <1>6, <1>7, <1>8, <1>9 DEF GuiNext

\* The worker, when nothing overlaps.
LEMMA WorkerKeepsAlone == ASSUME TypeOK, Books, Alone, WorkerNext PROVE Alone'
<1> USE DEF TypeOK, FlagsTypeOK, PlacesTypeOK, Books, Alone, SnapshotAlone, SettingAlone,
        ReplayAlone, WaitAlone, ArrayAlone, Worker, Quiet, recorder, gui
<1> USE TapesAssumption
<1>1. CASE OpenPort BY <1>1 DEF OpenPort, Opens, LoadTape, CloseFirst, IsOpen
<1>2. CASE Loop BY <1>2 DEF Loop
<1>3. CASE ReadFrame BY <1>3 DEF ReadFrame
<1>4. CASE ReadDamaged BY <1>4 DEF ReadDamaged
<1>5. CASE ReadFails BY <1>5 DEF ReadFails
<1>6. CASE TurnSpeed BY <1>6 DEF TurnSpeed
<1>7. CASE Record BY <1>7 DEF Record, AfterFrame
<1>8. CASE Push BY <1>8 DEF Push, AfterFrame
<1>9. CASE Pause BY <1>9 DEF Pause, NoFrame
<1>10. CASE Take BY <1>10 DEF Take, NoFrame, AfterFrame
<1>11. CASE Got BY <1>11 DEF Got
<1>12. CASE HandleData BY <1>12 DEF HandleData
<1>13. CASE Handled BY <1>13 DEF Handled
<1>14. CASE Lost BY <1>14 DEF Lost, CancelTape
<1>15. CASE ReopenPort BY <1>15 DEF ReopenPort, LoadTape, CloseFirst, IsOpen
<1>16. CASE ClosePort BY <1>16 DEF ClosePort, CancelTape
<1> QED BY <1>1, <1>2, <1>3, <1>4, <1>5, <1>6, <1>7, <1>8, <1>9, <1>10, <1>11,
           <1>12, <1>13, <1>14, <1>15, <1>16 DEF WorkerNext

\* The GUI, when nothing overlaps after its step.
LEMMA GuiKeepsAlone ==
  ASSUME TypeOK, Books, ~mixed => Alone, GuiNext, ~mixed'
  PROVE  Alone'
<1> USE DEF TypeOK, FlagsTypeOK, PlacesTypeOK, Books, Alone, SnapshotAlone, SettingAlone,
        ReplayAlone, WaitAlone, ArrayAlone, Gui, recorder
<1>1. CASE ClickStart BY <1>1 DEF ClickStart, StartThread
<1>2. CASE ClickStop BY <1>2 DEF ClickStop, StopThread
<1>3. CASE CancelPort BY <1>3 DEF CancelPort, CancelTape
<1>4. CASE Join BY <1>4 DEF Join
<1>5. CASE SioFinished BY <1>5 DEF SioFinished
<1>6. CASE StartSnapshot BY <1>6 DEF StartSnapshot
<1>7. CASE StopSnapshot BY <1>7 DEF StopSnapshot, StopSIOSnapshot
<1>8. ASSUME NEW t \in Tapes \cup {NoTape, BadTape}, Replay(t) PROVE Alone'
  BY <1>8 DEF Replay, StopThread
<1>9. CASE StartReplay BY <1>9 DEF StartReplay, StartThread, StopThread
<1> QED BY <1>1, <1>2, <1>3, <1>4, <1>5, <1>6, <1>7, <1>8, <1>9 DEF GuiNext

LEMMA RestartKeepsBooks == ASSUME Restart PROVE Books'
BY DEF Restart, Start, Books

LEMMA RestartKeepsAlone == ASSUME TypeOK, ~mixed => Alone, Restart, ~mixed' PROVE Alone'
<1>1. ~mixed
  BY Zenon DEF Restart
<1>2. backend' = "Standard"
  BY <1>1 DEF Restart, Alone, SettingAlone, TypeOK, PlacesTypeOK
<1> QED BY <1>2 DEF Restart, Start, Alone, SnapshotAlone, SettingAlone, ReplayAlone,
           WaitAlone, ArrayAlone

\* The invariant holds in every reachable state.
THEOREM AloneKept == Spec => []IInv
<1>1. Init => IInv
  <2> SUFFICES ASSUME Init PROVE Books /\ Alone
    BY InitType DEF IInv
  <2> QED BY DEF Init, Books, Alone, SnapshotAlone, SettingAlone, ReplayAlone,
             WaitAlone, ArrayAlone
<1>2. IInv /\ [Next]_vars => IInv'
  <2> SUFFICES ASSUME IInv, [Next]_vars PROVE IInv'
    OBVIOUS
  <2> USE DEF IInv
  <2>1. CASE UNCHANGED vars
    <3>1. TypeOK'
      BY <2>1, NextType
    <3>2. Books' /\ (~mixed' => Alone')
      BY <2>1 DEF vars, reader, recorder, gui, Books, Alone, SnapshotAlone, SettingAlone,
         ReplayAlone, WaitAlone, ArrayAlone
    <3> QED BY <3>1, <3>2
  <2>2. CASE WorkerNext
    <3>1. mixed' = mixed
      BY <2>2, Zenon DEF WorkerNext, OpenPort, Loop, ReadFrame, ReadDamaged, ReadFails,
         TurnSpeed, Record, Push, Pause, Take, Got, HandleData, Handled, Lost,
         ReopenPort, ClosePort, Worker, gui
    <3> QED BY <2>2, <3>1, WorkerKeepsType, WorkerKeepsBooks, WorkerKeepsAlone, Zenon
  <2>3. CASE GuiNext
    BY <2>3, GuiKeepsType, GuiKeepsBooks, GuiKeepsAlone, Zenon
  <2>4. CASE Restart
    BY <2>4, RestartKeepsType, RestartKeepsBooks, RestartKeepsAlone, Zenon
  <2> QED BY <2>1, <2>2, <2>3, <2>4 DEF Next
<1> QED BY <1>1, <1>2, PTL DEF Spec

\* A snapshot that runs has its array, unless it overlapped with a replay.
THEOREM RecordingCorrect == Spec => []RecordingRecords
<1>1. IInv => RecordingRecords
  BY DEF IInv, Alone, SnapshotAlone, RecordingRecords
<1> QED BY <1>1, AloneKept, PTL

\* The setting of the user is given back when the emulation is stopped.
THEOREM SettingCorrect == Spec => []SettingGivenBack
<1>1. IInv => SettingGivenBack
  BY DEF IInv, Alone, SettingAlone, SettingGivenBack
<1> QED BY <1>1, AloneKept, PTL

\* The recorder crashes the program in no other than the known cases.
THEOREM CrashCorrect == Spec => []NoOtherCrash
<1>1. IInv => NoOtherCrash
  <2> SUFFICES ASSUME IInv, wpc = "crashed", ~mixed, ~mustTerminate, mPort # "Standard"
               PROVE  mPort = "Test" /\ autoReconnect
    BY DEF NoOtherCrash
  <2> QED BY DEF IInv, Alone, ArrayAlone, Books, TypeOK, PlacesTypeOK
<1> QED BY <1>1, AloneKept, PTL

-----------------------------------------------------------------------------
(* The reader.                                                             *)

\* The frames still to be missed before the port has the speed of the Atari; at
\* its speed, the one that the next bad frame makes good for is owed.
Rest == IF line = high THEN retries ELSE 2 - retries

NoiseInv ==
  /\ total <= 2 * noise + 2
  /\ wpc = "read" => total + Rest <= 2 * noise + 2

\* What a step does to the reader.
LEMMA ReaderSteps ==
  ASSUME Next
  PROVE  \/ total' = 0 /\ noise' = 0 /\ retries' = 0
         \/ wpc = "read" /\ Miss
         \/ wpc = "read" /\ Turn
         \/ wpc' # "read" /\ NormalSpeed
         \/ (wpc' = "read" => wpc = "read") /\ UNCHANGED reader
<1> USE DEF Worker, Quiet
<1>1. CASE OpenPort BY <1>1 DEF OpenPort
<1>2. CASE Loop BY <1>2 DEF Loop, Begin
<1>3. CASE ReadFrame BY <1>3 DEF ReadFrame, Hear, Begin
<1>4. CASE ReadDamaged BY <1>4 DEF ReadDamaged
<1>5. CASE TurnSpeed BY <1>5 DEF TurnSpeed
<1>6. CASE ReadFails \/ Record \/ Push \/ Pause \/ Take \/ Got \/ HandleData \/ Handled
  BY <1>6 DEF ReadFails, Record, Push, Pause, Take, Got, HandleData, Handled, AfterFrame,
     NoFrame
<1>7. CASE Lost \/ ReopenPort \/ ClosePort
  BY <1>7 DEF Lost, ReopenPort, ClosePort
<1>8. CASE GuiNext
  BY <1>8 DEF GuiNext, ClickStart, ClickStop, CancelPort, Join, SioFinished,
     StartSnapshot, StopSnapshot, Replay, StartReplay, StartThread, StopThread, Gui
<1>9. CASE Restart BY <1>9 DEF Restart
<1> QED BY <1>1, <1>2, <1>3, <1>4, <1>5, <1>6, <1>7, <1>8, <1>9 DEF Next, WorkerNext

LEMMA NoiseStep == ASSUME TypeOK, NoiseInv, Next PROVE NoiseInv'
<1> USE DEF TypeOK, ReaderTypeOK, NoiseInv
<1>1. CASE total' = 0 /\ noise' = 0 /\ retries' = 0
  BY <1>1 DEF Rest
<1>2. CASE wpc = "read" /\ Miss
  BY <1>2 DEF Miss, Count, OtherSpeed, Rest
<1>3. CASE wpc = "read" /\ Turn
  BY <1>3 DEF Turn, Rest
<1>4. CASE wpc' # "read" /\ NormalSpeed
  BY <1>4 DEF NormalSpeed
<1>5. CASE (wpc' = "read" => wpc = "read") /\ UNCHANGED reader
  BY <1>5 DEF reader, Rest
<1> QED BY <1>1, <1>2, <1>3, <1>4, <1>5, ReaderSteps

\* The reader gives up only on a bad line, whatever the limit of its retries.
THEOREM NoiseCorrect == Spec => []GivesUpOnNoise
<1>1. Init => NoiseInv
  BY DEF Init, ReaderInit, NoiseInv
<1>2. TypeOK /\ NoiseInv /\ [Next]_vars => NoiseInv'
  <2> SUFFICES ASSUME TypeOK, NoiseInv, [Next]_vars PROVE NoiseInv'
    OBVIOUS
  <2>1. CASE UNCHANGED vars
    BY <2>1 DEF vars, reader, NoiseInv, Rest
  <2> QED BY <2>1, NoiseStep
<1>3. NoiseInv => GivesUpOnNoise
  BY DEF NoiseInv, GivesUpOnNoise
<1> QED BY <1>1, <1>2, <1>3, TypeCorrect, PTL DEF Spec
=============================================================================
