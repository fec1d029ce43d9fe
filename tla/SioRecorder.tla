----------------------------- MODULE SioRecorder -----------------------------
(***************************************************************************)
(* The SIO recorder (siorecorder.cpp): a snapshot of what the Atari sends, *)
(* taken by the reading port (serialport-unix.cpp), and the replay of one, *)
(* in which the recorder is itself the port of the worker (sioworker.cpp). *)
(* Snapshot and replay share one array, mSnapshotData.  The Debug menu of  *)
(* the window starts and stops both (mainwindow.cpp), and the replay       *)
(* changes the setting that says which port is used.                       *)
(*                                                                         *)
(* Worker and GUI are two threads; the recorder has no lock.  The life of  *)
(* the thread is here only as far as the recorder needs it; SioThread has  *)
(* the rest.  Of the array only what it is for is kept, and the place      *)
(* where it is read.                                                       *)
(***************************************************************************)
EXTENDS FrameReader, Sequences

CONSTANTS Tapes,    \* the snapshots in files: "cmd", "data" and "pause" items
          NoTape,   \* no file has been read, or it cannot be opened
          BadTape   \* a file that is no snapshot

ASSUME TapesAssumption == /\ Tapes \subseteq Seq({"cmd", "data", "pause"})
                          /\ {NoTape, BadTape} \cap Tapes = {}

VARIABLES
  wpc,            \* where the worker is
  want,           \* the kind of frame it reads
  mPort,          \* the port: "Standard", "Test" (the recorder) or "None"
  mustTerminate,
  autoReconnect,  \* mAutoReconnect
  data,           \* mSnapshotData: "none", or what it was made for
  items,          \* what a replay has in it
  index,          \* mReadIndex, from 1
  running,        \* mSnapshotRunning
  tape,           \* mTestData
  previous,       \* mPreviousBackend
  backend,        \* the setting, which survives the program
  checked,        \* actionStartEmulation->isChecked()
  gpc,            \* where the GUI is
  again,          \* its handler starts the replay when the worker has stopped
  mixed           \* a replay was started beside a snapshot or another replay

recorder == <<data, items, index, running, tape, previous, backend>>
gui == <<checked, gpc, again, mixed>>
vars == <<reader, wpc, want, mPort, mustTerminate, autoReconnect, recorder, gui>>

FlagsTypeOK ==
  /\ mustTerminate \in BOOLEAN /\ autoReconnect \in BOOLEAN /\ running \in BOOLEAN
  /\ checked \in BOOLEAN /\ again \in BOOLEAN /\ mixed \in BOOLEAN

PlacesTypeOK ==
  /\ wpc \in {"off", "open", "loop", "read", "record", "append", "pause", "take",
              "got", "handle", "lost", "reopen", "close", "crashed"}
  /\ want \in {"cmd", "data"}
  /\ mPort \in {"None", "Standard", "Test"}
  /\ data \in {"none", "snapshot", "replay"}
  /\ items \in Tapes \cup {<<>>}
  /\ index \in Nat
  /\ tape \in Tapes \cup {NoTape, BadTape}
  /\ previous \in {"None", "Standard", "Test"}
  /\ backend \in {"Standard", "Test"}
  /\ gpc \in {"loop", "cancel", "join", "start"}

TypeOK == ReaderTypeOK /\ FlagsTypeOK /\ PlacesTypeOK

\* The program starts.
Start ==
  /\ wpc' = "off" /\ want' = "cmd" /\ mPort' = "None" /\ mustTerminate' = FALSE
  /\ data' = "none" /\ items' = <<>> /\ index' = 1 /\ running' = FALSE /\ tape' = NoTape
  /\ previous' = "None" /\ checked' = FALSE /\ gpc' = "loop" /\ again' = FALSE

Init ==
  /\ ReaderInit
  /\ wpc = "off" /\ want = "cmd" /\ mPort = "None" /\ mustTerminate = FALSE
  /\ autoReconnect \in BOOLEAN
  /\ data = "none" /\ items = <<>> /\ index = 1 /\ running = FALSE /\ tape = NoTape
  /\ previous = "None" /\ backend = "Standard"
  /\ checked = FALSE /\ gpc = "loop" /\ again = FALSE /\ mixed = FALSE

-----------------------------------------------------------------------------
(* The recorder as a port.                                                 *)

\* isOpen, which says the opposite.
IsOpen == data = "none"

\* cancel and close: the array is deleted and the setting given back.
CancelTape ==
  /\ data' = "none" /\ items' = <<>>
  /\ backend' = IF previous = "None" THEN backend ELSE previous
  /\ previous' = "None"
  /\ UNCHANGED <<index, running, tape>>

\* open returns TRUE.
Opens == tape \in Tapes

\* Defect: a port that is open is not closed first.
KeepSetting == UNCHANGED <<backend, previous>>

\* open closes the port first if isOpen says so: the setting is given back
\* when a replay begins, unless a snapshot is being taken.
CloseFirst ==
  /\ backend' = IF IsOpen /\ previous # "None" THEN previous ELSE backend
  /\ previous' = IF IsOpen THEN "None" ELSE previous

\* open, close included.  The array stays when there is no file.
LoadTape ==
  /\ CloseFirst
  /\ data' = IF tape = NoTape THEN data
             ELSE IF tape = BadTape THEN "none" ELSE "replay"
  /\ items' = IF tape = NoTape THEN items ELSE IF tape = BadTape THEN <<>> ELSE tape
  /\ index' = IF Opens /\ tape \in Tapes THEN 1 ELSE index
  /\ UNCHANGED <<running, tape>>

\* What the array has at mReadIndex.  The array of a snapshot is empty while
\* the worker replays.
Item == IF data = "replay" /\ index <= Len(items) THEN items[index] ELSE "end"

-----------------------------------------------------------------------------
(* The worker.                                                             *)

Worker(from, to) ==
  /\ wpc = from /\ wpc' \in to
  /\ UNCHANGED <<mPort, mustTerminate, autoReconnect, gui>>

Quiet == UNCHANGED <<reader, recorder, want>>

\* run opens the port.
OpenPort ==
  /\ Worker("open", {"loop", "off"})
  /\ IF mPort = "Test"
       THEN LoadTape /\ wpc' = (IF Opens THEN "loop" ELSE "off") /\ UNCHANGED reader
       ELSE (IF wpc' = "loop" THEN NormalSpeed ELSE UNCHANGED reader)
            /\ UNCHANGED recorder
  /\ UNCHANGED want

\* while (!mustTerminate): readCommandFrame is called.
Loop ==
  /\ Worker("loop", IF mustTerminate THEN {"close"}
                    ELSE IF mPort = "Test" THEN {"pause"} ELSE {"read"})
  /\ want' = "cmd"
  /\ IF mPort = "Test" THEN UNCHANGED reader ELSE Begin
  /\ UNCHANGED recorder

\* A command frame with a right checksum.
ReadFrame ==
  /\ Worker("read", {IF running THEN "record" ELSE "got"})
  /\ Hear
  /\ UNCHANGED <<recorder, want>>

\* Another one, or none.
ReadDamaged ==
  /\ Worker("read", {IF total + 1 = MaxRetries THEN "lost" ELSE "read"})
  /\ Miss
  /\ UNCHANGED <<recorder, want>>

\* The port fails, or was cancelled.
ReadFails == Worker("read", {"lost"}) /\ Quiet

\* The Atari changes its speed while it is not heard.
TurnSpeed == Worker("read", {"read"}) /\ Turn /\ UNCHANGED <<recorder, want>>

AfterFrame == IF want = "cmd" THEN "got" ELSE "handle"

\* writeSnapshotCommandFrame and writeSnapshotDataFrame look at mSnapshotData,
\* and then use it.
Record ==
  /\ Worker("record", {IF running /\ data # "none" THEN "append" ELSE AfterFrame})
  /\ Quiet

Push ==
  /\ Worker("append", {IF data = "none" THEN "crashed" ELSE AfterFrame})
  /\ Quiet

\* There is no frame: the command is lost, or the handler goes on without data.
NoFrame == IF want = "cmd" THEN "lost" ELSE "handle"

\* readPauseTag, with its sleep.
Pause ==
  /\ Worker("pause", {IF data = "none" THEN "crashed"
                      ELSE IF Item = "end" THEN NoFrame ELSE "take"})
  /\ index' = IF Item = "pause" THEN index + 1 ELSE index
  /\ UNCHANGED <<reader, data, items, running, tape, previous, backend, want>>

\* readCommandFrame and readDataFrame after the pause tag.  A data frame may
\* have another size than the handler asks for.
Take ==
  /\ \E fits \in IF want = "data" THEN BOOLEAN ELSE {TRUE} :
       LET taken == Item = want /\ fits
       IN  /\ Worker("take", {IF data = "none" THEN "crashed"
                              ELSE IF taken THEN AfterFrame ELSE NoFrame})
           /\ index' = IF taken THEN index + 1 ELSE index
  /\ UNCHANGED <<reader, data, items, running, tape, previous, backend, want>>

\* A command has been read; mustTerminate is looked at before it is handled.
Got == Worker("got", {IF mustTerminate THEN "close" ELSE "handle"}) /\ Quiet

\* The device reads a data frame.
HandleData ==
  /\ Worker("handle", {IF mPort = "Test" THEN "pause"
                       ELSE IF running THEN "record" ELSE "handle"})
  /\ want' = "data"
  /\ UNCHANGED <<reader, recorder>>

Handled == Worker("handle", {"loop"}) /\ Quiet

\* Nothing was read: the port is closed and opened again, or the loop left.
Lost ==
  /\ Worker("lost", {IF mustTerminate \/ ~autoReconnect THEN "close" ELSE "reopen"})
  /\ IF mPort = "Test" /\ wpc' = "reopen" THEN CancelTape ELSE UNCHANGED recorder
  /\ UNCHANGED <<reader, want>>

\* while (mAutoReconnect && !mustTerminate && !mPort->isOpen())
ReopenPort ==
  /\ Worker("reopen", IF mustTerminate THEN {"close"}
                      ELSE IF mPort = "Standard" THEN {"loop", "reopen"}
                      ELSE {IF IsOpen THEN "loop" ELSE "reopen"})
  /\ IF mPort = "Test" /\ ~mustTerminate /\ ~IsOpen
       THEN LoadTape /\ UNCHANGED reader
       ELSE (IF mPort = "Standard" /\ wpc' = "loop" THEN NormalSpeed
             ELSE UNCHANGED reader) /\ UNCHANGED recorder
  /\ UNCHANGED want

ClosePort ==
  /\ Worker("close", {"off"})
  /\ IF mPort = "Test" THEN CancelTape ELSE UNCHANGED recorder
  /\ UNCHANGED <<reader, want>>

-----------------------------------------------------------------------------
(* The GUI.                                                                *)

Gui(from, to) ==
  /\ wpc # "crashed" /\ gpc = from /\ gpc' = to
  /\ UNCHANGED <<reader, autoReconnect, want>>

\* startThread.
StartThread(port) ==
  /\ mPort' = port /\ mustTerminate' = FALSE /\ wpc' = "open" /\ checked' = TRUE

\* startEmulationTriggered with the button unchecked: waitOnPort begins.
StopThread == mustTerminate' = TRUE /\ checked' = FALSE /\ UNCHANGED <<mPort, wpc>>

ClickStart ==
  /\ ~checked /\ Gui("loop", "loop")
  /\ StartThread(backend)
  /\ UNCHANGED <<recorder, again, mixed>>

ClickStop ==
  /\ checked /\ Gui("loop", "cancel")
  /\ StopThread
  /\ UNCHANGED <<recorder, again, mixed>>

\* waitOnPort cancels the port, in the GUI thread.
CancelPort ==
  /\ Gui("cancel", "join")
  /\ IF mPort = "Test" THEN CancelTape ELSE UNCHANGED recorder
  /\ UNCHANGED <<wpc, mPort, mustTerminate, checked, again, mixed>>

Join ==
  /\ wpc = "off" /\ Gui("join", IF again THEN "start" ELSE "loop")
  /\ mPort' = "None"
  /\ UNCHANGED <<wpc, mustTerminate, recorder, checked, again, mixed>>

\* sioFinished, by a worker that has stopped by itself.
SioFinished ==
  /\ checked /\ wpc = "off" /\ Gui("loop", "loop")
  /\ checked' = FALSE
  /\ UNCHANGED <<wpc, mPort, mustTerminate, recorder, again, mixed>>

\* Defect: a snapshot that is stopped still counts as running.
StopKeepsRunning == data' = "none" /\ items' = <<>> /\ UNCHANGED running

\* stopSIOSnapshot.
StopSIOSnapshot == data' = "none" /\ items' = <<>> /\ running' = FALSE

\* toggleSnapshotCapture.  A snapshot that has no array is not stopped.
StartSnapshot ==
  /\ ~running /\ Gui("loop", "loop")
  /\ running' = TRUE
  /\ data' = IF data = "none" THEN "snapshot" ELSE data
  /\ mixed' = (mixed \/ (mPort = "Test" /\ checked))
  /\ UNCHANGED <<wpc, mPort, mustTerminate, items, index, tape, previous, backend,
                 checked, again>>

StopSnapshot ==
  /\ running /\ Gui("loop", "loop")
  /\ IF data = "none" THEN UNCHANGED <<data, items, running>> ELSE StopSIOSnapshot
  /\ UNCHANGED <<wpc, mPort, mustTerminate, index, tape, previous, backend,
                 checked, again, mixed>>

\* replaySnapshot: the file is read; a worker that runs is stopped.  late: it
\* has stopped by itself, and the window does not know.
Replay(t) ==
  LET late == checked /\ wpc = "off"
  IN  /\ Gui("loop", IF wpc = "off" THEN "start" ELSE "cancel")
      /\ tape' = t /\ previous' = backend
      /\ IF wpc = "off" THEN UNCHANGED <<mPort, wpc, mustTerminate, checked>>
                        ELSE StopThread
      /\ again' = TRUE
      /\ mixed' = (mixed \/ running \/ late \/ (mPort = "Test" /\ checked))
      /\ UNCHANGED <<data, items, index, running, backend>>

\* Its end: the setting, and trigger(), which toggles the button.
StartReplay ==
  /\ Gui("start", IF checked THEN "cancel" ELSE "loop")
  /\ backend' = "Test" /\ again' = FALSE
  /\ IF checked THEN StopThread ELSE StartThread("Test")
  /\ UNCHANGED <<data, items, index, running, tape, previous, mixed>>

\* The program has crashed and is started again.
Restart ==
  /\ wpc = "crashed" /\ Start
  /\ high' = FALSE /\ UNCHANGED line
  /\ retries' = 0 /\ total' = 0 /\ noise' = 0
  /\ UNCHANGED <<autoReconnect, backend, mixed>>

-----------------------------------------------------------------------------
WorkerNext ==
  \/ OpenPort \/ Loop \/ ReadFrame \/ ReadDamaged \/ ReadFails \/ TurnSpeed
  \/ Record \/ Push \/ Pause \/ Take \/ Got \/ HandleData \/ Handled
  \/ Lost \/ ReopenPort \/ ClosePort

GuiNext ==
  \/ ClickStart \/ ClickStop \/ CancelPort \/ Join \/ SioFinished
  \/ StartSnapshot \/ StopSnapshot
  \/ (\E t \in Tapes \cup {NoTape, BadTape} : Replay(t)) \/ StartReplay

Next == WorkerNext \/ GuiNext \/ Restart

Spec == Init /\ [][Next]_vars

-----------------------------------------------------------------------------
(***************************************************************************)
(* Properties.  Each says what the code keeps as long as replays and       *)
(* snapshots do not overlap; mixed names the cases in which they do.       *)
(***************************************************************************)
\* A snapshot that runs has its array: what the Atari sends is recorded, and
\* the snapshot can be stopped.
RecordingRecords == running /\ ~mixed => data = "snapshot"

\* When the emulation is stopped the setting is the user's port again, not the
\* recorder, however the replay ended: at its last frame, by a file that is no
\* snapshot, by the user, by a crash.
SettingGivenBack ==
  gpc = "loop" /\ wpc = "off" /\ ~checked /\ backend = "Test" => mixed

\* The program crashes on the array only in these cases: a replay is stopped
\* by the user while a frame is read; it has ended, and is reconnected; a
\* snapshot is stopped while a frame is recorded.
NoOtherCrash ==
  wpc = "crashed" =>
    mixed \/ mustTerminate \/ (mPort = "Test" /\ autoReconnect) \/ mPort = "Standard"
=============================================================================
