------------------------------ MODULE SioThread ------------------------------
(***************************************************************************)
(* The life of the SIO worker thread: SioWorker::startThread, waitOnPort   *)
(* and run (src/src/sio/sioworker.cpp) with the port object they share     *)
(* (serialport-unix.cpp), and the Start emulation button of MainWindow     *)
(* that drives them (mainwindow.cpp).                                      *)
(*                                                                         *)
(* Two threads: the worker executes run(); the GUI executes the handlers.  *)
(* They share mustTerminate (atomic), the port's mCanceled (atomic), the   *)
(* pointer mPort, and the finished() signals queued for the GUI.           *)
(***************************************************************************)
EXTENDS Naturals

CONSTANT MaxFinished  \* bound of the finished() signals in the event queue

ASSUME MaxFinishedPositive == MaxFinished \in Nat \ {0}

VARIABLES
  wpc,           \* where run() is; "stopped" when the thread does not run
  mPort,         \* the port object: "none", or one of two generations
  open,          \* mHandle >= 0
  mCanceled,
  mustTerminate,
  autoReconnect, \* mAutoReconnect
  frame,         \* readCommandFrame returned a frame
  checked,       \* actionStartEmulation->isChecked()
  finished,      \* finished() signals not yet delivered
  gpc,           \* where the GUI is; "loop" is its event loop
  restart        \* the GUI handler starts the emulation again at its end

port == <<mPort, open, mCanceled>>
vars == <<wpc, mPort, open, mCanceled, mustTerminate, autoReconnect, frame,
          checked, finished, gpc, restart>>

WorkerLabel == {"stopped", "open", "while", "read", "returned", "reconnect",
                "reopen", "close"}
GuiLabel == {"loop", "flag", "cancel", "join", "events", "dialog"}

TypeOK ==
  /\ wpc \in WorkerLabel
  /\ mPort \in {"none", "a", "b"}
  /\ open \in BOOLEAN /\ mCanceled \in BOOLEAN
  /\ mustTerminate \in BOOLEAN /\ autoReconnect \in BOOLEAN /\ frame \in BOOLEAN
  /\ checked \in BOOLEAN
  /\ finished \in 0..MaxFinished
  /\ gpc \in GuiLabel
  /\ restart \in BOOLEAN

Init ==
  /\ wpc = "stopped"
  /\ mPort = "none" /\ open = FALSE /\ mCanceled = FALSE
  /\ mustTerminate = FALSE /\ autoReconnect \in BOOLEAN /\ frame = FALSE
  /\ checked = FALSE /\ finished = 0
  /\ gpc = "loop" /\ restart = FALSE

-----------------------------------------------------------------------------
(***************************************************************************)
(* The worker.                                                             *)
(***************************************************************************)
Worker(from) == wpc = from /\ UNCHANGED <<mPort, mustTerminate, autoReconnect,
                                          checked, gpc, restart>>

\* The three outcomes of StandardSerialPortBackend::open: the port works;
\* the device cannot be opened; it is open but its lines cannot be set, and
\* open returns before it resets mCanceled.  A speed that cannot be set
\* closes it again, which cancels.
OpenWorks == open' = TRUE /\ mCanceled' = FALSE
OpenFails == \/ open' = FALSE /\ UNCHANGED mCanceled
             \/ open' = FALSE /\ mCanceled' = TRUE
             \/ open' = TRUE /\ UNCHANGED mCanceled

\* StandardSerialPortBackend::close cancels, then closes the handle.
Close == open' = FALSE /\ mCanceled' = TRUE

\* run() returns: QThread emits finished(), queued for the GUI.
Finish == wpc' = "stopped" /\ finished < MaxFinished /\ finished' = finished + 1

Open ==
  /\ Worker("open")
  /\ \/ OpenWorks /\ wpc' = "while" /\ UNCHANGED finished
     \/ OpenFails /\ Finish
  /\ UNCHANGED frame

\* while (!mustTerminate)
While ==
  /\ Worker("while")
  /\ wpc' = IF mustTerminate THEN "close" ELSE "read"
  /\ UNCHANGED <<open, mCanceled, frame, finished>>

\* readCommandFrame: a frame; nothing, because it was cancelled; nothing,
\* because the port failed or the noise exceeded its retries.
ReadFrame ==
  /\ Worker("read")
  /\ open
  /\ wpc' = "returned" /\ frame' = TRUE
  /\ UNCHANGED <<open, mCanceled, finished>>

ReadNothing ==
  /\ Worker("read")
  /\ wpc' = "returned" /\ frame' = FALSE
  /\ UNCHANGED <<open, mCanceled, finished>>

\* The command is handled, or the port is reconnected, or the loop is left.
Returned ==
  /\ Worker("returned")
  /\ frame' = FALSE
  /\ IF mustTerminate \/ (~frame /\ ~autoReconnect)
       THEN wpc' = "close" /\ UNCHANGED <<open, mCanceled>>
       ELSE IF frame THEN wpc' = "while" /\ UNCHANGED <<open, mCanceled>>
                     ELSE wpc' = "reconnect" /\ Close
  /\ UNCHANGED finished

\* Defect: the port is opened once more only.
ReopenOnce ==
  /\ Worker("reopen")
  /\ \/ OpenWorks /\ wpc' = "while"
     \/ OpenFails /\ wpc' = "close"
  /\ UNCHANGED <<frame, finished>>

\* while (mAutoReconnect && !mustTerminate && !mPort->isOpen())
Reconnect ==
  /\ Worker("reconnect")
  /\ wpc' = IF mustTerminate THEN "close"
            ELSE IF autoReconnect /\ ~open THEN "reopen" ELSE "while"
  /\ UNCHANGED <<open, mCanceled, frame, finished>>

Reopen ==
  /\ Worker("reopen")
  /\ OpenWorks \/ OpenFails
  /\ wpc' = "reconnect"
  /\ UNCHANGED <<frame, finished>>

ClosePort ==
  /\ Worker("close")
  /\ Close /\ Finish
  /\ UNCHANGED frame

-----------------------------------------------------------------------------
(***************************************************************************)
(* The GUI.                                                                *)
(***************************************************************************)
Gui(from) == gpc = from /\ UNCHANGED <<frame>>

\* startThread: a new port object; start() does nothing to a running thread.
StartThread ==
  /\ mPort' = IF mPort = "a" THEN "b" ELSE "a"
  /\ open' = FALSE /\ mCanceled' = FALSE
  /\ mustTerminate' = FALSE
  /\ wpc' = IF wpc = "stopped" THEN "open" ELSE wpc

\* startEmulationTriggered, after the click (or trigger()) has toggled the
\* action.
Toggle ==
  /\ checked' = ~checked
  /\ IF ~checked
       THEN /\ StartThread
            /\ gpc' = "loop" /\ restart' = FALSE
       ELSE /\ gpc' = "flag"
            /\ UNCHANGED <<wpc, port, mustTerminate, restart>>

Click ==
  /\ Gui("loop")
  /\ Toggle
  /\ UNCHANGED <<autoReconnect, finished>>

\* showOptionsTriggered and setSession stop a running emulation, and start
\* it at their end; the cassette dialog starts it only if it was running.
StopAndRestart ==
  /\ Gui("loop")
  /\ checked
  /\ checked' = FALSE /\ restart' = TRUE
  /\ gpc' = "flag"
  /\ UNCHANGED <<wpc, port, mustTerminate, autoReconnect, finished>>

Options ==
  /\ Gui("loop")
  /\ ~checked
  /\ restart' = TRUE /\ gpc' = "dialog"
  /\ UNCHANGED <<wpc, port, mustTerminate, autoReconnect, checked, finished>>

\* The modal dialog: its event loop delivers signals.  It is accepted: the
\* reconnect setting may change and the emulation starts.
Dialog ==
  /\ Gui("dialog")
  /\ autoReconnect' \in BOOLEAN
  /\ Toggle
  /\ UNCHANGED finished

\* A cancelled dialog leaves the emulation stopped.
DialogCancelled ==
  /\ Gui("dialog")
  /\ gpc' = "loop" /\ restart' = FALSE
  /\ UNCHANGED <<wpc, port, mustTerminate, autoReconnect, checked, finished>>

\* waitOnPort, in this order: mustTerminate, cancel(), wait(), reset().
SetFlag ==
  /\ Gui("flag") /\ gpc' = "cancel"
  /\ mustTerminate' = TRUE
  /\ UNCHANGED <<wpc, port, autoReconnect, checked, finished, restart>>

\* Defect: the reads are not cancelled.
NoCancel ==
  /\ Gui("cancel") /\ gpc' = "join"
  /\ UNCHANGED <<wpc, port, mustTerminate, autoReconnect, checked, finished, restart>>

Cancel ==
  /\ Gui("cancel") /\ gpc' = "join"
  /\ mCanceled' = (mCanceled \/ mPort # "none")
  /\ UNCHANGED <<wpc, mPort, open, mustTerminate, autoReconnect, checked, finished, restart>>

\* wait() returns when the thread has finished; the port object is deleted.
Join ==
  /\ Gui("join") /\ gpc' = "events"
  /\ wpc = "stopped"
  /\ mPort' = "none" /\ open' = FALSE /\ mCanceled' = FALSE
  /\ UNCHANGED <<wpc, mustTerminate, autoReconnect, checked, finished, restart>>

\* Defect: the handler returns with finished() still in the queue.
NoProcessEvents ==
  /\ Gui("events")
  /\ gpc' = IF restart THEN "dialog" ELSE "loop"
  /\ UNCHANGED <<wpc, port, mustTerminate, autoReconnect, checked, finished, restart>>

\* qApp->processEvents() delivers what is queued.
ProcessEvents ==
  /\ Gui("events")
  /\ gpc' = IF restart THEN "dialog" ELSE "loop"
  /\ finished' = 0
  /\ checked' = IF finished > 0 THEN FALSE ELSE checked
  /\ UNCHANGED <<wpc, port, mustTerminate, autoReconnect, restart>>

\* Defect: the button stays as it is.
SioFinishedSilent ==
  /\ Gui(gpc) /\ gpc \in {"loop", "dialog"}
  /\ finished > 0 /\ finished' = finished - 1
  /\ UNCHANGED <<wpc, port, mustTerminate, autoReconnect, checked, gpc, restart>>

\* Defect: a signal is delivered that was not emitted.
SioFinishedTwice ==
  /\ Gui(gpc) /\ gpc \in {"loop", "dialog"}
  /\ finished' = finished - 1
  /\ checked' = FALSE
  /\ UNCHANGED <<wpc, port, mustTerminate, autoReconnect, gpc, restart>>

\* sioFinished, delivered by an event loop.
SioFinished ==
  /\ Gui(gpc) /\ gpc \in {"loop", "dialog"}
  /\ finished > 0 /\ finished' = finished - 1
  /\ checked' = FALSE
  /\ UNCHANGED <<wpc, port, mustTerminate, autoReconnect, gpc, restart>>

-----------------------------------------------------------------------------
Next ==
  \/ Open \/ While \/ ReadFrame \/ ReadNothing \/ Returned
  \/ Reconnect \/ Reopen \/ ClosePort
  \/ Click \/ StopAndRestart \/ Options \/ Dialog \/ DialogCancelled
  \/ SetFlag \/ Cancel \/ Join \/ ProcessEvents \/ SioFinished

(***************************************************************************)
(* The threads are scheduled.  A read of a port that works and is not      *)
(* cancelled may wait for ever for the Atari; a cancelled one returns; a   *)
(* port that is opened again and again works in the end, since the device  *)
(* comes back.  The user need not do anything.                             *)
(***************************************************************************)
Fairness ==
  /\ WF_vars(Open) /\ WF_vars(While) /\ WF_vars(Returned)
  /\ WF_vars(Reconnect) /\ WF_vars(ClosePort)
  /\ WF_vars(mCanceled /\ ReadNothing)
  /\ WF_vars(Reopen) /\ SF_vars(Reopen /\ OpenWorks)
  /\ WF_vars(SetFlag) /\ WF_vars(Cancel) /\ WF_vars(Join)
  /\ WF_vars(ProcessEvents) /\ WF_vars(SioFinished)

Spec == Init /\ [][Next]_vars /\ Fairness

-----------------------------------------------------------------------------
(***************************************************************************)
(* Properties.                                                             *)
(***************************************************************************)
\* The port object is neither replaced nor deleted under a running thread:
\* run() uses mPort without a lock from its first line to its last.
PortStable == [][wpc # "stopped" => mPort' = mPort]_vars

\* When the GUI is in its event loop with no finished() pending, the button
\* says what the thread does, however the thread came to stop.
ButtonTellsTruth ==
  gpc = "loop" /\ finished = 0 => (checked <=> wpc # "stopped")

\* waitOnPort returns: wherever the worker is when the user stops the
\* emulation (opening, reading, reconnecting), it sees the request.
StopCompletes == gpc = "flag" ~> gpc \in {"loop", "dialog"}

\* With auto-reconnect a port that failed is served again, or the user
\* stops the emulation.
Reconnects ==
  wpc = "reconnect" /\ ~mustTerminate ~> wpc = "while" \/ mustTerminate
=============================================================================
