--------------------------- MODULE SioThreadProofs ---------------------------
(***************************************************************************)
(* Proofs about SioThread, for any bound of the queue of signals.          *)
(*                                                                         *)
(* Both theorems rest on one invariant: what the button shows, where the   *)
(* thread is and what is in the queue determine each other.  The two       *)
(* signals that matter (the user's click and the thread's finished()) come *)
(* in any order, and a click handler is only safe because the signal of    *)
(* the thread it waited for is delivered before it returns.                *)
(***************************************************************************)
EXTENDS SioThread, TLAPS

\* Of the threads started, the last one's finished() is in the queue, or it
\* is running.
OneThread == finished \in {0, 1} /\ (wpc = "stopped" <=> finished = 1)

Books ==
  /\ gpc = "loop" /\ checked => OneThread
  /\ gpc \in {"loop", "dialog"} /\ ~checked => wpc = "stopped" /\ finished = 0
  /\ gpc \in {"flag", "cancel", "join"} => ~checked /\ OneThread
  /\ gpc = "events" => ~checked /\ wpc = "stopped" /\ finished = 1
  /\ gpc = "dialog" => ~checked

IInv == TypeOK /\ Books

\* The worker alone: it moves from label to label, and leaves by Finish.
WorkerNext == Open \/ While \/ ReadFrame \/ ReadNothing \/ Returned
              \/ Reconnect \/ Reopen \/ ClosePort

LEMMA InitIInv == Init => IInv
<1> SUFFICES ASSUME Init PROVE IInv
  OBVIOUS
<1>1. finished \in 0..MaxFinished
  BY MaxFinishedPositive DEF Init
<1>2. TypeOK
  BY <1>1, Zenon DEF Init, TypeOK, WorkerLabel, GuiLabel
<1>3. Books
  BY DEF Init, Books, OneThread
<1> QED BY <1>2, <1>3 DEF IInv

LEMMA WorkerKeepsType == TypeOK /\ WorkerNext => TypeOK'
<1> SUFFICES ASSUME TypeOK, WorkerNext PROVE TypeOK'
  OBVIOUS
<1> USE DEF TypeOK
<1>1. finished' \in 0..MaxFinished
  <2>1. finished' = finished \/ (finished < MaxFinished /\ finished' = finished + 1)
    BY Zenon DEF WorkerNext, Open, While, ReadFrame, ReadNothing, Returned, Reconnect,
       Reopen, ClosePort, Finish
  <2> QED BY <2>1, MaxFinishedPositive
<1>2. wpc' \in WorkerLabel
  BY Zenon DEF WorkerNext, Open, While, ReadFrame, ReadNothing, Returned, Reconnect,
     Reopen, ClosePort, Finish, WorkerLabel
<1>3. open' \in BOOLEAN /\ mCanceled' \in BOOLEAN /\ frame' \in BOOLEAN
  BY Zenon DEF WorkerNext, Open, While, ReadFrame, ReadNothing, Returned, Reconnect,
     Reopen, ClosePort, OpenWorks, OpenFails, Close
<1>4. UNCHANGED <<mPort, mustTerminate, autoReconnect, checked, gpc, restart>>
  BY DEF WorkerNext, Open, While, ReadFrame, ReadNothing, Returned, Reconnect,
     Reopen, ClosePort, Worker
<1> QED BY <1>1, <1>2, <1>3, <1>4

\* A step of the worker is taken by a running thread; it either goes on or
\* ends with one finished() more.
LEMMA WorkerRuns ==
  TypeOK /\ WorkerNext =>
    /\ wpc # "stopped"
    /\ UNCHANGED <<mPort, checked, gpc>>
    /\ \/ wpc' # "stopped" /\ finished' = finished
       \/ wpc' = "stopped" /\ finished' = finished + 1
<1> SUFFICES ASSUME TypeOK, WorkerNext
             PROVE /\ wpc # "stopped"
                   /\ UNCHANGED <<mPort, checked, gpc>>
                   /\ \/ wpc' # "stopped" /\ finished' = finished
                      \/ wpc' = "stopped" /\ finished' = finished + 1
  OBVIOUS
<1> USE DEF Worker, Finish
<1>1. CASE Open BY <1>1 DEF Open
<1>2. CASE While BY <1>2 DEF While
<1>3. CASE ReadFrame BY <1>3 DEF ReadFrame
<1>4. CASE ReadNothing BY <1>4 DEF ReadNothing
<1>5. CASE Returned BY <1>5 DEF Returned
<1>6. CASE Reconnect BY <1>6 DEF Reconnect
<1>7. CASE Reopen BY <1>7 DEF Reopen
<1>8. CASE ClosePort BY <1>8 DEF ClosePort
<1> QED BY <1>1, <1>2, <1>3, <1>4, <1>5, <1>6, <1>7, <1>8 DEF WorkerNext

\* A toggle of the button, by a click in the event loop or at the end of a
\* dialog: the thread is started only when it is stopped and its signal has
\* been delivered.
LEMMA ToggleKeepsIInv ==
  ASSUME IInv, gpc \in {"loop", "dialog"}, Toggle,
         finished' = finished, autoReconnect' \in BOOLEAN, frame' = frame
  PROVE  IInv'
<1> USE DEF IInv, TypeOK, Books, OneThread, WorkerLabel, GuiLabel
<1>1. CASE checked
  <2>1. checked' = FALSE
    BY <1>1, Zenon DEF Toggle
  <2>2. gpc' = "flag" /\ gpc = "loop" /\ UNCHANGED <<wpc, port, mustTerminate, restart>>
    BY <1>1, Zenon DEF Toggle
  <2>3. TypeOK' BY <2>1, <2>2 DEF port
  <2>4. Books' BY <1>1, <2>1, <2>2
  <2> QED BY <2>3, <2>4
<1>2. CASE ~checked
  <2>1. checked' = TRUE
    BY <1>2, Zenon DEF Toggle
  <2>2. StartThread /\ gpc' = "loop" /\ restart' = FALSE
    BY <1>2, Zenon DEF Toggle
  <2>3. wpc = "stopped" /\ finished = 0
    BY <1>2
  <2>4. wpc' = "open" /\ mPort' \in {"none", "a", "b"}
    BY <2>2, <2>3 DEF StartThread
  <2>5. open' = FALSE /\ mCanceled' = FALSE /\ mustTerminate' = FALSE
    BY <2>2 DEF StartThread
  <2>6. TypeOK' BY <2>1, <2>2, <2>3, <2>4, <2>5
  <2>7. Books' BY <2>1, <2>2, <2>3, <2>4
  <2> QED BY <2>6, <2>7
<1> QED BY <1>1, <1>2

LEMMA NextIInv == IInv /\ [Next]_vars => IInv'
<1> SUFFICES ASSUME IInv, [Next]_vars PROVE IInv'
  OBVIOUS
<1> USE MaxFinishedPositive DEF IInv
<1>1. CASE WorkerNext
  <2>1. TypeOK' BY <1>1, WorkerKeepsType
  <2>2. Books' BY <1>1, WorkerRuns DEF Books, OneThread, TypeOK
  <2> QED BY <2>1, <2>2
<1> USE DEF TypeOK, Books, OneThread, WorkerLabel, GuiLabel, Gui, port
<1>2. CASE Click
  <2>1. gpc = "loop" /\ Toggle /\ finished' = finished /\ autoReconnect' = autoReconnect
        /\ frame' = frame
    BY <1>2 DEF Click
  <2> QED BY <2>1, ToggleKeepsIInv DEF Books
<1>3. CASE StopAndRestart BY <1>3 DEF StopAndRestart
<1>4. CASE Options BY <1>4 DEF Options
<1>5. CASE Dialog
  <2>1. gpc = "dialog" /\ Toggle /\ finished' = finished /\ autoReconnect' \in BOOLEAN
        /\ frame' = frame
    BY <1>5 DEF Dialog
  <2> QED BY <2>1, ToggleKeepsIInv
<1>6. CASE SetFlag BY <1>6 DEF SetFlag
<1>7. CASE Cancel BY <1>7 DEF Cancel
<1>8. CASE Join BY <1>8 DEF Join
<1>9. CASE ProcessEvents
  <2>1. finished' = 0 /\ gpc' \in {"loop", "dialog"} /\ wpc' = "stopped" /\ ~checked
        /\ gpc = "events" /\ finished = 1
    BY <1>9 DEF ProcessEvents
  <2>2. checked' = FALSE
    BY <1>9, <2>1, 1 > 0 DEF ProcessEvents
  <2>3. UNCHANGED <<port, mustTerminate, autoReconnect, restart, frame>>
    BY <1>9 DEF ProcessEvents
  <2>4. TypeOK'
    <3>1. finished' \in 0..MaxFinished BY <2>1
    <3> QED BY <3>1, <2>1, <2>2, <2>3, Zenon
  <2>5. Books' BY <2>1, <2>2
  <2> QED BY <2>4, <2>5
<1>10. CASE SioFinished
  <2>1. finished = 1 /\ finished' = 0 /\ wpc = "stopped" /\ gpc = "loop"
    BY <1>10 DEF SioFinished
  <2>2. checked' = FALSE /\ UNCHANGED <<wpc, port, mustTerminate, autoReconnect, gpc, restart, frame>>
    BY <1>10 DEF SioFinished
  <2>3. TypeOK'
    <3>1. finished' \in 0..MaxFinished BY <2>1
    <3> QED BY <3>1, <2>1, <2>2, Zenon
  <2>4. Books' BY <2>1, <2>2
  <2> QED BY <2>3, <2>4
<1>11. CASE UNCHANGED vars BY <1>11 DEF vars
<1>12. CASE DialogCancelled BY <1>12 DEF DialogCancelled
<1> QED BY <1>1, <1>2, <1>3, <1>4, <1>5, <1>6, <1>7, <1>8, <1>9, <1>10, <1>11, <1>12 DEF Next, WorkerNext

\* The books are kept: every variable has its type, and the button, the
\* thread and the queue agree.
THEOREM BooksKept == Spec => []IInv
<1>1. Init => IInv BY InitIInv
<1>2. IInv /\ [Next]_vars => IInv' BY NextIInv
<1> QED BY <1>1, <1>2, PTL DEF Spec

\* Every variable of thread, window and port keeps its type.
THEOREM TypeCorrect == Spec => []TypeOK
<1>1. IInv => TypeOK BY DEF IInv
<1> QED BY <1>1, BooksKept, PTL

\* The Start emulation button tells the truth in the event loop once the
\* finished() signals are delivered (startEmulationTriggered, sioFinished).
THEOREM ButtonCorrect == Spec => []ButtonTellsTruth
<1>1. IInv => ButtonTellsTruth
  BY DEF IInv, TypeOK, Books, OneThread, ButtonTellsTruth, GuiLabel
<1> QED BY <1>1, BooksKept, PTL

\* The port object is neither replaced nor deleted under a running thread
\* (startThread and waitOnPort against run).
THEOREM PortCorrect == Spec => PortStable
<1>1. IInv /\ [Next]_vars => [wpc # "stopped" => mPort' = mPort]_vars
  <2> SUFFICES ASSUME IInv, [Next]_vars, wpc # "stopped" PROVE mPort' = mPort
    BY DEF vars
  <2> USE DEF IInv, Gui, port
  <2>1. CASE WorkerNext BY <2>1, WorkerRuns
  <2>2. CASE Click BY <2>2 DEF Click, Toggle, StartThread, Books
  <2>3. CASE Dialog BY <2>3 DEF Dialog, Toggle, StartThread, Books
  <2>4. CASE Join BY <2>4 DEF Join
  <2>5. CASE StopAndRestart \/ Options \/ DialogCancelled \/ SetFlag \/ Cancel \/ ProcessEvents \/ SioFinished
    BY <2>5 DEF StopAndRestart, Options, DialogCancelled, SetFlag, Cancel, ProcessEvents, SioFinished
  <2>6. CASE UNCHANGED vars BY <2>6 DEF vars
  <2> QED BY <2>1, <2>2, <2>3, <2>4, <2>5, <2>6 DEF Next, WorkerNext
<1> QED BY <1>1, BooksKept, PTL DEF Spec, PortStable
=============================================================================
