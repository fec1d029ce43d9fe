----------------------------- MODULE FrameReader -----------------------------
(***************************************************************************)
(* How StandardSerialPortBackend::readCommandFrame (serialport-unix.cpp)   *)
(* finds the speed of the Atari, with the handshakes that frame a command  *)
(* (RI, DSR, CTS and none).  The Atari sends at one of two speeds.  A      *)
(* frame that is not heard is counted, every second one turns the port to  *)
(* the other speed, and after MaxRetries the reader gives up.              *)
(***************************************************************************)
EXTENDS Naturals

CONSTANT MaxRetries  \* 100 in the code

ASSUME RetriesAssumption == MaxRetries \in Nat

VARIABLES
  high,     \* mHighSpeed
  retries, total,  \* retries and totalRetries
  line,     \* whether the Atari sends at the high speed
  noise     \* frames of this call that the line damaged, and turns of the Atari

reader == <<high, retries, total, line, noise>>

ReaderTypeOK ==
  /\ high \in BOOLEAN /\ line \in BOOLEAN
  /\ retries \in {0, 1}
  /\ total \in 0..MaxRetries
  /\ noise \in Nat

ReaderInit ==
  /\ high = FALSE /\ line \in BOOLEAN
  /\ retries = 0 /\ total = 0 /\ noise = 0

\* open sets the normal speed.
NormalSpeed == high' = FALSE /\ UNCHANGED <<retries, total, line, noise>>

\* A call of readCommandFrame begins.
Begin ==
  /\ retries' = 0 /\ total' = 0 /\ noise' = 0
  /\ UNCHANGED <<high, line>>

\* A frame is heard: the Atari sends at the speed of the port.  What the call
\* has counted is gone.
Hear == line = high /\ Begin

\* Defect: retries is not reset when the speed is changed.
CountOn == retries + 1

\* retries, of which every second one changes the speed.
Count == IF retries + 1 = 2 THEN 0 ELSE retries + 1

\* Defect: the port goes back to the normal speed only.
SlowDown == FALSE

OtherSpeed == ~high

\* A frame is not heard, since it was damaged or sent at the other speed.
Miss ==
  /\ total < MaxRetries
  /\ noise' = IF line = high THEN noise + 1 ELSE noise
  /\ retries' = Count /\ total' = total + 1
  /\ high' = IF retries + 1 = 2 THEN OtherSpeed ELSE high
  /\ UNCHANGED line

\* The Atari changes its speed.  Bound: MaxRetries times at most while it is
\* not heard.
Turn ==
  /\ line' = ~line
  /\ noise < MaxRetries /\ noise' = noise + 1
  /\ UNCHANGED <<high, retries, total>>

-----------------------------------------------------------------------------
\* The reader gives up, which ends the emulation, only on a line that is bad:
\* at least half of the frames but one were damaged, or sent at a speed to which
\* the Atari had just turned.  That it looks for the speed costs it two frames.
GivesUpOnNoise == total = MaxRetries => 2 * noise + 2 >= MaxRetries
=============================================================================
