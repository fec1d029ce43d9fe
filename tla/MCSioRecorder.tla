---------------------------- MODULE MCSioRecorder ----------------------------
\* Replays with a pause before each kind of frame, one that ends with a pause, a
\* data frame that nobody may read, and an empty one.
EXTENDS SioRecorder
MCTapes == {<<"cmd", "pause", "data", "cmd">>, <<"pause", "cmd", "data", "pause">>, <<>>}
=============================================================================
