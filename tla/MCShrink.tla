------------------------------ MODULE MCShrink ------------------------------
\* Recordings of four steps, with every set of replays that could fail.
EXTENDS Shrink
=============================================================================
