---------------------------- MODULE MCBleSerial ----------------------------
EXTENDS BleSerial

\* The bytes of agent 1 and of state 1 are the tag of NOTIFY, that of state
\* 2 is the tag of PING: what is left of a torn write may look like a frame.
MCFrames == {Notify(1, 1, <<<<65>>>>), Notify(0, 2, <<>>)}
=============================================================================
