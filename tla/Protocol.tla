------------------------------ MODULE Protocol ------------------------------
(***************************************************************************)
(* The frame codec, written twice in the repository: protocol.py for the   *)
(* host and protocol.c for the firmware.  A buffer is a sequence of bytes. *)
(*                                                                         *)
(* Text is a sequence of characters for Python (each one the sequence of   *)
(* its UTF-8 bytes) and a sequence of bytes for C.                         *)
(***************************************************************************)
EXTENDS Naturals, Sequences, SequencesExt

CONSTANT
  MaxText  \* MAX_TEXT_BYTES and FAI_MAX_TEXT_BYTES

ASSUME ProtocolAssumption == MaxText \in 0..255

Byte == 0..255

TagNotify == 1
TagPing == 2
TagAck == 129
TagPong == 130

\* AgentId and State of protocol.py, FaiAgentId and FaiState of protocol.h.
AgentIds == {0, 1, 2, 255}
States == 0..3

Notify(agent, state, text) ==
  [kind |-> "notify", agent |-> agent, state |-> state, text |-> text]
Ack(agent) == [kind |-> "ack", agent |-> agent]
Ping == [kind |-> "ping"]
Pong == [kind |-> "pong"]

\* What the dataclasses of protocol.py can be; each character of a text is the
\* sequence of its bytes.
PyFrames ==
  [kind : {"notify"}, agent : AgentIds, state : States, text : Seq(Seq(Byte))]
    \union {Ack(agent) : agent \in AgentIds} \union {Ping, Pong}

-----------------------------------------------------------------------------
(* Host: protocol.py.                                                      *)

\* str.encode("utf-8")
Utf8(text) == FlattenSeq(text)

\* (Mutant: no cut.)
PyTextBytesUncut(text) == Utf8(text)

\* The text's bytes, cut at MAX_TEXT_BYTES wherever that falls.
PyTextBytes(text) ==
  LET bytes == Utf8(text)
  IN  SubSeq(bytes, 1, IF Len(bytes) <= MaxText THEN Len(bytes) ELSE MaxText)

PyEncode(f) ==
  CASE f.kind = "notify" -> LET text == PyTextBytes(f.text)
                            IN <<TagNotify, f.agent, f.state, Len(text)>> \o text
    [] f.kind = "ack"    -> <<TagAck, f.agent>>
    [] f.kind = "ping"   -> <<TagPing>>
    [] f.kind = "pong"   -> <<TagPong>>

\* decode raises no ValueError.
PyDecodable(buf) ==
  /\ buf # <<>>
  /\ \/ /\ buf[1] = TagNotify
        /\ Len(buf) >= 4
        /\ Len(buf) >= 4 + buf[4]
        /\ buf[2] \in AgentIds
        /\ buf[3] \in States
     \/ /\ buf[1] = TagAck
        /\ Len(buf) >= 2
        /\ buf[2] \in AgentIds
     \/ buf[1] \in {TagPing, TagPong}

\* The frame decode returns, its text still in bytes.
PyDecode(buf) ==
  CASE buf[1] = TagNotify -> Notify(buf[2], buf[3], SubSeq(buf, 5, 4 + buf[4]))
    [] buf[1] = TagAck    -> Ack(buf[2])
    [] buf[1] = TagPing   -> Ping
    [] buf[1] = TagPong   -> Pong

-----------------------------------------------------------------------------
(* Firmware: protocol.c.                                                   *)

\* fai_protocol_encode; <<>> where it returns -1.
CEncode(f, cap) ==
  LET bytes == CASE f.kind = "notify" ->
                      <<TagNotify, f.agent, f.state, Len(f.text)>> \o f.text
                 [] f.kind = "ack"  -> <<TagAck, f.agent>>
                 [] f.kind = "ping" -> <<TagPing>>
                 [] f.kind = "pong" -> <<TagPong>>
  IN IF \/ f.kind = "notify" /\ Len(f.text) > MaxText
        \/ cap < Len(bytes)
     THEN <<>> ELSE bytes

\* (Mutant: a NOTIFY needs one byte more than it has.)
CDecodableLate(buf) ==
  /\ buf # <<>>
  /\ \/ /\ buf[1] = TagNotify
        /\ Len(buf) > 4
        /\ buf[4] <= MaxText
        /\ Len(buf) > 4 + buf[4]
     \/ /\ buf[1] = TagAck
        /\ Len(buf) >= 2
     \/ buf[1] \in {TagPing, TagPong}

\* fai_protocol_decode returns 0.
CDecodable(buf) ==
  /\ buf # <<>>
  /\ \/ /\ buf[1] = TagNotify
        /\ Len(buf) >= 4
        /\ buf[4] <= MaxText
        /\ Len(buf) >= 4 + buf[4]
     \/ /\ buf[1] = TagAck
        /\ Len(buf) >= 2
     \/ buf[1] \in {TagPing, TagPong}

\* What a FaiFrame can hold.
CFrames ==
  [kind : {"notify"}, agent : Byte, state : Byte, text : Seq(Byte)]
    \union {Ack(agent) : agent \in Byte} \union {Ping, Pong}

\* The frame it fills in: the agent and the state are not looked at.
CDecode(buf) ==
  CASE buf[1] = TagNotify -> Notify(buf[2], buf[3], SubSeq(buf, 5, 4 + buf[4]))
    [] buf[1] = TagAck    -> Ack(buf[2])
    [] buf[1] = TagPing   -> Ping
    [] buf[1] = TagPong   -> Pong

\* (Mutant: a header of three bytes.)
ConsumedShort(frame) ==
  CASE frame.kind = "notify" -> 3 + Len(frame.text)
    [] frame.kind = "ack"    -> 2
    [] OTHER                 -> 1

\* The bytes of a decoded frame (fai_ble_try_parse of ble_serial.c).
Consumed(frame) ==
  CASE frame.kind = "notify" -> 4 + Len(frame.text)
    [] frame.kind = "ack"    -> 2
    [] OTHER                 -> 1
=============================================================================
