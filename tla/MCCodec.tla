------------------------------ MODULE MCCodec ------------------------------
(***************************************************************************)
(* What the user types and what arrives at a decoder, one character or one *)
(* byte after the other.  The two never meet: a behaviour has one of them. *)
(***************************************************************************)
EXTENDS Label

CONSTANTS
  FirstBytes,   \* the bytes that may arrive first,
  HeaderBytes,  \* as one of the next three,
  TextBytes,    \* and after them
  MaxLen        \* bound: length of the buffer

ASSUME MCCodecAssumption ==
  FirstBytes \union HeaderBytes \union TextBytes \subseteq Byte

VARIABLE buf    \* bytes that arrived at either decoder

\* "x", the space, the line break, a Cyrillic letter of two bytes, the no-break
\* space, and a word that parse_line knows.
MCChars == {<<120>>, Sp, Nl, <<209, 145>>, <<194, 160>>, StateWord(3)}

\* Only letters, of one byte and of two.
MCLetters == {<<120>>, <<209, 145>>}

Init == text = <<>> /\ buf = <<>>

Arriving ==
  CASE Len(buf) = 0     -> FirstBytes
    [] Len(buf) \in 1..3 -> HeaderBytes
    [] OTHER            -> TextBytes

Receive(b) ==
  /\ Len(buf) < MaxLen
  /\ buf' = Append(buf, b)

Next ==
  \/ buf = <<>> /\ (\E c \in Chars : Type(c)) /\ UNCHANGED buf
  \/ text = <<>> /\ (\E b \in Arriving : Receive(b)) /\ UNCHANGED text

Spec == Init /\ [][Next]_<<text, buf>>

\* A decoder that reads a stream may stop at the first frame it can decode:
\* bytes that come later do not change it, and encoding it gives back just
\* the bytes fai_ble_try_parse takes off its buffer (protocol.c, and
\* ble_serial.c:56-82, where a frame longer than the buffer is "handled").
StreamDecodable ==
  CDecodable(buf) =>
    LET frame == CDecode(buf)
        n     == Consumed(frame)
    IN  /\ n \in 1..Len(buf)
        /\ CEncode(frame, Len(buf)) = SubSeq(buf, 1, n)
        /\ \A m \in 1..Len(buf) :
             /\ CDecodable(SubSeq(buf, 1, m)) <=> m >= n
             /\ m >= n => CDecode(SubSeq(buf, 1, m)) = frame

\* Host and firmware read the same frame from the same bytes, apart from
\* what only one of them rejects: the host agents and states it has no name
\* for, the firmware texts that are too long ("identical frame layout",
\* PLAN.md:88).
DecodersAgree ==
  LET frame    == CDecode(buf)
      known    == /\ frame.kind \in {"notify", "ack"} => frame.agent \in AgentIds
                  /\ frame.kind = "notify" => frame.state \in States
      oversize == buf[1] = TagNotify /\ buf[4] > MaxText
  IN  /\ CDecodable(buf) =>
           /\ PyDecodable(buf) <=> known
           /\ PyDecodable(buf) => PyDecode(buf) = frame
      /\ PyDecodable(buf) => CDecodable(buf) \/ oversize
=============================================================================
