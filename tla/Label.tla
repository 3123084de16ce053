------------------------------- MODULE Label -------------------------------
(***************************************************************************)
(* The label of a notification, from --text on the command line to the two *)
(* lines on the Flipper's screen: put into a line and read back (cli.py,   *)
(* socket_server.py), cut by encode (protocol.py), read by                 *)
(* fai_protocol_decode (protocol.c), wrapped by fai_wrap (render.c).       *)
(***************************************************************************)
EXTENDS CommandLine

CONSTANTS
  Chars,      \* symbols a label is made of: characters of UTF-8, and words
  LineChars,  \* FAI_TEXT_LINE_CHARS
  MaxLines,   \* FAI_TEXT_MAX_LINES
  MaxTyped    \* bound: characters of a label

ASSUME LabelAssumption ==
  /\ Chars \subseteq Seq(Byte) \ {<<>>}
  /\ \A c \in Chars :
       \/ Len(c) = Width(c[1])
       \/ c \in AgentWords \union StateWords \union {TextWord}
  /\ LineChars \in Nat \ {0}
  /\ MaxLines \in Nat \ {0}

VARIABLE text  \* the label given to flipper-indicator notify

\* A label one character longer.
Type(c) ==
  /\ Len(text) < MaxTyped
  /\ text' = Append(text, c)

\* The byte ' '.
Space == 32

-----------------------------------------------------------------------------
(* render.c.                                                               *)

\* (Mutant: no look for a space.)
LineLengthHard(bytes, pos) == LineChars

\* Where a line that begins at byte pos (from 1) ends when more than a line
\* is left: before its last space, or after LineChars bytes if that is
\* nowhere or at once.
LineLength(bytes, pos) ==
  LET spaces == {i \in 1..LineChars : bytes[pos + i - 1] = Space}
      last   == IF spaces = {} THEN LineChars + 1
                ELSE CHOOSE i \in spaces : \A j \in spaces : j <= i
  IN  IF last = 1 THEN LineChars ELSE last - 1

\* (Mutant: a byte is skipped whether it is a space or not.)
SkipOne(bytes, pos) == pos + 1

\* The first byte from pos on that is not a space.
SkipSpaces(bytes, pos) ==
  CHOOSE p \in pos..(Len(bytes) + 1) :
    /\ p = Len(bytes) + 1 \/ bytes[p] # Space
    /\ \A q \in pos..(p - 1) : bytes[q] = Space

\* fai_wrap: the first and last byte of each line it fills, from byte at[1] on
\* when at[2] lines are used.
fai_wrap(bytes) ==
  LET w[at \in Nat \X (0..MaxLines)] ==
        LET pos == at[1]
            end == pos + LineLength(bytes, pos) - 1
        IN  IF pos > Len(bytes) \/ at[2] = MaxLines THEN <<>>
            ELSE IF Len(bytes) - pos + 1 <= LineChars THEN <<<<pos, Len(bytes)>>>>
            ELSE <<<<pos, end>>>> \o w[<<SkipSpaces(bytes, end + 1), at[2] + 1>>]
  IN  w[<<1, 0>>]

-----------------------------------------------------------------------------
(* Properties.                                                             *)

Sent(agent, state) == PyEncode(Received(NotifyLine(agent, state, text)))
Shown == CDecode(Sent(0, 2)).text
Spans == fai_wrap(Shown)

\* The label up to a line break, and without what is blank at its end.
OneLine ==
  Utf8(CHOOSE p \in Prefixes(text) :
         /\ ToSet(p) \subseteq Chars \ {Nl}
         /\ p = <<>> \/ Last(p) \notin Blanks
         /\ \A i \in (Len(p) + 1)..Len(text) :
              text[i] \in Blanks \/ \E j \in (Len(p) + 1)..i : text[j] = Nl)

\* Every label arrives, whatever its length and whatever words, spaces and
\* line breaks are in it: as one frame with the agent and the state it was
\* sent with, and with the first bytes of the label, all of its first line when
\* that fits (cli.py:39-42, socket_server.py:41-69, protocol.py:61-62,
\* protocol.c:43-55).
LabelArrives ==
  \A agent \in AgentIds, state \in States :
    LET frame == CDecode(Sent(agent, state))
    IN  /\ CDecodable(Sent(agent, state))
        /\ Consumed(frame) = Len(Sent(agent, state))
        /\ frame.agent = agent /\ frame.state = state
        /\ IsPrefix(frame.text, OneLine)
        /\ Len(OneLine) <= MaxText => frame.text = OneLine

\* The first n symbols of a line and b bytes of the next.
Begun(line, n, b) ==
  SubSeq(line, 1, n) \o (IF b = 0 THEN <<>> ELSE <<SubSeq(line[n + 1], 1, b)>>)

\* A client that is killed before it has sent all of its line sends nothing,
\* or the same with less of the label, at whatever byte it is killed: what
\* readline returns at the end of the input is never taken for another
\* notification (socket_server.py:102, 109).  A character that is cut arrives
\* as U+FFFD (socket_server.py:107).
PartialLineHarmless ==
  \A agent \in AgentIds, state \in States :
    LET line == NotifyLine(agent, state, text)
    IN  \A n \in 0..Len(line) - 1 : \A b \in 0..Len(line[n + 1]) - 1 :
          LET got == Received(Begun(line, n, b))
          IN  \/ got = ParseError
              \/ /\ got.agent = agent /\ got.state = state
                 /\ \/ IsPrefix(Utf8(got.text), Utf8(text))
                    \/ /\ got.text # <<>> /\ Last(got.text) = Replacement
                       /\ IsPrefix(Utf8(Front(got.text)), Utf8(text))

\* What is cut off of a label begins with a character, not in the middle of one
\* (test_notify_unicode_truncation_does_not_corrupt_utf8 of test_protocol.py:44;
\* "truncated to 64 chars", PLAN.md:80).
CharactersKeptWhole ==
  Len(Shown) < Len(OneLine) => OneLine[Len(Shown) + 1] \notin 128..191

\* No line is longer than its buffer, and between and before the lines only
\* spaces are left out; what is cut off comes after the last line, only when
\* every line is used up (render.c:70-100).
NothingLostBetweenLines ==
  LET start(i) == IF i = 1 THEN 1 ELSE Spans[i - 1][2] + 1
      end      == IF Spans = <<>> THEN 0 ELSE Spans[Len(Spans)][2]
  IN  /\ \A i \in DOMAIN Spans :
           /\ Spans[i][2] - Spans[i][1] + 1 \in 1..LineChars
           /\ \A p \in start(i)..(Spans[i][1] - 1) : Shown[p] = Space
      /\ Len(Spans) < MaxLines =>
           \A p \in (end + 1)..Len(Shown) : Shown[p] = Space

\* A word is broken across lines only if the line had no space to break at
\* ("preferring to break on spaces", render.c:69).
WordsKeptWhole ==
  \A i \in DOMAIN Spans :
    LET first == Spans[i][1]
        last  == Spans[i][2]
    IN  last < Len(Shown) /\ Shown[last] # Space /\ Shown[last + 1] # Space
          => \A p \in (first + 1)..last : Shown[p] # Space
=============================================================================
