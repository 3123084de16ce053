----------------------------- MODULE CodecProofs -----------------------------
(***************************************************************************)
(* Proofs about MCCodec, without its bounds: for all characters and bytes, *)
(* every length of label and buffer, and every limit of the text.          *)
(***************************************************************************)
EXTENDS MCCodec, ProtocolProofs

\* What was typed is a text, and what arrived are bytes.
CodecTypes == text \in Seq(Chars) /\ buf \in Seq(Byte)

\* Symbols whose last bytes are there.
Whole == {w \in Seq(Byte) : w # <<>> /\ ~(Len(w) < Width(w[1]))}

LEMMA WholeAreBytes == ASSUME NEW s \in Seq(Whole) PROVE s \in Seq(Seq(Byte))
<1>1. Whole \subseteq Seq(Byte)
  BY DEF Whole
<1>2. Len(s) \in Nat /\ \A i \in 1..Len(s) : s[i] \in Whole
  BY ElementOfSeq
<1> HIDE DEF Whole
<1>3. SubSeq(s, 1, Len(s)) \in Seq(Seq(Byte))
  BY <1>1, <1>2, SubSeqProperties
<1> QED
  BY <1>3, SubSeqFull

LEMMA CodecTypesInit == Init => CodecTypes
BY EmptySeq DEF Init, CodecTypes

LEMMA CodecTypesStep == CodecTypes /\ [Next]_<<text, buf>> => CodecTypes'
<1> SUFFICES ASSUME CodecTypes, [Next]_<<text, buf>> PROVE CodecTypes'
  OBVIOUS
<1>1. ASSUME NEW c \in Chars, Type(c), UNCHANGED buf PROVE CodecTypes'
  <2>1. Append(text, c) \in Seq(Chars)
    BY AppendProperties DEF CodecTypes
  <2> QED
    BY <1>1, <2>1 DEF Type, CodecTypes
<1>2. ASSUME NEW b \in Arriving, Receive(b), UNCHANGED text PROVE CodecTypes'
  <2>1. Len(buf) \in Nat
    BY DEF CodecTypes
  <2>2. b \in FirstBytes \/ b \in HeaderBytes \/ b \in TextBytes
    BY <2>1 DEF Arriving
  <2>3. b \in Byte
    BY <2>2, MCCodecAssumption DEF MCCodecAssumption
  <2>4. Append(buf, b) \in Seq(Byte)
    BY <2>3, AppendProperties DEF CodecTypes
  <2> QED
    BY <1>2, <2>4 DEF Receive, CodecTypes
<1>3. CASE UNCHANGED <<text, buf>>
  BY <1>3 DEF CodecTypes
<1> QED
  BY <1>1, <1>2, <1>3 DEF Next

LEMMA CodecTypeCorrect == Spec => []CodecTypes
<1> QED
  BY CodecTypesInit, CodecTypesStep, PTL DEF Spec

-----------------------------------------------------------------------------
(* The decoders.                                                           *)

\* fai_protocol_decode may be asked after every byte that arrives: the bytes it
\* takes for a frame are those that fai_protocol_encode makes of that frame,
\* fewer are no frame, and more do not change it.
THEOREM FramesInStream == Spec => []StreamDecodable
<1>1. CodecTypes => StreamDecodable
  BY DecodeType, EncodeDecoded, DecodeBeginning DEF CodecTypes, StreamDecodable
<1> QED
  BY <1>1, CodecTypeCorrect, PTL

\* What decode of protocol.py looks at, by the tag.
LEMMA PyByTag ==
  /\ buf[1] = TagNotify =>
       /\ PyDecode(buf) = Notify(buf[2], buf[3], SubSeq(buf, 5, 4 + buf[4]))
       /\ PyDecodable(buf) <=> /\ buf # <<>>
                               /\ Len(buf) >= 4
                               /\ Len(buf) >= 4 + buf[4]
                               /\ buf[2] \in AgentIds
                               /\ buf[3] \in States
  /\ buf[1] = TagAck =>
       /\ PyDecode(buf) = Ack(buf[2])
       /\ PyDecodable(buf) <=> /\ buf # <<>>
                               /\ Len(buf) >= 2
                               /\ buf[2] \in AgentIds
  /\ buf[1] = TagPing =>
       /\ PyDecode(buf) = Ping
       /\ PyDecodable(buf) <=> buf # <<>>
  /\ buf[1] = TagPong =>
       /\ PyDecode(buf) = Pong
       /\ PyDecodable(buf) <=> buf # <<>>
<1> USE DEF TagNotify, TagAck, TagPing, TagPong
<1>1. CASE buf[1] = TagNotify
  BY <1>1 DEF PyDecode, PyDecodable
<1>2. CASE buf[1] = TagAck
  BY <1>2 DEF PyDecode, PyDecodable
<1>3. CASE buf[1] = TagPing
  BY <1>3 DEF PyDecode, PyDecodable
<1>4. CASE buf[1] = TagPong
  BY <1>4 DEF PyDecode, PyDecodable
<1> QED
  BY <1>1, <1>2, <1>3, <1>4

\* The fields of the frames.
LEMMA FrameFields ==
  /\ \A agent, state, label :
       LET f == Notify(agent, state, label)
       IN  f.kind = "notify" /\ f.agent = agent /\ f.state = state
  /\ \A agent : Ack(agent).kind = "ack" /\ Ack(agent).agent = agent
  /\ Ping.kind = "ping" /\ Pong.kind = "pong"
BY DEF Notify, Ack, Ping, Pong

\* The two decoders of the repository agree on every sequence of bytes, but for
\* the agents and states only the host knows and the texts only the firmware
\* refuses (decode of protocol.py, fai_protocol_decode of protocol.c).
THEOREM DecodersAlike == Spec => []DecodersAgree
<1>1. ASSUME CodecTypes PROVE DecodersAgree
  <2>0. buf \in Seq(Byte)
    BY <1>1 DEF CodecTypes
  <2> DEFINE frame    == CDecode(buf)
             known    == /\ frame.kind \in {"notify", "ack"} => frame.agent \in AgentIds
                         /\ frame.kind = "notify" => frame.state \in States
             oversize == buf[1] = TagNotify /\ buf[4] > MaxText
  <2>1. ASSUME CDecodable(buf)
        PROVE  /\ PyDecodable(buf) <=> known
               /\ PyDecodable(buf) => PyDecode(buf) = frame
    <3>1. CASE buf[1] = TagNotify
      <4>1. frame = Notify(buf[2], buf[3], SubSeq(buf, 5, 4 + buf[4]))
        BY <3>1, ByTag
      <4>2. frame.kind = "notify" /\ frame.agent = buf[2] /\ frame.state = buf[3]
        BY <4>1, FrameFields
      <4>3. buf # <<>> /\ Len(buf) >= 4 /\ Len(buf) >= 4 + buf[4]
        BY <2>1, <3>1, ByTag
      <4> QED
        BY <3>1, <4>1, <4>2, <4>3, PyByTag
    <3>2. CASE buf[1] = TagAck
      <4>1. frame = Ack(buf[2]) /\ buf # <<>> /\ Len(buf) >= 2
        BY <2>1, <3>2, ByTag
      <4>2. frame.kind = "ack" /\ frame.agent = buf[2]
        BY <4>1, FrameFields
      <4> QED
        BY <3>2, <4>1, <4>2, PyByTag
    <3>3. CASE buf[1] = TagPing \/ buf[1] = TagPong
      <4>1. /\ frame = PyDecode(buf) /\ PyDecodable(buf)
            /\ frame.kind \in {"ping", "pong"}
        BY <2>1, <3>3, ByTag, PyByTag, FrameFields
      <4> QED
        BY <4>1
    <3>4. \/ buf[1] = TagNotify
          \/ buf[1] = TagAck
          \/ buf[1] = TagPing \/ buf[1] = TagPong
      BY <2>0, <2>1, DecodableCases
    <3> HIDE DEF frame, known
    <3> QED
      BY <3>1, <3>2, <3>3, <3>4
  <2>2. ASSUME PyDecodable(buf) PROVE CDecodable(buf) \/ oversize
    <3>1. buf # <<>> /\ buf[1] \in {TagNotify, TagAck, TagPing, TagPong}
      BY <2>2 DEF PyDecodable
    <3>2. CASE buf[1] = TagNotify
      <4>1. buf # <<>> /\ Len(buf) >= 4 /\ Len(buf) >= 4 + buf[4]
        BY <2>2, <3>2, PyByTag
      <4>2. /\ Len(buf) \in Nat /\ 4 \in 1..Len(buf)
            /\ \A i \in 1..Len(buf) : buf[i] \in Byte
        BY <2>0, <3>1, <4>1, FirstByte
      <4>3. buf[4] \in 0..255
        BY <4>2 DEF Byte
      <4>4. MaxText \in 0..255
        BY ProtocolAssumption DEF ProtocolAssumption
      <4>5. buf[4] <= MaxText \/ buf[4] > MaxText
        BY <4>3, <4>4
      <4> QED
        BY <3>2, <4>1, <4>5, ByTag
    <3>3. CASE buf[1] # TagNotify
      BY <2>2, <3>1, <3>3, ByTag, PyByTag
    <3> QED
      BY <3>2, <3>3
  <2> QED
    BY <2>1, <2>2 DEF DecodersAgree
<1> QED
  BY <1>1, CodecTypeCorrect, PTL
-----------------------------------------------------------------------------
(* The lines on the screen.                                                *)

\* A line has at least one byte and fits its buffer. It breaks where a space
\* follows, unless there is none to break at.
LEMMA LineLengthBreaks ==
  ASSUME NEW bytes, NEW pos \in Nat
  PROVE  LET n == LineLength(bytes, pos)
         IN  /\ n \in 1..LineChars
             /\ \/ bytes[pos + n] = Space
                \/ \A i \in 2..n : bytes[pos + i - 1] # Space
<1> DEFINE spaces == {i \in 1..LineChars : bytes[pos + i - 1] = Space}
           last   == IF spaces = {} THEN LineChars + 1
                     ELSE CHOOSE i \in spaces : \A j \in spaces : j <= i
           n      == LineLength(bytes, pos)
<1>1. LineChars \in Nat \ {0}
  BY LabelAssumption DEF LabelAssumption
<1>2. n = IF last = 1 THEN LineChars ELSE last - 1
  BY DEF LineLength
<1>3. CASE spaces = {}
  <2>1. last = LineChars + 1 /\ LineChars + 1 # 1
    BY <1>1, <1>3
  <2>2. n = LineChars
    BY <1>1, <1>2, <2>1
  <2>3. \A i \in 2..LineChars : i \in 1..LineChars
    BY <1>1
  <2>4. \A i \in 1..LineChars : bytes[pos + i - 1] # Space
    BY <1>3
  <2>5. \A i \in 2..LineChars : bytes[pos + i - 1] # Space
    BY <2>3, <2>4
  <2>6. LineChars \in 1..LineChars
    BY <1>1
  <2> HIDE DEF n
  <2> QED
    BY <2>2, <2>5, <2>6 DEF n
<1>4. CASE spaces # {}
  <2>1. spaces \in SUBSET (0..LineChars)
    BY <1>1
  <2>2. \E i \in spaces : \A j \in spaces : j <= i
    <3> HIDE DEF spaces
    <3> QED
      BY <1>1, <1>4, <2>1, Greatest
  <2>3. last \in spaces /\ \A j \in spaces : j <= last
    <3> DEFINE greatest == CHOOSE i \in spaces : \A j \in spaces : j <= i
    <3>1. last = greatest
      BY <1>4
    <3>2. greatest \in spaces /\ \A j \in spaces : j <= greatest
      <4> HIDE DEF spaces
      <4> QED
        BY <2>2
    <3> HIDE DEF last, greatest
    <3> QED
      BY <3>1, <3>2
  <2>4. last \in 1..LineChars /\ bytes[pos + last - 1] = Space
    BY <2>3
  <2> HIDE DEF last
  <2>5. CASE last = 1
    <3>1. n = LineChars
      BY <1>2, <2>5
    <3>2. \A i \in 2..LineChars : i \in 1..LineChars /\ ~(i <= 1)
      BY <1>1
    <3> QED
      BY <1>1, <2>3, <2>5, <3>1, <3>2
  <2>6. CASE last # 1
    <3>1. n = last - 1 /\ n \in 1..LineChars /\ pos + n = pos + last - 1
      BY <1>1, <1>2, <2>4, <2>6
    <3> QED
      BY <2>4, <3>1
  <2> QED
    BY <2>5, <2>6
<1> QED
  BY <1>3, <1>4

\* The spaces end, at the latest behind the last byte.
LEMMA SpacesEnd ==
  ASSUME NEW bytes \in Seq(Byte), NEW pos \in 1..Len(bytes) + 1
  PROVE  LET p == SkipSpaces(bytes, pos)
         IN  /\ p \in pos..Len(bytes) + 1
             /\ p = Len(bytes) + 1 \/ bytes[p] # Space
             /\ \A q \in pos..p - 1 : bytes[q] = Space
<1> DEFINE L == Len(bytes)
           T == {p \in pos..L + 1 : p = L + 1 \/ bytes[p] # Space}
           Ends(p) == /\ p = L + 1 \/ bytes[p] # Space
                      /\ \A q \in pos..p - 1 : bytes[q] = Space
<1>1. L \in Nat /\ pos \in Nat
  OBVIOUS
<1> HIDE DEF L
<1>2. L + 1 \in T /\ T \in SUBSET Nat
  BY <1>1 DEF L
<1>3. PICK p \in T : \A q \in T : p <= q
  BY <1>2, NatMin
<1>4. \A q \in pos..p - 1 : bytes[q] = Space
  <2> SUFFICES ASSUME NEW q \in pos..p - 1, bytes[q] # Space PROVE FALSE
    OBVIOUS
  <2>1. q \in pos..L + 1 /\ ~(p <= q)
    BY <1>1, <1>3
  <2> QED
    BY <1>3, <2>1
<1>5. \E r \in pos..L + 1 : Ends(r)
  BY <1>3, <1>4
<1> HIDE DEF Ends
<1>6. LET r == CHOOSE r \in pos..L + 1 : Ends(r) IN r \in pos..L + 1 /\ Ends(r)
  BY <1>5
<1>7. SkipSpaces(bytes, pos) = CHOOSE r \in pos..L + 1 : Ends(r)
  BY DEF SkipSpaces, Ends, L
<1> QED
  BY <1>6, <1>7 DEF Ends, L

\* The last byte of a line that has others after it, and where they begin.
LineEnd(bytes, pos) == pos + LineLength(bytes, pos) - 1
LineAfter(bytes, pos) == SkipSpaces(bytes, LineEnd(bytes, pos) + 1)

LEMMA LineBounds ==
  ASSUME NEW bytes \in Seq(Byte), NEW pos \in Nat,
         Len(bytes) - pos + 1 > LineChars
  PROVE  /\ LineEnd(bytes, pos) \in Nat
         /\ LineEnd(bytes, pos) - pos + 1 \in 1..LineChars
         /\ LineEnd(bytes, pos) < Len(bytes)
         /\ LineAfter(bytes, pos) \in LineEnd(bytes, pos) + 1 .. Len(bytes) + 1
<1>1. LineChars \in Nat \ {0} /\ Len(bytes) \in Nat
  BY LabelAssumption DEF LabelAssumption
<1>2. LineLength(bytes, pos) \in 1..LineChars
  BY LineLengthBreaks
<1>3. /\ LineEnd(bytes, pos) \in Nat
      /\ LineEnd(bytes, pos) - pos + 1 \in 1..LineChars
      /\ LineEnd(bytes, pos) < Len(bytes)
      /\ LineEnd(bytes, pos) + 1 \in 1..Len(bytes) + 1
  BY <1>1, <1>2 DEF LineEnd
<1>4. LineAfter(bytes, pos) \in LineEnd(bytes, pos) + 1 .. Len(bytes) + 1
  BY <1>3, SpacesEnd DEF LineAfter
<1> QED
  BY <1>3, <1>4

\* Where a line may begin, and how many lines are used by then.
Places == Nat \X (0..MaxLines)

\* The loop of fai_wrap: nothing more to be shown, the last line, or a line and
\* what the loop goes on to do.
WrapLoop(bytes, w) ==
  \A pos \in Nat, used \in 0..MaxLines :
    w[<<pos, used>>] =
      IF pos > Len(bytes) \/ used = MaxLines THEN <<>>
      ELSE IF Len(bytes) - pos + 1 <= LineChars THEN <<<<pos, Len(bytes)>>>>
      ELSE <<<<pos, LineEnd(bytes, pos)>>>>
             \o w[<<LineAfter(bytes, pos), used + 1>>]

LEMMA WrapEnds ==
  ASSUME NEW bytes \in Seq(Byte)
  PROVE  \E w \in [Places -> Seq(Nat \X Nat)] :
           fai_wrap(bytes) = w[<<1, 0>>] /\ WrapLoop(bytes, w)
<1> DEFINE S == Places
           T == Seq(Nat \X Nat)
           L == Len(bytes)
           m == [at \in S |-> MaxLines - at[2]]
           To(at) == <<LineAfter(bytes, at[1]), at[2] + 1>>
           Goes(at) == /\ ~(at[1] > L \/ at[2] = MaxLines)
                       /\ ~(L - at[1] + 1 <= LineChars)
           Body(g, at) ==
             IF at[1] > L \/ at[2] = MaxLines THEN <<>>
             ELSE IF L - at[1] + 1 <= LineChars THEN <<<<at[1], L>>>>
             ELSE <<<<at[1], LineEnd(bytes, at[1])>>>> \o g[To(at)]
           G == [p \in [S -> T] \X S |-> Body(p[1], p[2])]
           Loop(g, at) ==
             LET pos == at[1]
                 end == pos + LineLength(bytes, pos) - 1
             IN  IF pos > Len(bytes) \/ at[2] = MaxLines THEN <<>>
                 ELSE IF Len(bytes) - pos + 1 <= LineChars THEN <<<<pos, Len(bytes)>>>>
                 ELSE <<<<pos, end>>>> \o g[<<SkipSpaces(bytes, end + 1), at[2] + 1>>]
           wrap == CHOOSE w : w = [at \in S |-> Loop(w, at)]
<1>1. MaxLines \in Nat \ {0} /\ LineChars \in Nat \ {0} /\ L \in Nat
  BY LabelAssumption DEF LabelAssumption
<1>0. \A a, b \in Nat : <<<<a, b>>>> \in T
  OBVIOUS
<1>2. m \in [S -> Nat] /\ \A at \in S : at[1] \in Nat /\ at[2] \in 0..MaxLines
  BY <1>1 DEF Places
<1>3. T # {} /\ <<>> \in T
  BY EmptySeq
<1>4. ASSUME NEW at \in S, Goes(at)
      PROVE  /\ To(at) \in S
             /\ m[To(at)] < m[at]
             /\ LineEnd(bytes, at[1]) \in Nat
  <2>1. at[1] \in Nat /\ at[2] \in 0..MaxLines /\ at[2] # MaxLines /\ L - at[1] + 1 > LineChars
    BY <1>1, <1>2, <1>4
  <2>2. /\ LineEnd(bytes, at[1]) \in Nat
        /\ LineAfter(bytes, at[1]) \in LineEnd(bytes, at[1]) + 1 .. L + 1
    BY <2>1, LineBounds
  <2>3. LineAfter(bytes, at[1]) \in Nat /\ at[2] + 1 \in 0..MaxLines
    BY <1>1, <2>1, <2>2
  <2>4. To(at) \in S /\ To(at)[2] = at[2] + 1
    BY <2>3 DEF Places
  <2>5. m[To(at)] = MaxLines - (at[2] + 1) /\ m[at] = MaxLines - at[2]
    BY <2>4
  <2>6. m[To(at)] < m[at]
    BY <1>1, <2>1, <2>5
  <2> QED
    BY <2>2, <2>4, <2>6
<1>5. ASSUME NEW g, NEW at \in S, Goes(at) => g[To(at)] \in T
      PROVE  Body(g, at) \in T
  <2>1. at[1] \in Nat
    BY <1>2
  <2>2. <<<<at[1], L>>>> \in T
    BY <1>1, <1>0, <2>1
  <2>3. CASE Goes(at)
    <3>1. <<<<at[1], LineEnd(bytes, at[1])>>>> \in T
      <4> HIDE DEF T, To
      <4> QED
        BY <1>4, <1>0, <2>1, <2>3
    <3>2. <<<<at[1], LineEnd(bytes, at[1])>>>> \o g[To(at)] \in T
      BY <1>5, <2>3, <3>1, ConcatProperties
    <3> HIDE DEF T, To
    <3> QED
      BY <2>3, <3>2
  <2>4. CASE ~Goes(at)
    <3> HIDE DEF T, To
    <3> QED
      BY <1>3, <2>2, <2>4
  <2> QED
    BY <2>3, <2>4
<1>6. G \in [[S -> T] \X S -> T]
  <2>1. ASSUME NEW g \in [S -> T], NEW at \in S PROVE Body(g, at) \in T
    <3>1. Goes(at) => g[To(at)] \in T
      <4> HIDE DEF S, T, To
      <4> QED
        BY <1>4, <2>1
    <3> QED
      BY <1>5, <3>1
  <2> HIDE DEF S, T, Body
  <2> QED
    BY <2>1
<1>7. Recurs(S, T, m, G)
  <2>1. ASSUME NEW g \in [S -> T], NEW h \in [S -> T], NEW at \in S,
               \A b \in S : m[b] < m[at] => g[b] = h[b]
        PROVE  Body(g, at) = Body(h, at)
    <3>1. Goes(at) => g[To(at)] = h[To(at)]
      BY <1>4, <2>1
    <3> HIDE DEF S, T, To
    <3> QED
      BY <3>1
  <2> HIDE DEF S, T, m, Body
  <2> QED
    BY <2>1 DEF Recurs
<1>8. PICK f \in [S -> T] : Satisfies(S, G, f)
  <2> HIDE DEF S, T, m, G
  <2> QED
    BY <1>2, <1>3, <1>6, <1>7, RecursionExists
<1>9. f = [at \in S |-> Body(f, at)]
  <2> HIDE DEF S, T, Body
  <2> QED
    BY <1>8 DEF Satisfies
<1>10. \A g, at : Loop(g, at) = Body(g, at)
  BY DEF LineEnd, LineAfter
<1>11. f = [at \in S |-> Loop(f, at)]
  <2> HIDE DEF S, T, Body, Loop
  <2> QED
    BY <1>9, <1>10
<1>12. wrap = [at \in S |-> Loop(wrap, at)]
  <2> HIDE DEF S, Loop
  <2> QED
    BY <1>11, Zenon
<1>13. fai_wrap(bytes) = wrap[<<1, 0>>]
  BY Zenon DEF fai_wrap, Places
<1> HIDE DEF wrap
<1>14. \A at \in S : wrap[at] = Body(wrap, at)
  <2> HIDE DEF S, Loop, Body
  <2> QED
    BY <1>10, <1>12
<1>15. wrap \in [S -> T]
  <2>1. wrap = [at \in S |-> wrap[at]]
    <3> HIDE DEF S, Loop
    <3> QED
      BY <1>12
  <2>2. ASSUME NEW at \in S, \A b \in S : m[b] < m[at] => wrap[b] \in T
        PROVE  wrap[at] \in T
    <3>1. Goes(at) => wrap[To(at)] \in T
      BY <1>4, <2>2
    <3>2. Body(wrap, at) \in T
      BY <1>5, <3>1
    <3> HIDE DEF S, T, Body
    <3> QED
      BY <1>14, <3>2
  <2>3. Climbs(S, m, {at \in S : wrap[at] \in T})
    <3> HIDE DEF S, T, m
    <3> QED
      BY <2>2 DEF Climbs
  <2> HIDE DEF S, T, m
  <2> QED
    BY <1>2, <2>1, <2>3, RecursionType
<1>16. WrapLoop(bytes, wrap)
  <2> SUFFICES ASSUME NEW pos \in Nat, NEW used \in 0..MaxLines
               PROVE  wrap[<<pos, used>>] =
                        IF pos > Len(bytes) \/ used = MaxLines THEN <<>>
                        ELSE IF Len(bytes) - pos + 1 <= LineChars THEN <<<<pos, Len(bytes)>>>>
                        ELSE <<<<pos, LineEnd(bytes, pos)>>>>
                               \o wrap[<<LineAfter(bytes, pos), used + 1>>]
    BY DEF WrapLoop
  <2>1. <<pos, used>> \in S /\ <<pos, used>>[1] = pos /\ <<pos, used>>[2] = used
    BY DEF Places
  <2>2. wrap[<<pos, used>>] = Body(wrap, <<pos, used>>)
    <3> HIDE DEF S, Body
    <3> QED
      BY <1>14, <2>1
  <2> QED
    BY <2>1, <2>2
<1> QED
  BY <1>13, <1>15, <1>16

\* Where line i, or what is left after the last one, begins if no space is
\* skipped.
Resume(pos, lines, i) == IF i = 1 THEN pos ELSE lines[i - 1][2] + 1

\* NothingLostBetweenLines and WordsKeptWhole, of lines that begin at byte pos
\* when there is room for n.
Kept(bytes, pos, n, lines) ==
  /\ Len(lines) <= n
  /\ \A i \in 1..Len(lines) :
       /\ lines[i][2] - lines[i][1] + 1 \in 1..LineChars
       /\ \A p \in Resume(pos, lines, i)..lines[i][1] - 1 : bytes[p] = Space
  /\ Len(lines) < n =>
       \A p \in Resume(pos, lines, Len(lines) + 1)..Len(bytes) : bytes[p] = Space

Unbroken(bytes, line) ==
  line[2] < Len(bytes) /\ bytes[line[2]] # Space /\ bytes[line[2] + 1] # Space
    => \A p \in line[1] + 1..line[2] : bytes[p] # Space

\* A line that is full takes its part of the bytes.
LEMMA FullLine ==
  ASSUME NEW bytes \in Seq(Byte), NEW pos \in Nat, NEW n \in Nat,
         Len(bytes) - pos + 1 > LineChars, NEW rest \in Seq(Nat \X Nat),
         Kept(bytes, LineAfter(bytes, pos), n, rest),
         \A i \in 1..Len(rest) : Unbroken(bytes, rest[i])
  PROVE  LET lines == <<<<pos, LineEnd(bytes, pos)>>>> \o rest
         IN  /\ Kept(bytes, pos, n + 1, lines)
             /\ \A i \in 1..Len(lines) : Unbroken(bytes, lines[i])
<1> DEFINE e == LineEnd(bytes, pos)
           next == LineAfter(bytes, pos)
           L == Len(bytes)
           R == Len(rest)
           one == <<<<pos, e>>>>
           lines == one \o rest
<1>1. LineChars \in Nat \ {0} /\ L \in Nat /\ R \in Nat
  BY LabelAssumption DEF LabelAssumption
<1>2. /\ e \in Nat /\ e - pos + 1 \in 1..LineChars /\ e < L
      /\ next \in e + 1 .. L + 1
  BY LineBounds
<1>3. \A p \in e + 1..next - 1 : bytes[p] = Space
  <2>1. e + 1 \in 1..Len(bytes) + 1
    BY <1>1, <1>2
  <2> QED
    BY <2>1, SpacesEnd DEF LineAfter
<1>4. one \in Seq(Nat \X Nat) /\ Len(one) = 1 /\ one[1] = <<pos, e>>
  BY <1>2
<1>5. /\ lines \in Seq(Nat \X Nat)
      /\ Len(lines) = R + 1
      /\ lines[1] = <<pos, e>>
      /\ \A i \in 1..R : lines[i + 1] = rest[i]
  <2>1. /\ lines \in Seq(Nat \X Nat)
        /\ Len(lines) = 1 + R
        /\ \A i \in 1..1 + R : lines[i] = IF i <= 1 THEN one[i] ELSE rest[i - 1]
    BY <1>4, ConcatProperties
  <2>2. 1 \in 1..1 + R /\ 1 + R = R + 1
    BY <1>1
  <2>3. \A i \in 1..R : i + 1 \in 1..1 + R /\ ~(i + 1 <= 1) /\ i + 1 - 1 = i
    BY <1>1
  <2> HIDE DEF lines, one, R
  <2>4. lines[1] = <<pos, e>>
    BY <1>4, <2>1, <2>2
  <2>5. \A i \in 1..R : lines[i + 1] = rest[i]
    <3> SUFFICES ASSUME NEW i \in 1..R PROVE lines[i + 1] = rest[i]
      OBVIOUS
    <3>1. lines[i + 1] = rest[i + 1 - 1]
      BY <2>1, <2>3
    <3> QED
      BY <2>3, <3>1
  <2> QED
    BY <2>1, <2>2, <2>4, <2>5
<1>6. /\ R <= n
      /\ \A i \in 1..R :
           /\ rest[i][2] - rest[i][1] + 1 \in 1..LineChars
           /\ \A p \in Resume(next, rest, i)..rest[i][1] - 1 : bytes[p] = Space
      /\ R < n => \A p \in Resume(next, rest, R + 1)..L : bytes[p] = Space
      /\ \A i \in 1..R : Unbroken(bytes, rest[i])
      /\ \A i \in 1..R : rest[i][1] \in Nat /\ rest[i][2] \in Nat
  <2>1. \A i \in 1..R : rest[i] \in Nat \X Nat
    BY ElementOfSeq
  <2>2. \A i \in 1..R : rest[i][1] \in Nat /\ rest[i][2] \in Nat
    BY <2>1
  <2> QED
    BY <2>2 DEF Kept
<1>7. Unbroken(bytes, <<pos, e>>)
  <2>1. LineLength(bytes, pos) \in 1..LineChars
    BY LineLengthBreaks
  <2>2. pos + LineLength(bytes, pos) = e + 1
    BY <1>1, <2>1 DEF LineEnd
  <2>3. CASE bytes[e + 1] = Space
    BY <2>3 DEF Unbroken
  <2>4. CASE \A i \in 2..LineLength(bytes, pos) : bytes[pos + i - 1] # Space
    <3>1. ASSUME NEW p \in pos + 1..e PROVE bytes[p] # Space
      <4>1. p - pos + 1 \in 2..LineLength(bytes, pos) /\ pos + (p - pos + 1) - 1 = p
        BY <1>2, <2>1, <2>2
      <4> QED
        BY <2>4, <4>1
    <3> QED
      BY <3>1 DEF Unbroken
  <2> QED
    BY <2>2, <2>3, <2>4, LineLengthBreaks
<1> HIDE DEF e, next, L, R, one, lines
\* Behind the full line come its spaces, and then what comes of the rest.
<1>8. ASSUME NEW i \in 1..R + 1, NEW to \in Nat,
             \A p \in Resume(next, rest, i)..to : bytes[p] = Space
      PROVE  \A p \in Resume(pos, lines, i + 1)..to : bytes[p] = Space
  <2>0. i + 1 # 1 /\ i + 1 - 1 = i
    BY <1>1
  <2>1. Resume(pos, lines, i + 1) = lines[i][2] + 1
    BY <2>0 DEF Resume
  <2>2. CASE i = 1
    <3>1. Resume(pos, lines, i + 1) = e + 1 /\ Resume(next, rest, i) = next
      BY <1>5, <2>1, <2>2 DEF Resume
    <3>2. ASSUME NEW p \in e + 1..to PROVE bytes[p] = Space
      <4>1. p \in e + 1..next - 1 \/ p \in next..to
        BY <1>1, <1>2
      <4> QED
        BY <1>3, <1>8, <3>1, <4>1
    <3> QED
      BY <3>1, <3>2
  <2>3. CASE i # 1
    <3>1. i - 1 \in 1..R /\ i - 1 + 1 = i
      BY <1>1, <2>3
    <3>2. lines[i] = rest[i - 1]
      BY <1>5, <3>1
    <3>3. Resume(next, rest, i) = rest[i - 1][2] + 1
      BY <2>3 DEF Resume
    <3> QED
      BY <1>8, <2>1, <3>2, <3>3
  <2> QED
    BY <2>2, <2>3
<1>9. ASSUME NEW i \in 1..R + 1
      PROVE  /\ lines[i][2] - lines[i][1] + 1 \in 1..LineChars
             /\ \A p \in Resume(pos, lines, i)..lines[i][1] - 1 : bytes[p] = Space
             /\ Unbroken(bytes, lines[i])
  <2>1. CASE i = 1
    <3>1. lines[i][1] = pos /\ lines[i][2] = e /\ Resume(pos, lines, i) = pos
      BY <1>5, <2>1 DEF Resume
    <3>2. \A p \in pos..pos - 1 : FALSE
      OBVIOUS
    <3> QED
      BY <1>2, <1>5, <1>7, <2>1, <3>1, <3>2
  <2>2. CASE i # 1
    <3>1. i - 1 \in 1..R /\ i - 1 \in 1..R + 1 /\ i - 1 + 1 = i
      BY <1>1, <2>2
    <3>2. lines[i] = rest[i - 1]
      BY <1>5, <3>1
    <3>3. \A p \in Resume(next, rest, i - 1)..rest[i - 1][1] - 1 : bytes[p] = Space
      BY <1>6, <3>1
    <3>4. \A p \in Resume(pos, lines, i)..rest[i - 1][1] - 1 : bytes[p] = Space
      <4>1. CASE rest[i - 1][1] - 1 \in Nat
        BY <1>8, <3>1, <3>3, <4>1
      <4>2. CASE rest[i - 1][1] = 0
        <5>1. Resume(pos, lines, i) \in Nat
          <6>1. lines[i - 1][2] \in Nat
            <7>1. CASE i - 1 = 1
              BY <1>2, <1>5, <7>1
            <7>2. CASE i - 1 # 1
              <8>1. i - 1 - 1 \in 1..R /\ i - 1 - 1 + 1 = i - 1
                BY <1>1, <3>1, <7>2
              <8> QED
                BY <1>5, <1>6, <8>1
            <7> QED
              BY <7>1, <7>2
          <6> QED
            BY <2>2, <6>1 DEF Resume
        <5> QED
          BY <4>2, <5>1
      <4>3. \A k \in Nat : k - 1 \in Nat \/ k = 0
        OBVIOUS
      <4>4. rest[i - 1][1] \in Nat
        BY <1>6, <3>1
      <4> QED
        BY <4>1, <4>2, <4>3, <4>4
    <3> QED
      BY <1>6, <3>1, <3>2, <3>4
  <2> QED
    BY <2>1, <2>2
<1>10. Len(lines) < n + 1 =>
         \A p \in Resume(pos, lines, Len(lines) + 1)..L : bytes[p] = Space
  <2> SUFFICES ASSUME Len(lines) < n + 1
               PROVE  \A p \in Resume(pos, lines, Len(lines) + 1)..L : bytes[p] = Space
    OBVIOUS
  <2>1. R + 1 \in 1..R + 1 /\ R < n
    BY <1>1, <1>5, <1>6
  <2>2. \A p \in Resume(next, rest, R + 1)..L : bytes[p] = Space
    BY <1>6, <2>1
  <2>3. \A p \in Resume(pos, lines, R + 1 + 1)..L : bytes[p] = Space
    BY <1>1, <1>8, <2>1, <2>2
  <2> QED
    BY <1>5, <2>3
<1>11. Len(lines) <= n + 1
  BY <1>1, <1>5, <1>6
<1>12. Kept(bytes, pos, n + 1, lines)
  BY <1>5, <1>9, <1>10, <1>11 DEF Kept, L
<1>13. \A i \in 1..Len(lines) : Unbroken(bytes, lines[i])
  BY <1>5, <1>9
<1> QED
  BY <1>12, <1>13 DEF lines, one, e

\* fai_wrap keeps all that has room but the spaces between its lines, and the
\* words that fit a line.
LEMMA WrapKeeps ==
  ASSUME NEW bytes \in Seq(Byte)
  PROVE  LET lines == fai_wrap(bytes)
         IN  /\ lines \in Seq(Nat \X Nat)
             /\ Kept(bytes, 1, MaxLines, lines)
             /\ \A i \in 1..Len(lines) : Unbroken(bytes, lines[i])
<1>1. PICK w \in [Places -> Seq(Nat \X Nat)] :
        fai_wrap(bytes) = w[<<1, 0>>] /\ WrapLoop(bytes, w)
  BY WrapEnds
<1>2. MaxLines \in Nat \ {0} /\ LineChars \in Nat \ {0} /\ Len(bytes) \in Nat
  BY LabelAssumption DEF LabelAssumption
<1> DEFINE Good(at) == /\ Kept(bytes, at[1], MaxLines - at[2], w[at])
                       /\ \A i \in 1..Len(w[at]) : Unbroken(bytes, w[at][i])
           m == [at \in Places |-> MaxLines - at[2]]
<1>3. m \in [Places -> Nat]
  BY <1>2 DEF Places
<1>4. ASSUME NEW at \in Places, \A b \in Places : m[b] < m[at] => Good(b)
      PROVE  Good(at)
  <2>1. PICK pos \in Nat, used \in 0..MaxLines : at = <<pos, used>>
    BY DEF Places
  <2>2. w[at] =
          IF pos > Len(bytes) \/ used = MaxLines THEN <<>>
          ELSE IF Len(bytes) - pos + 1 <= LineChars THEN <<<<pos, Len(bytes)>>>>
          ELSE <<<<pos, LineEnd(bytes, pos)>>>>
                 \o w[<<LineAfter(bytes, pos), used + 1>>]
    BY <1>1, <2>1 DEF WrapLoop
  <2>3. at[1] = pos /\ at[2] = used /\ m[at] = MaxLines - used
    BY <2>1
  <2> HIDE DEF m
  <2>4. CASE pos > Len(bytes) \/ used = MaxLines
    <3>1. w[at] = <<>> /\ Len(<<>>) = 0
      BY <2>2, <2>4
    <3>2. 0 <= MaxLines - used
      BY <1>2
    <3>3. 0 < MaxLines - used => \A p \in Resume(pos, <<>>, 0 + 1)..Len(bytes) : FALSE
      BY <1>2, <2>4 DEF Resume
    <3> QED
      BY <2>3, <3>1, <3>2, <3>3 DEF Kept
  <2>5. CASE /\ ~(pos > Len(bytes) \/ used = MaxLines)
             /\ Len(bytes) - pos + 1 <= LineChars
    <3> DEFINE one == <<<<pos, Len(bytes)>>>>
    <3>1. w[at] = one
      BY <2>2, <2>5
    <3>2. Len(one) = 1 /\ one[1] = <<pos, Len(bytes)>>
      BY <1>2
    <3>3. /\ 1 <= MaxLines - used
          /\ Len(bytes) - pos + 1 \in 1..LineChars
      BY <1>2, <2>5
    <3>4. \A p \in Resume(pos, one, 1)..pos - 1 : FALSE
      BY DEF Resume
    <3>5. \A p \in Resume(pos, one, 1 + 1)..Len(bytes) : FALSE
      <4>1. Resume(pos, one, 1 + 1) = Len(bytes) + 1
        BY <3>2 DEF Resume
      <4> QED
        BY <1>2, <4>1
    <3>6. Unbroken(bytes, <<pos, Len(bytes)>>)
      BY <1>2 DEF Unbroken
    <3>7. \A i \in 1..1 : i = 1
      OBVIOUS
    <3> HIDE DEF one
    <3>8. Kept(bytes, pos, MaxLines - used, one)
      BY <3>2, <3>3, <3>4, <3>5, <3>7 DEF Kept
    <3>9. \A i \in 1..Len(one) : Unbroken(bytes, one[i])
      BY <3>2, <3>6, <3>7
    <3> QED
      BY <2>3, <3>1, <3>8, <3>9
  <2>6. CASE /\ ~(pos > Len(bytes) \/ used = MaxLines)
             /\ ~(Len(bytes) - pos + 1 <= LineChars)
    <3> DEFINE to == <<LineAfter(bytes, pos), used + 1>>
               rest == w[to]
    <3>1. Len(bytes) - pos + 1 > LineChars
      BY <1>2, <2>6
    <3>2. LineAfter(bytes, pos) \in Nat
      <4>1. /\ LineEnd(bytes, pos) \in Nat
            /\ LineAfter(bytes, pos) \in LineEnd(bytes, pos) + 1 .. Len(bytes) + 1
        BY <3>1, LineBounds
      <4> QED
        BY <1>2, <4>1
    <3>3. used + 1 \in 0..MaxLines
      BY <1>2, <2>6
    <3>4. to \in Places /\ to[1] = LineAfter(bytes, pos) /\ to[2] = used + 1
      BY <3>2, <3>3 DEF Places
    <3>5. m[to] = MaxLines - (used + 1)
      BY <3>4 DEF m
    <3>6. MaxLines - (used + 1) \in Nat /\ MaxLines - (used + 1) + 1 = MaxLines - used
      BY <1>2, <3>3
    <3>7. m[to] < m[at]
      BY <2>3, <3>5, <3>6
    <3>8. Good(to)
      <4> HIDE DEF Good, to
      <4> QED
        BY <1>4, <3>4, <3>7
    <3>9. rest \in Seq(Nat \X Nat)
      BY <1>1, <3>4
    <3>10. /\ Kept(bytes, LineAfter(bytes, pos), MaxLines - (used + 1), rest)
           /\ \A i \in 1..Len(rest) : Unbroken(bytes, rest[i])
      BY <3>4, <3>8
    <3>11. w[at] = <<<<pos, LineEnd(bytes, pos)>>>> \o rest
      BY <2>2, <2>6
    <3> HIDE DEF rest, to
    <3>12. /\ Kept(bytes, pos, MaxLines - (used + 1) + 1, w[at])
           /\ \A i \in 1..Len(w[at]) : Unbroken(bytes, w[at][i])
      BY <3>1, <3>6, <3>9, <3>10, <3>11, FullLine
    <3> QED
      BY <2>3, <3>6, <3>12
  <2> QED
    BY <2>4, <2>5, <2>6
<1>5. Places \subseteq {at \in Places : Good(at)}
  <2>1. Climbs(Places, m, {at \in Places : Good(at)})
    <3> HIDE DEF m, Good
    <3> QED
      BY <1>4 DEF Climbs
  <2> HIDE DEF m, Good
  <2> QED
    BY <1>3, <2>1, MeasureInduction
<1>6. <<1, 0>> \in Places /\ <<1, 0>>[1] = 1 /\ <<1, 0>>[2] = 0 /\ MaxLines - 0 = MaxLines
  BY <1>2 DEF Places
<1>7. Good(<<1, 0>>)
  <2> HIDE DEF Good
  <2> QED
    BY <1>5, <1>6
<1> QED
  BY <1>1, <1>6, <1>7

-----------------------------------------------------------------------------
(* The line on the socket.                                                 *)

\* The words of agents and of states are told apart, from each other and from
\* "text=", and none of them, nor its beginning, is blank.
LEMMA AgentWordIs ==
  \A agent \in AgentIds :
    /\ AgentWord(agent) \in Seq(Byte) /\ Len(AgentWord(agent)) \in 11..14
    /\ AgentWord(agent)[1] = 97
    /\ AgentWord(agent)[8] = IF agent = 0 THEN 108 ELSE IF agent = 1 THEN 111
                             ELSE IF agent = 2 THEN 112 ELSE 101
<1> DEFINE Is(w, b) == w \in Seq(Byte) /\ Len(w) \in 11..14 /\ w[1] = 97 /\ w[8] = b
<1>1. Is(AgentWord(0), 108)
  BY DEF AgentWord, Byte
<1>2. Is(AgentWord(1), 111)
  BY DEF AgentWord, Byte
<1>3. Is(AgentWord(2), 112)
  BY DEF AgentWord, Byte
<1>4. Is(AgentWord(255), 101)
  BY DEF AgentWord, Byte
<1> QED
  BY <1>1, <1>2, <1>3, <1>4 DEF AgentIds

LEMMA StateWordIs ==
  \A state \in States :
    /\ StateWord(state) \in Seq(Byte) /\ Len(StateWord(state)) \in 9..17
    /\ StateWord(state)[1] = 115
    /\ StateWord(state)[7] = IF state = 0 THEN 111 ELSE IF state = 1 THEN 114
                             ELSE IF state = 2 THEN 110 ELSE 100
<1> DEFINE Is(w, b) == w \in Seq(Byte) /\ Len(w) \in 9..17 /\ w[1] = 115 /\ w[7] = b
<1>1. Is(StateWord(0), 111)
  BY DEF StateWord, Byte
<1>2. Is(StateWord(1), 114)
  BY DEF StateWord, Byte
<1>3. Is(StateWord(2), 110)
  BY DEF StateWord, Byte
<1>4. Is(StateWord(3), 100)
  BY DEF StateWord, Byte
<1>5. \A state \in States : state = 0 \/ state = 1 \/ state = 2 \/ state = 3
  BY DEF States
<1> QED
  BY <1>1, <1>2, <1>3, <1>4, <1>5

LEMMA OtherWords ==
  /\ TextWord \in Seq(Byte) /\ Len(TextWord) = 5 /\ TextWord[1] = 116
  /\ Sp \in Seq(Byte) /\ Len(Sp) = 1 /\ Sp[1] = 32
  /\ Nl \in Seq(Byte) /\ Len(Nl) = 1 /\ Nl[1] = 10
  /\ Replacement \in Seq(Byte) /\ Len(Replacement) = 3 /\ Replacement[1] = 239
BY DEF TextWord, Sp, Nl, Replacement, Byte

LEMMA BlankIs ==
  /\ Sp \in Blanks /\ Nl \in Blanks
  /\ \A w \in Blanks : w[1] \notin {97, 115, 116}
<1>1. Sp \in {<<b>> : b \in (9..13) \union (28..32)}
  <2>1. 32 \in (9..13) \union (28..32)
    OBVIOUS
  <2> QED
    BY <2>1 DEF Sp
<1>2. Nl \in {<<b>> : b \in (9..13) \union (28..32)}
  <2>1. 10 \in (9..13) \union (28..32)
    OBVIOUS
  <2> QED
    BY <2>1 DEF Nl
<1>3. Sp \in Blanks /\ Nl \in Blanks
  BY <1>1, <1>2 DEF Blanks
<1>4. ASSUME NEW w \in {<<b>> : b \in (9..13) \union (28..32)}
      PROVE  w[1] \notin {97, 115, 116}
  <2>1. PICK b \in (9..13) \union (28..32) : w = <<b>>
    OBVIOUS
  <2>2. w[1] = b /\ b # 97 /\ b # 115 /\ b # 116
    BY <2>1
  <2> QED
    BY <2>2
<1>5. ASSUME NEW w \in {<<226, 128, b>> : b \in (128..138) \union {168, 169, 175}}
      PROVE  w[1] \notin {97, 115, 116}
  <2>1. w[1] = 226
    OBVIOUS
  <2> QED
    BY <2>1
<1>6. ASSUME NEW w, w \in {<<194, 133>>, <<194, 160>>, <<225, 154, 128>>}
                         \/ w \in {<<226, 129, 159>>, <<227, 128, 128>>}
      PROVE  w[1] \notin {97, 115, 116}
  <2>1. w[1] = 194 \/ w[1] = 225 \/ w[1] = 226 \/ w[1] = 227
    BY <1>6
  <2> QED
    BY <2>1
<1>7. \A w \in Blanks : w[1] \notin {97, 115, 116}
  BY <1>4, <1>5, <1>6 DEF Blanks
<1> QED
  BY <1>3, <1>7

LEMMA WidthOne == \A b \in {97, 115, 116, 32, 10} : Width(b) = 1
<1>1. Width(97) = 1 /\ Width(115) = 1 /\ Width(116) = 1 /\ Width(32) = 1 /\ Width(10) = 1
  BY DEF Width
<1> QED
  BY <1>1

LEMMA WordsApart ==
  ASSUME NEW agent \in AgentIds, NEW state \in States
  PROVE  /\ AgentWord(agent) \in AgentWords \ (StateWords \union Blanks \union {TextWord})
         /\ StateWord(state) \in StateWords \ (AgentWords \union Blanks \union {TextWord})
         /\ TextWord \notin Blanks
         /\ Sp \in Blanks /\ Nl \in Blanks
         /\ Sp # Nl
<1>1. /\ \A w \in AgentWords : w[1] = 97
      /\ \A w \in StateWords : w[1] = 115
  BY AgentWordIs, StateWordIs DEF AgentWords, StateWords
<1>2. AgentWord(agent) \in AgentWords /\ StateWord(state) \in StateWords
  BY DEF AgentWords, StateWords
<1>3. Sp # Nl
  BY OtherWords
<1> QED
  BY <1>1, <1>2, <1>3, BlankIs, OtherWords

LEMMA WordsDiffer ==
  /\ \A agent, other \in AgentIds : AgentWord(agent) = AgentWord(other) => agent = other
  /\ \A state, other \in States : StateWord(state) = StateWord(other) => state = other
<1>1. \A agent \in AgentIds : agent = 0 \/ agent = 1 \/ agent = 2 \/ agent = 255
  BY DEF AgentIds
<1>2. \A state \in States : state = 0 \/ state = 1 \/ state = 2 \/ state = 3
  BY DEF States
<1>3. ASSUME NEW agent \in AgentIds, NEW other \in AgentIds,
             AgentWord(agent) = AgentWord(other)
      PROVE  agent = other
  <2>1. AgentWord(agent)[8] = AgentWord(other)[8]
    BY <1>3
  <2> QED
    BY <1>1, <2>1, AgentWordIs
<1>4. ASSUME NEW state \in States, NEW other \in States,
             StateWord(state) = StateWord(other)
      PROVE  state = other
  <2>1. StateWord(state)[7] = StateWord(other)[7]
    BY <1>4
  <2> QED
    BY <1>2, <2>1, StateWordIs
<1> QED
  BY <1>3, <1>4

\* What is left of a word that is cut is neither a word nor blank.
NoWord(w) == w \notin AgentWords \union StateWords \union {TextWord} \union Blanks

LEMMA CutWord ==
  ASSUME NEW word \in AgentWords \union StateWords \union {TextWord},
         NEW b \in 1..Len(word) - 1
  PROVE  /\ SubSeq(word, 1, b) \in Whole
         /\ NoWord(SubSeq(word, 1, b))
<1> DEFINE w == SubSeq(word, 1, b)
<1>1. /\ word \in Seq(Byte) /\ word[1] \in {97, 115, 116}
      /\ \A v \in AgentWords : v[1] = 97 /\ Len(v) >= 8 /\ v \in Seq(Byte)
      /\ \A v \in StateWords : v[1] = 115 /\ Len(v) >= 7 /\ v \in Seq(Byte)
  <2>1. \A v \in AgentWords : v[1] = 97 /\ Len(v) >= 8 /\ v \in Seq(Byte)
    BY AgentWordIs DEF AgentWords
  <2>2. \A v \in StateWords : v[1] = 115 /\ Len(v) >= 7 /\ v \in Seq(Byte)
    BY StateWordIs DEF StateWords
  <2> QED
    BY <2>1, <2>2, OtherWords
<1>2. Len(word) \in Nat /\ b \in 0..Len(word) /\ b \in Nat /\ 1 \in 1..b /\ b # Len(word)
  BY <1>1
<1>3. w \in Seq(Byte) /\ Len(w) = b /\ \A i \in 1..b : w[i] = word[i]
  BY <1>1, <1>2, Beginning
<1> HIDE DEF w
<1>4. w[1] = word[1]
  BY <1>2, <1>3
<1>5. w \in Whole
  <2>0. w[1] = 97 \/ w[1] = 115 \/ w[1] = 116
    BY <1>1, <1>4
  <2>1. Width(w[1]) = 1
    BY <2>0, WidthOne
  <2>2. w # <<>> /\ ~(Len(w) < 1)
    BY <1>2, <1>3
  <2> QED
    BY <1>3, <2>1, <2>2 DEF Whole
<1>6. w \notin Blanks
  BY <1>1, <1>4, BlankIs
<1>7. w # TextWord
  <2> SUFFICES ASSUME w = TextWord PROVE FALSE
    OBVIOUS
  <2>1. word[1] = 116
    BY <1>4, OtherWords
  <2>2. word = TextWord
    BY <1>1, <2>1
  <2> QED
    BY <1>2, <1>3, <2>2
<1>8. w \notin AgentWords
  <2> SUFFICES ASSUME NEW a \in AgentIds, w = AgentWord(a) PROVE FALSE
    BY DEF AgentWords
  <2>1. w \in AgentWords
    BY DEF AgentWords
  <2>2. word[1] = 97 /\ b >= 8
    BY <1>1, <1>3, <1>4, <2>1
  <2>3. word \in AgentWords
    BY <1>1, <2>2, OtherWords
  <2>4. PICK c \in AgentIds : word = AgentWord(c)
    BY <2>3 DEF AgentWords
  <2>5. AgentWord(c)[8] = AgentWord(a)[8]
    BY <1>2, <1>3, <2>2, <2>4
  <2>6. \A x \in AgentIds : x = 0 \/ x = 1 \/ x = 2 \/ x = 255
    BY DEF AgentIds
  <2>7. c = a
    BY <2>5, <2>6, AgentWordIs
  <2> QED
    BY <1>2, <1>3, <2>4, <2>7
<1>9. w \notin StateWords
  <2> SUFFICES ASSUME NEW a \in States, w = StateWord(a) PROVE FALSE
    BY DEF StateWords
  <2>1. w \in StateWords
    BY DEF StateWords
  <2>2. word[1] = 115 /\ b >= 7
    BY <1>1, <1>3, <1>4, <2>1
  <2>3. word \in StateWords
    BY <1>1, <2>2, OtherWords
  <2>4. PICK c \in States : word = StateWord(c)
    BY <2>3 DEF StateWords
  <2>5. StateWord(c)[7] = StateWord(a)[7]
    BY <1>2, <1>3, <2>2, <2>4
  <2>6. \A x \in States : x = 0 \/ x = 1 \/ x = 2 \/ x = 3
    BY DEF States
  <2>7. c = a
    BY <2>5, <2>6, StateWordIs
  <2> QED
    BY <1>2, <1>3, <2>4, <2>7
<1>10. NoWord(w)
  BY <1>6, <1>7, <1>8, <1>9 DEF NoWord
<1> QED
  BY <1>5, <1>10 DEF w

LEMMA WordsWhole ==
  /\ AgentWords \union StateWords \union {TextWord, Sp, Nl, Replacement} \subseteq Whole
  /\ \A s \in Seq(Chars) : s \in Seq(Whole)
<1>1. ASSUME NEW w \in AgentWords \union StateWords \union {TextWord, Sp, Nl, Replacement}
      PROVE  w \in Whole
  <2>1. \A v \in AgentWords : v[1] = 97 /\ Len(v) >= 1 /\ v \in Seq(Byte)
    BY AgentWordIs DEF AgentWords
  <2>2. \A v \in StateWords : v[1] = 115 /\ Len(v) >= 1 /\ v \in Seq(Byte)
    BY StateWordIs DEF StateWords
  <2>3. CASE w # Replacement
    <3>1. w[1] \in {97, 115, 116, 32, 10} /\ Len(w) >= 1 /\ w \in Seq(Byte)
      BY <2>1, <2>2, <2>3, OtherWords
    <3>2. Width(w[1]) = 1
      BY <3>1, WidthOne
    <3>3. w # <<>> /\ ~(Len(w) < 1)
      BY <3>1
    <3> QED
      BY <3>1, <3>2, <3>3 DEF Whole
  <2>4. CASE w = Replacement
    <3>1. Width(Replacement[1]) = 3
      BY OtherWords DEF Width
    <3>2. Replacement # <<>> /\ ~(Len(Replacement) < 3)
      BY OtherWords
    <3> QED
      BY <2>4, <3>1, <3>2, OtherWords DEF Whole
  <2> QED
    BY <2>3, <2>4
<1>2. ASSUME NEW c \in Chars PROVE c \in Whole
  <2>1. c \in Seq(Byte) /\ c # <<>>
    BY LabelAssumption DEF LabelAssumption
  <2>2. CASE c \in AgentWords \union StateWords \union {TextWord}
    BY <1>1, <2>2
  <2>3. CASE Len(c) = Width(c[1])
    <3>1. ~(Len(c) < Width(c[1]))
      <4>1. \A n \in Nat : ~(n < n)
        OBVIOUS
      <4>2. Len(c) \in Nat
        BY <2>1
      <4> QED
        BY <2>3, <4>1, <4>2
    <3> QED
      BY <2>1, <3>1 DEF Whole
  <2> QED
    BY <2>2, <2>3, LabelAssumption DEF LabelAssumption
<1>3. ASSUME NEW s \in Seq(Chars) PROVE s \in Seq(Whole)
  <2>1. Len(s) \in Nat /\ \A i \in 1..Len(s) : s[i] \in Chars
    BY ElementOfSeq
  <2>2. SubSeq(s, 1, Len(s)) \in Seq(Whole)
    BY <1>2, <2>1, SubSeqProperties
  <2> QED
    BY <2>2, SubSeqFull
<1> QED
  BY <1>1, <1>3

\* The line w is s of m symbols and then t of n symbols.
Joins(w, s, m, t, n) ==
  /\ w \in Seq(Whole) /\ Len(w) = m + n
  /\ \A i \in 1..m : w[i] = s[i]
  /\ \A i \in 1..n : w[m + i] = t[i]

LEMMA Joined ==
  ASSUME NEW s \in Seq(Whole), NEW t \in Seq(Whole),
         NEW m, Len(s) = m, NEW n, Len(t) = n
  PROVE  Joins(s \o t, s, m, t, n)
<1>1. /\ s \o t \in Seq(Whole) /\ Len(s \o t) = Len(s) + Len(t)
      /\ \A i \in 1..Len(s) + Len(t) :
           (s \o t)[i] = IF i <= Len(s) THEN s[i] ELSE t[i - Len(s)]
  BY ConcatProperties
<1>2. Len(s) \in Nat /\ Len(t) \in Nat
  OBVIOUS
<1>3. ASSUME NEW i \in 1..Len(s) PROVE (s \o t)[i] = s[i]
  <2>1. i \in 1..Len(s) + Len(t) /\ i <= Len(s)
    BY <1>2
  <2> QED
    BY <1>1, <2>1
<1>4. ASSUME NEW i \in 1..Len(t) PROVE (s \o t)[Len(s) + i] = t[i]
  <2>1. /\ Len(s) + i \in 1..Len(s) + Len(t) /\ ~(Len(s) + i <= Len(s))
        /\ Len(s) + i - Len(s) = i
    BY <1>2
  <2> QED
    BY <1>1, <2>1
<1> QED
  BY <1>1, <1>3, <1>4 DEF Joins

\* The symbols of a line of notify.
LEMMA LineSymbols ==
  ASSUME NEW agent \in AgentIds, NEW state \in States, NEW label \in Seq(Whole)
  PROVE  LET line == NotifyLine(agent, state, label)
             n    == IF label = <<>> THEN 4 ELSE 6 + Len(label)
         IN  /\ line \in Seq(Whole) /\ Len(line) = n /\ n \in Nat
             /\ line[1] = AgentWord(agent) /\ line[2] = Sp /\ line[3] = StateWord(state)
             /\ line[n] = Nl
             /\ label # <<>> =>
                  /\ line[4] = Sp /\ line[5] = TextWord
                  /\ \A i \in 1..Len(label) : line[5 + i] = label[i]
<1> DEFINE head == <<AgentWord(agent), Sp, StateWord(state)>>
           key  == <<Sp, TextWord>>
           mid  == IF label = <<>> THEN <<>> ELSE key \o label
           M    == IF label = <<>> THEN 0 ELSE 2 + Len(label)
           end  == <<Nl>>
           line == head \o mid \o end
<1>1. /\ head \in Seq(Whole) /\ Len(head) = 3
      /\ head[1] = AgentWord(agent) /\ head[2] = Sp /\ head[3] = StateWord(state)
      /\ key \in Seq(Whole) /\ Len(key) = 2 /\ key[1] = Sp /\ key[2] = TextWord
      /\ end \in Seq(Whole) /\ Len(end) = 1 /\ end[1] = Nl
  <2>1. /\ AgentWord(agent) \in Whole /\ StateWord(state) \in Whole
        /\ TextWord \in Whole /\ Sp \in Whole /\ Nl \in Whole
    BY WordsApart, WordsWhole
  <2> QED
    BY <2>1
<1> HIDE DEF head, key, end
<1>2. /\ mid \in Seq(Whole) /\ Len(mid) = M /\ M \in Nat
      /\ label # <<>> => /\ mid[1] = Sp /\ mid[2] = TextWord
                         /\ \A i \in 1..Len(label) : mid[2 + i] = label[i]
  <2>1. CASE label = <<>>
    BY <2>1, EmptySeq
  <2>2. CASE label # <<>>
    <3>1. Len(label) \in Nat
      OBVIOUS
    <3>2. Joins(key \o label, key, 2, label, Len(label))
      BY <1>1, Joined
    <3>3. 1 \in 1..2 /\ 2 \in 1..2
      OBVIOUS
    <3> QED
      BY <1>1, <2>2, <3>1, <3>2, <3>3 DEF Joins
  <2> QED
    BY <2>1, <2>2
<1> HIDE DEF mid, M
<1> DEFINE front == head \o mid
<1>3. Joins(front, head, 3, mid, M)
  BY <1>1, <1>2, Joined
<1>4. Joins(line, front, 3 + M, end, 1)
  <2>1. front \in Seq(Whole) /\ Len(front) = 3 + M
    BY <1>3 DEF Joins
  <2>2. line = front \o end
    OBVIOUS
  <2> HIDE DEF front, line
  <2> QED
    BY <1>1, <2>1, <2>2, Joined
<1> HIDE DEF front
<1> HIDE DEF line
<1>5. \A i \in 1..3 : line[i] = head[i]
  <2>1. \A i \in 1..3 : i \in 1..3 + M
    BY <1>2
  <2> QED
    BY <1>3, <1>4, <2>1 DEF Joins
<1>6. \A i \in 1..M : line[3 + i] = mid[i]
  <2>1. \A i \in 1..M : 3 + i \in 1..3 + M
    BY <1>2
  <2> QED
    BY <1>3, <1>4, <2>1 DEF Joins
<1>7. line[3 + M + 1] = Nl
  <2>1. 1 \in 1..1
    OBVIOUS
  <2> QED
    BY <1>1, <1>4, <2>1 DEF Joins
<1>11. line \in Seq(Whole) /\ Len(line) = 3 + M + 1
  BY <1>4 DEF Joins
<1>8. line = NotifyLine(agent, state, label)
  BY DEF NotifyLine, line, head, key, mid, end
<1>9. CASE label = <<>>
  <2>1. M = 0 /\ 3 + M + 1 = 4
    BY <1>9 DEF M
  <2> QED
    BY <1>1, <1>5, <1>7, <1>8, <1>9, <1>11, <2>1
<1>10. CASE label # <<>>
  <2>1. M = 2 + Len(label) /\ Len(label) \in Nat
    BY <1>10 DEF M
  <2>2. 3 + M + 1 = 6 + Len(label)
    BY <2>1
  <2>3. line[4] = Sp /\ line[5] = TextWord
    <3>1. 1 \in 1..M /\ 2 \in 1..M /\ 3 + 1 = 4 /\ 3 + 2 = 5
      BY <2>1
    <3> QED
      BY <1>2, <1>6, <1>10, <3>1
  <2>4. ASSUME NEW i \in 1..Len(label) PROVE line[5 + i] = label[i]
    <3>1. 2 + i \in 1..M /\ 3 + (2 + i) = 5 + i
      BY <2>1
    <3> QED
      BY <1>2, <1>6, <1>10, <3>1
  <2>5. line[1] = AgentWord(agent) /\ line[2] = Sp /\ line[3] = StateWord(state)
    BY <1>1, <1>5
  <2>6. 6 + Len(label) \in Nat
    BY <2>1
  <2> QED
    BY <1>7, <1>8, <1>10, <1>11, <2>2, <2>3, <2>4, <2>5, <2>6
<1> QED
  BY <1>9, <1>10

\* The first line of what was sent, and all of it when no line ends, is b long.
FirstLine(sent, b) ==
  /\ b \in 0..Len(sent)
  /\ \A i \in 1..b - 1 : sent[i] # Nl
  /\ \/ b = Len(sent)
     \/ b \in 1..Len(sent) /\ sent[b] = Nl

LEMMA LineRead ==
  ASSUME NEW sent \in Seq(Whole)
  PROVE  \E b : readline(sent) = SubSeq(sent, 1, b) /\ FirstLine(sent, b)
<1> DEFINE breaks == {i \in DOMAIN sent : sent[i] = Nl}
<1>1. DOMAIN sent = 1..Len(sent) /\ Len(sent) \in Nat
  OBVIOUS
<1>2. CASE breaks = {}
  <2>1. readline(sent) = SubSeq(sent, 1, Len(sent))
    BY <1>2, SubSeqFull DEF readline
  <2>2. \A i \in 1..Len(sent) - 1 : i \in DOMAIN sent
    BY <1>1
  <2>3. \A i \in 1..Len(sent) - 1 : sent[i] # Nl
    BY <1>2, <2>2
  <2>4. Len(sent) \in 0..Len(sent)
    BY <1>1
  <2>5. FirstLine(sent, Len(sent))
    BY <2>3, <2>4 DEF FirstLine
  <2> QED
    BY <2>1, <2>5
<1>3. CASE breaks # {}
  <2>1. PICK b \in breaks : \A c \in breaks : b <= c
    <3>1. breaks \in SUBSET Nat
      BY <1>1
    <3> HIDE DEF breaks
    <3> QED
      BY <1>3, <3>1, NatMin
  <2>2. readline(sent) = SubSeq(sent, 1, Min(breaks))
    BY <1>3 DEF readline
  <2>3. Min(breaks) \in breaks /\ \A c \in breaks : Min(breaks) <= c
    <3> HIDE DEF breaks
    <3> QED
      BY <2>1 DEF Min
  <2>4. Min(breaks) \in 1..Len(sent) /\ sent[Min(breaks)] = Nl
    BY <1>1, <2>3
  <2>5. Min(breaks) \in 0..Len(sent)
    BY <1>1, <2>4
  <2>6. ASSUME NEW i \in 1..Min(breaks) - 1 PROVE sent[i] # Nl
    <3>1. i \in DOMAIN sent /\ ~(Min(breaks) <= i)
      BY <1>1, <2>4
    <3> QED
      BY <2>3, <3>1
  <2> QED
    BY <2>2, <2>4, <2>5, <2>6 DEF FirstLine
<1> QED
  BY <1>2, <1>3

\* strip takes off a line that begins with a word what comes after its last
\* word.
LEMMA StripEnd ==
  ASSUME NEW line \in Seq(Whole), line # <<>> => line[1] \notin Blanks
  PROVE  \E e \in 0..Len(line) :
           /\ Strip(line) = SubSeq(line, 1, e)
           /\ line # <<>> => e \in 1..Len(line) /\ line[e] \notin Blanks
           /\ \A i \in e + 1..Len(line) : line[i] \in Blanks
<1> DEFINE ink == {i \in DOMAIN line : line[i] \notin Blanks}
<1>1. DOMAIN line = 1..Len(line) /\ Len(line) \in Nat
  OBVIOUS
<1>2. CASE line = <<>>
  <2>1. Len(line) = 0
    BY <1>2
  <2>2. ink = {}
    BY <1>1, <2>1
  <2>3. Strip(line) = <<>> /\ SubSeq(line, 1, 0) = <<>>
    BY <1>2, <2>2 DEF Strip
  <2>4. 0 \in 0..Len(line) /\ \A i \in 0 + 1..Len(line) : FALSE
    BY <2>1
  <2> QED
    BY <1>2, <2>3, <2>4
<1>3. CASE line # <<>>
  <2>1. 1 \in ink
    BY <1>1, <1>3, EmptySeq
  <2>2. ink \in SUBSET (0..Len(line))
    BY <1>1
  <2>3. \A i \in ink : 1 <= i /\ i \in Nat
    BY <1>1
  <2>4. Strip(line) = SubSeq(line, Min(ink), Max(ink))
    BY <2>1 DEF Strip
  <2>5. Min(ink) = 1
    <3>1. Min(ink) \in ink /\ \A y \in ink : Min(ink) <= y
      <4> HIDE DEF ink
      <4> QED
        BY <2>1, <2>3 DEF Min
    <3> HIDE DEF ink
    <3>2. Min(ink) \in Nat /\ 1 <= Min(ink) /\ Min(ink) <= 1
      BY <2>1, <2>3, <3>1
    <3> QED
      BY <3>2
  <2>6. Max(ink) \in ink /\ \A y \in ink : y <= Max(ink)
    <3> HIDE DEF ink
    <3>1. \E x \in ink : \A y \in ink : y <= x
      BY <1>1, <2>1, <2>2, Greatest
    <3>2. \E x \in ink : \A y \in ink : x >= y
      BY <2>3, <3>1
    <3>3. Max(ink) \in ink /\ \A y \in ink : Max(ink) >= y
      BY <3>2 DEF Max
    <3> QED
      BY <2>3, <3>3
  <2>7. Max(ink) \in 1..Len(line) /\ line[Max(ink)] \notin Blanks
    BY <1>1, <2>6
  <2>8. Max(ink) \in 0..Len(line)
    BY <1>1, <2>7
  <2>9. ASSUME NEW i \in Max(ink) + 1..Len(line) PROVE line[i] \in Blanks
    <3>1. i \in DOMAIN line /\ ~(i <= Max(ink))
      BY <1>1, <2>7
    <3> QED
      BY <2>6, <3>1
  <2> QED
    BY <2>4, <2>5, <2>7, <2>8, <2>9
<1> QED
  BY <1>2, <1>3

\* What is left of a line of notify when its end is cut off.
Cut(agent, state, s) ==
  /\ s \in Seq(Whole)
  /\ Len(s) >= 1 => s[1] = AgentWord(agent)
  /\ Len(s) >= 2 => s[2] = Sp
  /\ Len(s) >= 3 => s[3] = StateWord(state)
  /\ Len(s) >= 4 => s[4] = Sp
  /\ Len(s) >= 5 => s[5] = TextWord

\* The first m of a sequence, and the first k of those.
LEMMA Part ==
  ASSUME NEW S, NEW s \in Seq(S), NEW m \in 0..Len(s)
  PROVE  /\ SubSeq(s, 1, m) \in Seq(S) /\ Len(SubSeq(s, 1, m)) = m
         /\ \A i \in 1..m : SubSeq(s, 1, m)[i] = s[i]
<1>1. Len(s) \in Nat /\ \A i \in 1..Len(s) : s[i] \in S
  BY ElementOfSeq
<1>2. \A i \in 1..m : i \in 1..Len(s)
  BY <1>1
<1>3. /\ SubSeq(s, 1, m) \in Seq(S)
      /\ Len(SubSeq(s, 1, m)) = IF 1 <= m THEN m - 1 + 1 ELSE 0
      /\ \A i \in 1..m - 1 + 1 : SubSeq(s, 1, m)[i] = s[1 + i - 1]
  BY <1>1, <1>2, SubSeqProperties
<1>4. m \in Nat
  BY <1>1
<1>5. /\ (IF 1 <= m THEN m - 1 + 1 ELSE 0) = m /\ m - 1 + 1 = m
      /\ \A i \in 1..m : 1 + i - 1 = i
  BY <1>4
<1> QED
  BY <1>3, <1>5

LEMMA PartOfPart ==
  ASSUME NEW S, NEW s \in Seq(S), NEW m \in 0..Len(s), NEW k \in 0..m
  PROVE  SubSeq(SubSeq(s, 1, m), 1, k) = SubSeq(s, 1, k)
<1> DEFINE t == SubSeq(s, 1, m)
<1>1. t \in Seq(S) /\ Len(t) = m /\ \A i \in 1..m : t[i] = s[i]
  BY Part
<1>2. k \in 0..Len(s) /\ \A i \in 1..k : i \in 1..m
  OBVIOUS
<1> HIDE DEF t
<1>3. /\ SubSeq(t, 1, k) \in Seq(S) /\ Len(SubSeq(t, 1, k)) = k
      /\ \A i \in 1..k : SubSeq(t, 1, k)[i] = t[i]
  BY <1>1, Part
<1>4. /\ SubSeq(s, 1, k) \in Seq(S) /\ Len(SubSeq(s, 1, k)) = k
      /\ \A i \in 1..k : SubSeq(s, 1, k)[i] = s[i]
  BY <1>2, Part
<1>5. SubSeq(t, 1, k) = SubSeq(s, 1, k)
  <2> DEFINE u == SubSeq(t, 1, k)
             v == SubSeq(s, 1, k)
  <2>1. \A i \in 1..k : u[i] = v[i]
    BY <1>1, <1>2, <1>3, <1>4
  <2>2. u \in Seq(S) /\ v \in Seq(S) /\ Len(u) = Len(v) /\ Len(u) = k
    BY <1>3, <1>4
  <2> HIDE DEF u, v
  <2>3. u = v
    BY <2>1, <2>2, SeqEqual
  <2> QED
    BY <2>3 DEF u, v
<1> QED
  BY <1>5 DEF t

LEMMA PartIsPrefix ==
  ASSUME NEW S, NEW s \in Seq(S), NEW m \in 0..Len(s)
  PROVE  IsPrefix(SubSeq(s, 1, m), s)
<1> DEFINE t == SubSeq(s, 1, m)
<1>1. t \in Seq(S) /\ Len(t) = m /\ Len(s) \in Nat
  BY Part
<1>2. t = SubSeq(s, 1, m)
  OBVIOUS
<1> HIDE DEF t
<1>3. SubSeq(t, 1, Len(t)) = t
  BY <1>1, SubSeqFull
<1>4. IsPrefix(t, s)
  BY <1>1, <1>2, <1>3 DEF IsPrefix
<1> QED
  BY <1>4 DEF t

\* Of the first n symbols of a line, b are read and e are left by strip.
ReadTo(line, n, b, e) ==
  /\ b \in 0..n /\ e \in 0..b
  /\ \A i \in 1..b - 1 : line[i] # Nl
  /\ \/ b = n
     \/ b >= 1 /\ line[b] = Nl
  /\ b >= 1 => e >= 1 /\ line[e] \notin Blanks
  /\ \A i \in e + 1..b : line[i] \in Blanks

LEMMA LineStripped ==
  ASSUME NEW line \in Seq(Whole), NEW n \in 0..Len(line),
         line[1] \notin Blanks
  PROVE  \E b, e : /\ ReadTo(line, n, b, e)
                   /\ Strip(readline(SubSeq(line, 1, n))) = SubSeq(line, 1, e)
<1> DEFINE sent == SubSeq(line, 1, n)
<1>0. Len(line) \in Nat /\ n \in Nat
  OBVIOUS
<1>1. sent \in Seq(Whole) /\ Len(sent) = n /\ \A i \in 1..n : sent[i] = line[i]
  BY Part
<1> HIDE DEF sent
<1>2. PICK b : readline(sent) = SubSeq(sent, 1, b) /\ FirstLine(sent, b)
  BY <1>1, LineRead
<1>3. /\ b \in 0..n /\ b \in Nat
      /\ \A i \in 1..b - 1 : sent[i] # Nl
      /\ \/ b = n
         \/ b \in 1..n /\ sent[b] = Nl
  BY <1>0, <1>1, <1>2 DEF FirstLine
<1> DEFINE one == SubSeq(line, 1, b)
<1>4. readline(sent) = one
  BY <1>2, <1>3, PartOfPart DEF sent
<1>5. b \in 0..Len(line)
  BY <1>0, <1>3
<1>6. one \in Seq(Whole) /\ Len(one) = b /\ \A i \in 1..b : one[i] = line[i]
  BY <1>5, Part
<1> HIDE DEF one
<1>7. one # <<>> => b >= 1 /\ one[1] \notin Blanks
  <2> SUFFICES ASSUME one # <<>> PROVE b >= 1 /\ one[1] \notin Blanks
    OBVIOUS
  <2>1. b # 0
    BY <1>6, EmptySeq
  <2>2. b >= 1 /\ 1 \in 1..b
    BY <1>3, <2>1
  <2> QED
    BY <1>6, <2>2
<1>8. PICK e \in 0..Len(one) :
        /\ Strip(one) = SubSeq(one, 1, e)
        /\ one # <<>> => e \in 1..Len(one) /\ one[e] \notin Blanks
        /\ \A i \in e + 1..Len(one) : one[i] \in Blanks
  BY <1>6, <1>7, StripEnd
<1>9. e \in 0..b /\ e \in Nat
  BY <1>3, <1>6, <1>8
<1>10. Strip(one) = SubSeq(line, 1, e)
  BY <1>5, <1>8, <1>9, PartOfPart DEF one
<1>11. ReadTo(line, n, b, e)
  <2>1. \A i \in 1..b - 1 : line[i] # Nl
    <3>1. \A i \in 1..b - 1 : i \in 1..n
      BY <1>0, <1>3
    <3> QED
      BY <1>1, <1>3, <3>1
  <2>2. \/ b = n
        \/ b >= 1 /\ line[b] = Nl
    BY <1>1, <1>3
  <2>3. b >= 1 => e >= 1 /\ line[e] \notin Blanks
    <3> SUFFICES ASSUME b >= 1 PROVE e >= 1 /\ line[e] \notin Blanks
      OBVIOUS
    <3>1. one # <<>>
      BY <1>3, <1>6
    <3>2. e \in 1..b /\ one[e] \notin Blanks
      BY <1>6, <1>8, <3>1
    <3> QED
      BY <1>3, <1>6, <3>2
  <2>4. ASSUME NEW i \in e + 1..b PROVE line[i] \in Blanks
    <3>1. i \in 1..b
      BY <1>3, <1>9
    <3>2. i \in e + 1..Len(one)
      BY <1>6
    <3> QED
      BY <1>6, <1>8, <3>1, <3>2
  <2> QED
    BY <1>3, <1>9, <2>1, <2>2, <2>3, <2>4 DEF ReadTo
<1> QED
  BY <1>4, <1>10, <1>11 DEF sent

\* How many symbols of the label are among the first e of its line.
InLabel(e) == IF e >= 5 THEN e - 5 ELSE 0

\* The e symbols s of its line have that much of the label.
HasPart(agent, state, label, s, e) ==
  /\ InLabel(e) \in 0..Len(label)
  /\ Len(s) = e /\ Cut(agent, state, s)
  /\ \/ e \in {0, 1, 3}
     \/ e >= 5 /\ label # <<>> /\ e = 5 + InLabel(e)
  /\ e >= 3 => SubSeq(s, 6, e) = SubSeq(label, 1, InLabel(e))

LEMMA LabelPart ==
  ASSUME NEW agent \in AgentIds, NEW state \in States,
         NEW label \in Seq(Whole), NEW n, NEW b, NEW e,
         n \in 0..Len(NotifyLine(agent, state, label)),
         ReadTo(NotifyLine(agent, state, label), n, b, e)
  PROVE  HasPart(agent, state, label, SubSeq(NotifyLine(agent, state, label), 1, e), e)
<1> DEFINE line == NotifyLine(agent, state, label)
           size == IF label = <<>> THEN 4 ELSE 6 + Len(label)
           s    == SubSeq(line, 1, e)
           k    == InLabel(e)
<1>1. /\ line \in Seq(Whole) /\ Len(line) = size /\ size \in Nat
      /\ line[1] = AgentWord(agent) /\ line[2] = Sp /\ line[3] = StateWord(state)
      /\ line[size] = Nl
      /\ label # <<>> =>
           /\ line[4] = Sp /\ line[5] = TextWord
           /\ \A i \in 1..Len(label) : line[5 + i] = label[i]
  BY LineSymbols
<1> HIDE DEF line
<1>2. Len(label) \in Nat
  OBVIOUS
<1>3. n \in 0..size
  BY <1>1 DEF line
<1>4. ReadTo(line, n, b, e)
  BY DEF line
<1>5. /\ b \in 0..size /\ e \in 0..size /\ e <= b /\ b \in Nat /\ e \in Nat
      /\ b >= 1 => e >= 1 /\ line[e] \notin Blanks
  BY <1>1, <1>3, <1>4 DEF ReadTo
<1>6. e = 0 \/ line[e] \notin Blanks
  BY <1>5
<1>7. e # size
  <2>1. size # 0
    BY <1>2
  <2> HIDE DEF size
  <2> QED
    BY <1>1, <1>6, <2>1, BlankIs
<1>8. e # 2
  BY <1>1, <1>6, BlankIs
<1>9. e # 4
  BY <1>1, <1>6, <1>7, BlankIs
<1>10. e \in {0, 1, 3} \/ (e >= 5 /\ label # <<>>)
  <2>1. CASE label = <<>>
    <3>1. e \in 0..4 /\ e # 4
      BY <1>5, <1>7, <2>1
    <3> QED
      BY <1>8, <3>1
  <2>2. CASE label # <<>>
    <3>1. \A i \in Nat : i # 2 /\ i # 4 => i \in {0, 1, 3} \/ i >= 5
      OBVIOUS
    <3> QED
      BY <1>5, <1>8, <1>9, <2>2, <3>1
  <2> QED
    BY <2>1, <2>2
<1>11. s \in Seq(Whole) /\ Len(s) = e /\ \A i \in 1..e : s[i] = line[i]
  <2>1. e \in 0..Len(line)
    BY <1>1, <1>5
  <2> QED
    BY <1>1, <2>1, Part
<1>12. Cut(agent, state, s)
  <2>1. /\ e >= 1 => s[1] = line[1]
        /\ e >= 2 => s[2] = line[2]
        /\ e >= 3 => s[3] = line[3]
        /\ e >= 4 => s[4] = line[4]
        /\ e >= 5 => s[5] = line[5]
    BY <1>5, <1>11
  <2>2. e >= 4 => label # <<>>
    BY <1>5, <1>7
  <2>3. e >= 5 => label # <<>>
    BY <1>5, <1>7
  <2> HIDE DEF s, size
  <2> QED
    BY <1>1, <1>11, <2>1, <2>2, <2>3 DEF Cut
<1>13. k \in 0..Len(label)
  <2>1. CASE label = <<>>
    <3>1. ~(e >= 5)
      BY <1>5, <2>1
    <3> QED
      BY <1>2, <3>1 DEF InLabel
  <2>2. CASE label # <<>>
    <3>1. e \in 0..5 + Len(label)
      BY <1>2, <1>5, <1>7, <2>2
    <3> QED
      BY <1>2, <3>1 DEF InLabel
  <2> QED
    BY <2>1, <2>2
<1>14. e >= 5 => e = 5 + k
  BY <1>5 DEF InLabel
<1>15. ASSUME e >= 3 PROVE SubSeq(s, 6, e) = SubSeq(label, 1, k)
  <2>1. CASE e >= 5
    <3> DEFINE u == SubSeq(s, 6, e)
               v == SubSeq(label, 1, k)
    <3>1. v \in Seq(Whole) /\ Len(v) = k /\ \A i \in 1..k : v[i] = label[i]
      BY <1>13, Part
    <3>2. \A i \in 6..e : i \in 1..e
      BY <1>5
    <3>3. \A i \in 6..e : s[i] \in Whole
      BY <1>11, <3>2, ElementOfSeq
    <3>4. /\ u \in Seq(Whole)
          /\ Len(u) = IF 6 <= e THEN e - 6 + 1 ELSE 0
          /\ \A i \in 1..e - 6 + 1 : u[i] = s[6 + i - 1]
      BY <1>5, <3>3, SubSeqProperties
    <3>5. /\ (IF 6 <= e THEN e - 6 + 1 ELSE 0) = k
          /\ e - 6 + 1 = k
          /\ \A i \in 1..k : 6 + i - 1 = 5 + i /\ 5 + i \in 1..e /\ i \in 1..Len(label)
      BY <1>2, <1>5, <1>13, <1>14, <2>1
    <3>6. label # <<>>
      BY <1>5, <1>10, <2>1
    <3> HIDE DEF u, v, s, k
    <3>7. ASSUME NEW i \in 1..k PROVE u[i] = v[i]
      <4>1. u[i] = s[5 + i]
        BY <3>4, <3>5
      <4>2. s[5 + i] = line[5 + i]
        BY <1>11, <3>5
      <4>3. line[5 + i] = label[i]
        BY <1>1, <3>5, <3>6
      <4> QED
        BY <3>1, <4>1, <4>2, <4>3
    <3>8. Len(u) = k
      BY <3>4, <3>5
    <3>9. u = v
      BY <3>1, <3>4, <3>7, <3>8, SeqEqual
    <3> QED
      BY <3>9 DEF u, v
  <2>2. CASE ~(e >= 5)
    <3>1. e < 6 /\ k = 0
      BY <1>5, <2>2 DEF InLabel
    <3>2. SubSeq(s, 6, e) = <<>>
      BY <1>5, <3>1, SubSeqEmpty
    <3>3. SubSeq(label, 1, 0) = <<>>
      BY SubSeqEmpty
    <3> QED
      BY <3>1, <3>2, <3>3
  <2> QED
    BY <2>1, <2>2
<1> QED
  BY <1>10, <1>11, <1>12, <1>13, <1>14, <1>15 DEF HasPart, line

\* With the words of both kinds, it names their agent and state and all of the
\* label that is there; with less it is an error.
LEMMA ParsedCut ==
  ASSUME NEW agent \in AgentIds, NEW state \in States,
         NEW line, NEW s, Strip(line) = s, Cut(agent, state, s),
         Len(s) \in {0, 1, 3} \/ Len(s) >= 5
  PROVE  parse_line(line) = IF Len(s) < 3 THEN ParseError
                            ELSE Notify(agent, state, SubSeq(s, 6, Len(s)))
<1> DEFINE texts  == {i \in DOMAIN s : s[i] = TextWord /\ Starts(s, i)}
           end    == IF texts = {} THEN Len(s) + 1 ELSE Min(texts)
           tokens == {i \in 1..(end - 1) : ~Skipped(s, i)}
           agents == {i \in tokens : s[i] \in AgentWords}
           states == {i \in tokens : s[i] \in StateWords}
           given  == IF states = {} THEN {}
                     ELSE {st \in States : StateWord(st) = s[Max(states)]}
           wrong  == \E i \in tokens :
                       ~Token(s, i) \/ s[i] \notin AgentWords \union StateWords
<1>1. parse_line(line) =
        IF wrong \/ agents = {} \/ given = {} THEN ParseError
        ELSE Notify(CHOOSE a \in AgentIds : AgentWord(a) = s[Max(agents)],
                    CHOOSE st \in given : TRUE,
                    SubSeq(s, end + 1, Len(s)))
  BY DEF parse_line, ParseLineOr
<1>2. DOMAIN s = 1..Len(s) /\ Len(s) \in Nat
  BY DEF Cut
<1>5. /\ AgentWord(agent) \in AgentWords
      /\ AgentWord(agent) \notin StateWords /\ AgentWord(agent) \notin Blanks
      /\ AgentWord(agent) # TextWord
      /\ StateWord(state) \in StateWords
      /\ StateWord(state) \notin AgentWords /\ StateWord(state) \notin Blanks
      /\ StateWord(state) # TextWord
      /\ TextWord \notin Blanks /\ Sp \in Blanks
  BY WordsApart
\* Only what is blank is skipped, and a space always.
<1>6. /\ \A i \in Nat \ {0} : s[i] \notin Blanks => ~Skipped(s, i)
      /\ \A i \in Nat \ {0} : s[i] = Sp => Skipped(s, i)
  <2>1. ASSUME NEW i \in Nat \ {0}, Skipped(s, i) PROVE s[i] \in Blanks
    <3>1. PICK j \in 1..i : \A k \in j..i : s[k] \in Blanks
      BY <2>1 DEF Skipped
    <3>2. i \in j..i
      OBVIOUS
    <3> QED
      BY <3>1, <3>2
  <2>2. ASSUME NEW i \in Nat \ {0}, s[i] = Sp PROVE Skipped(s, i)
    <3>1. i \in 1..i /\ \A k \in i..i : k = i
      OBVIOUS
    <3> QED
      BY <1>5, <2>2, <3>1 DEF Skipped
  <2> QED
    BY <2>1, <2>2
<1>3. CASE Len(s) < 3
  <2>0. \A k \in Nat : k < 3 /\ (k \in {0, 1, 3} \/ k >= 5) => k = 0 \/ k = 1
    OBVIOUS
  <2>1. Len(s) = 0 \/ Len(s) = 1
    BY <1>2, <1>3, <2>0
  <2>2. \A i \in DOMAIN s : s[i] = AgentWord(agent)
    BY <1>2, <2>1 DEF Cut
  <2>3. texts = {}
    BY <1>5, <2>2
  <2>4. tokens \subseteq DOMAIN s
    BY <1>2, <2>3
  <2>5. states = {}
    BY <1>5, <2>2, <2>4
  <2>6. given = {}
    BY <2>5
  <2> HIDE DEF texts, end, tokens, agents, states, given, wrong
  <2> QED
    BY <1>1, <1>3, <2>6
<1>4. CASE Len(s) >= 3
  <2>0. /\ s[1] = AgentWord(agent) /\ s[2] = Sp /\ s[3] = StateWord(state)
        /\ Len(s) = 3 \/ Len(s) >= 5
        /\ Len(s) >= 4 => s[4] = Sp
        /\ Len(s) >= 5 => s[5] = TextWord
    BY <1>2, <1>4 DEF Cut
  <2>S. /\ ~Skipped(s, 1) /\ Skipped(s, 2) /\ ~Skipped(s, 3)
        /\ Len(s) >= 4 => Skipped(s, 4)
        /\ Len(s) >= 5 => ~Skipped(s, 5)
    BY <1>5, <1>6, <2>0
  <2>1. end = IF Len(s) = 3 THEN 4 ELSE 5
    <3>1. CASE Len(s) = 3
      <4>1. \A i \in DOMAIN s : s[i] # TextWord
        <5>1. \A i \in DOMAIN s : i = 1 \/ i = 2 \/ i = 3
          BY <1>2, <3>1
        <5> QED
          BY <1>5, <2>0, <5>1
      <4>2. texts = {}
        BY <4>1
      <4> QED
        BY <3>1, <4>2
    <3>2. CASE Len(s) >= 5
      <4>0. Starts(s, 5)
        <5>1. 5 - 1 = 4 /\ Len(s) >= 4
          BY <1>2, <3>2
        <5> QED
          BY <2>S, <3>2, <5>1 DEF Starts
      <4>1. 5 \in texts
        BY <1>2, <2>0, <3>2, <4>0
      <4>2. ASSUME NEW i \in texts PROVE 5 <= i /\ i \in Nat
        <5>1. i \in Nat /\ 1 <= i /\ s[i] = TextWord
          BY <1>2
        <5>2. i # 1 /\ i # 2 /\ i # 3 /\ i # 4
          BY <1>2, <1>5, <2>0, <3>2, <5>1
        <5> QED
          BY <5>1, <5>2
      <4>3. Min(texts) \in texts /\ Min(texts) <= 5
        <5> HIDE DEF texts
        <5> QED
          BY <4>1, <4>2 DEF Min
      <4>4. Min(texts) = 5
        <5> HIDE DEF texts
        <5>1. \A k \in Nat : 5 <= k /\ k <= 5 => k = 5
          OBVIOUS
        <5> QED
          BY <4>2, <4>3, <5>1
      <4>5. end = Min(texts)
        BY <4>1, Zenon
      <4>6. Len(s) # 3
        BY <1>2, <3>2
      <4> HIDE DEF texts, end
      <4> QED
        BY <4>4, <4>5, <4>6
    <3> QED
      BY <2>0, <3>1, <3>2
  <2> HIDE DEF texts, end
  <2>2. tokens = {1, 3}
    <3>1. ASSUME NEW i \in 1..(end - 1), ~Skipped(s, i) PROVE i = 1 \/ i = 3
      <4>1. i \in Nat /\ 1 <= i /\ i <= 4 /\ (i = 4 => Len(s) >= 4)
        BY <1>2, <2>0, <2>1
      <4>2. i # 2 /\ i # 4
        BY <2>S, <3>1, <4>1
      <4> QED
        BY <4>1, <4>2
    <3>2. 1 \in 1..(end - 1) /\ 3 \in 1..(end - 1)
      BY <2>1
    <3> QED
      BY <2>S, <3>1, <3>2
  <2>3. agents = {1} /\ states = {3}
    BY <1>5, <2>0, <2>2
  <2>4. ~wrong
    <3>1. Token(s, 1)
      BY <2>0, <2>S DEF Token, Starts
    <3>2. Token(s, 3)
      <4>1. 3 = Len(s) \/ s[3 + 1] = Sp
        BY <2>0
      <4>2. 3 - 1 = 2
        OBVIOUS
      <4> QED
        BY <2>S, <4>1, <4>2 DEF Token, Starts
    <3>3. /\ s[1] \in AgentWords \union StateWords
          /\ s[3] \in AgentWords \union StateWords
      BY <1>5, <2>0
    <3> HIDE DEF tokens
    <3> QED
      BY <2>2, <3>1, <3>2, <3>3
  <2>5. \A k \in Nat : Max({k}) = k
    BY DEF Max
  <2>6. Max(agents) = 1 /\ Max(states) = 3
    BY <2>3, <2>5
  <2>7. given = {state}
    <3>1. given = {st \in States : StateWord(st) = StateWord(state)}
      BY <2>0, <2>3, <2>6
    <3> QED
      BY <3>1, WordsDiffer
  <2> HIDE DEF given
  <2>8. /\ (CHOOSE st \in given : TRUE) = state
        /\ (CHOOSE a \in AgentIds : AgentWord(a) = s[Max(agents)]) = agent
        /\ agents # {} /\ given # {}
    <3>1. s[Max(agents)] = AgentWord(agent)
      BY <2>0, <2>6
    <3>2. (CHOOSE a \in AgentIds : AgentWord(a) = AgentWord(agent)) = agent
      BY WordsDiffer
    <3>3. (CHOOSE st \in {state} : TRUE) = state
      OBVIOUS
    <3> QED
      BY <2>3, <2>7, <3>1, <3>2, <3>3
  <2>9. SubSeq(s, end + 1, Len(s)) = SubSeq(s, 6, Len(s))
    <3>1. CASE Len(s) = 3
      <4>1. SubSeq(s, 5, 3) = <<>> /\ SubSeq(s, 6, 3) = <<>>
        BY <3>1, SubSeqEmpty DEF Cut
      <4> QED
        BY <2>1, <3>1, <4>1
    <3>2. CASE Len(s) >= 5
      <4>1. Len(s) # 3
        BY <1>2, <3>2
      <4>2. end + 1 = 6
        BY <2>1, <4>1
      <4> QED
        BY <4>2
    <3> QED
      BY <2>0, <3>1, <3>2
  <2> HIDE DEF tokens, agents, states, wrong
  <2>10. ~(Len(s) < 3)
    BY <1>2, <1>4
  <2>11. parse_line(line) = Notify(agent, state, SubSeq(s, end + 1, Len(s)))
    BY <1>1, <2>4, <2>8
  <2> QED
    BY <2>9, <2>10, <2>11
<1> QED
  BY <1>2, <1>3, <1>4

\* What is read of a line cut off after n symbols.
LEMMA ReadPart ==
  ASSUME NEW agent \in AgentIds, NEW state \in States,
         NEW label \in Seq(Whole), NEW n,
         n \in 0..Len(NotifyLine(agent, state, label))
  PROVE  \E b, e :
           /\ ReadTo(NotifyLine(agent, state, label), n, b, e)
           /\ InLabel(e) \in 0..Len(label)
           /\ \/ e \in {0, 1, 3}
              \/ e >= 5 /\ label # <<>> /\ e = 5 + InLabel(e)
           /\ parse_line(readline(SubSeq(NotifyLine(agent, state, label), 1, n))) =
                IF e < 3 THEN ParseError
                ELSE Notify(agent, state, SubSeq(label, 1, InLabel(e)))
<1> DEFINE line == NotifyLine(agent, state, label)
<1>1. line \in Seq(Whole) /\ line[1] \notin Blanks
  <2>1. line \in Seq(Whole) /\ line[1] = AgentWord(agent)
    BY LineSymbols
  <2> HIDE DEF line
  <2> QED
    BY <2>1, WordsApart
<1>2. \E b, e : /\ ReadTo(line, n, b, e)
                /\ Strip(readline(SubSeq(line, 1, n))) = SubSeq(line, 1, e)
  <2>1. n \in 0..Len(line)
    OBVIOUS
  <2> HIDE DEF line
  <2> QED
    BY <1>1, <2>1, LineStripped
<1>3. PICK b, e : /\ ReadTo(line, n, b, e)
                  /\ Strip(readline(SubSeq(line, 1, n))) = SubSeq(line, 1, e)
  BY <1>2
<1> DEFINE s == SubSeq(line, 1, e)
           k == InLabel(e)
<1>4. /\ k \in 0..Len(label)
      /\ Len(s) = e /\ Cut(agent, state, s)
      /\ e \in {0, 1, 3} \/ (e >= 5 /\ label # <<>> /\ e = 5 + k)
      /\ e >= 3 => SubSeq(s, 6, e) = SubSeq(label, 1, k)
  <2>1. HasPart(agent, state, label, s, e)
    BY <1>3, LabelPart
  <2> HIDE DEF s
  <2> QED
    BY <2>1 DEF HasPart
<1> DEFINE read == readline(SubSeq(line, 1, n))
<1>5. Strip(read) = s
  BY <1>3
<1> HIDE DEF line, s, k, read
<1>7. Len(s) \in {0, 1, 3} \/ Len(s) >= 5
  BY <1>4
<1>8. parse_line(read) = IF Len(s) < 3 THEN ParseError
                         ELSE Notify(agent, state, SubSeq(s, 6, Len(s)))
  BY <1>4, <1>5, <1>7, ParsedCut
<1>9. e \in Nat
  BY <1>4 DEF Cut
<1>10. parse_line(read) =
         IF e < 3 THEN ParseError ELSE Notify(agent, state, SubSeq(label, 1, k))
  <2>1. CASE e < 3
    BY <1>4, <1>8, <2>1
  <2>2. CASE ~(e < 3)
    <3>1. e >= 3
      BY <1>9, <2>2
    <3>2. SubSeq(s, 6, Len(s)) = SubSeq(label, 1, k)
      BY <1>4, <3>1
    <3> QED
      BY <1>4, <1>8, <2>2, <3>2
  <2> QED
    BY <2>1, <2>2
<1> QED
  BY <1>3, <1>4, <1>10 DEF line, k, read

\* A symbol as it is decoded.
Symbol(w) == IF Len(w) < Width(w[1]) THEN Replacement ELSE w

\* What is decoded is whole, and line breaks stay what they are.
LEMMA SymbolIs ==
  /\ \A w \in Whole : Symbol(w) = w
  /\ \A w : Symbol(w) = Nl <=> w = Nl
<1>1. \A w \in Whole : Symbol(w) = w
  BY DEF Whole, Symbol
<1>2. Replacement # Nl
  BY OtherWords
<1>3. Nl \in Whole
  BY WordsWhole
<1> QED
  BY <1>1, <1>2, <1>3 DEF Symbol

\* It makes no difference whether lines are read before they are decoded or
\* after.
LEMMA ReadDecoded ==
  ASSUME NEW sent \in Seq(Seq(Byte)), Decoded(sent) \in Seq(Whole)
  PROVE  Decoded(readline(sent)) = readline(Decoded(sent))
<1> DEFINE d == Decoded(sent)
           L == Len(sent)
           breaks == {i \in DOMAIN sent : sent[i] = Nl}
           m == IF breaks = {} THEN L ELSE Min(breaks)
<1>1. L \in Nat /\ DOMAIN sent = 1..L
  OBVIOUS
<1>2. d = [i \in 1..L |-> Symbol(sent[i])]
  BY <1>1 DEF Decoded, Symbol
<1>3. d \in Seq(Whole) /\ DOMAIN d = 1..L /\ \A i \in 1..L : d[i] = Symbol(sent[i])
  BY <1>2
<1>4. Len(d) = L
  BY <1>1, <1>3
<1> HIDE DEF d
<1>5. {i \in DOMAIN d : d[i] = Nl} = breaks
  BY <1>1, <1>3, SymbolIs
<1>6. m \in 0..L
  <2>1. CASE breaks = {}
    BY <1>1, <2>1
  <2>2. CASE breaks # {}
    <3>1. breaks \in SUBSET Nat
      BY <1>1
    <3>2. \E b \in breaks : \A c \in breaks : b <= c
      <4> HIDE DEF breaks
      <4> QED
        BY <2>2, <3>1, NatMin
    <3>3. Min(breaks) \in breaks
      <4> HIDE DEF breaks
      <4> QED
        BY <3>2 DEF Min
    <3>4. \A i \in breaks : i \in 0..L
      BY <1>1
    <3> HIDE DEF breaks
    <3> QED
      BY <2>2, <3>3, <3>4
  <2> QED
    BY <2>1, <2>2
<1>7. readline(sent) = SubSeq(sent, 1, m)
  <2>1. CASE breaks = {}
    BY <2>1, SubSeqFull DEF readline
  <2>2. CASE breaks # {}
    BY <2>2 DEF readline
  <2> QED
    BY <2>1, <2>2
<1>8. readline(d) = SubSeq(d, 1, m)
  <2> DEFINE own == {i \in DOMAIN d : d[i] = Nl}
  <2>0. readline(d) = IF own = {} THEN d ELSE SubSeq(d, 1, Min(own))
    BY DEF readline
  <2> HIDE DEF own, breaks
  <2>1. own = breaks
    BY <1>5 DEF own
  <2>2. SubSeq(d, 1, L) = d
    BY <1>3, <1>4, SubSeqFull
  <2> QED
    BY <2>0, <2>1, <2>2
<1> HIDE DEF m
<1> DEFINE u == SubSeq(sent, 1, m)
           v == SubSeq(d, 1, m)
<1>9. u \in Seq(Seq(Byte)) /\ Len(u) = m /\ \A i \in 1..m : u[i] = sent[i]
  BY <1>6, Part
<1>10. v \in Seq(Whole) /\ Len(v) = m /\ \A i \in 1..m : v[i] = d[i]
  BY <1>3, <1>4, <1>6, Part
<1> HIDE DEF u, v
<1>11. Decoded(u) = [i \in 1..m |-> Symbol(u[i])]
  <2>1. DOMAIN u = 1..m
    BY <1>9
  <2> QED
    BY <2>1 DEF Decoded, Symbol
<1>12. \A i \in 1..m : Symbol(u[i]) = v[i]
  <2>1. \A i \in 1..m : i \in 1..L
    BY <1>1, <1>6
  <2> QED
    BY <1>3, <1>9, <1>10, <2>1
<1>13. v = [i \in 1..m |-> v[i]]
  <2>1. DOMAIN v = 1..m /\ v = [i \in DOMAIN v |-> v[i]]
    BY <1>10
  <2> QED
    BY <2>1
<1>14. Decoded(u) = v
  BY <1>11, <1>12, <1>13
<1> QED
  BY <1>7, <1>8, <1>14 DEF u, v, d

\* Whole symbols are decoded to themselves.
LEMMA DecodedWhole ==
  ASSUME NEW s \in Seq(Whole)
  PROVE  Decoded(s) = s
<1>1. \A i \in DOMAIN s : s[i] \in Whole
  OBVIOUS
<1>2. Decoded(s) = [i \in DOMAIN s |-> Symbol(s[i])]
  BY DEF Decoded, Symbol
<1>3. \A i \in DOMAIN s : Symbol(s[i]) = s[i]
  BY <1>1, SymbolIs
<1>4. s = [i \in DOMAIN s |-> s[i]]
  OBVIOUS
<1> QED
  BY <1>2, <1>3, <1>4

LEMMA ReceivedRead ==
  ASSUME NEW s \in Seq(Whole)
  PROVE  Received(s) = parse_line(readline(s))
<1>1. s \in Seq(Seq(Byte)) /\ Decoded(s) = s
  BY WholeAreBytes, DecodedWhole
<1>2. Decoded(readline(s)) = readline(s)
  BY <1>1, ReadDecoded
<1> QED
  BY <1>2 DEF Received

\* The bytes of a text that is one symbol longer.
LEMMA Utf8Append ==
  ASSUME NEW t \in Seq(Seq(Byte)), NEW c \in Seq(Byte)
  PROVE  Utf8(Append(t, c)) = Utf8(t) \o c
<1> DEFINE u == Append(t, c)
           L == Len(t)
<1>1. /\ L \in Nat /\ u \in Seq(Seq(Byte)) /\ Len(u) = L + 1 /\ u # <<>>
      /\ \A i \in 1..L : u[i] = t[i]
      /\ u[L + 1] = c
  BY AppendProperties
<1> HIDE DEF u
<1>2. PICK f \in [1..Len(u) -> Seq(Byte)] :
        /\ FlattenSeq(u) = f[Len(u)]
        /\ \A i \in 1..Len(u) : f[i] = IF i = 1 THEN u[i] ELSE f[i - 1] \o u[i]
  BY <1>1, FlattenFunction
<1>5. \A i \in Nat \ {0} : i + 1 \in 1..Len(u) => f[i + 1] = f[i] \o u[i + 1]
  <2> SUFFICES ASSUME NEW i \in Nat \ {0}, NEW j \in 1..Len(u), j = i + 1
               PROVE  f[j] = f[i] \o u[j]
    OBVIOUS
  <2>1. j # 1 /\ j - 1 = i
    BY <1>1
  <2>2. f[j] = f[j - 1] \o u[j]
    BY <1>2, <2>1, Zenon
  <2> QED
    BY <2>1, <2>2
<1>3. CASE t = <<>>
  <2>1. L = 0
    BY <1>3
  <2>2. f[1] = c /\ Len(u) = 1
    BY <1>1, <1>2, <2>1
  <2>3. FlattenSeq(t) = <<>>
    BY <1>3 DEF FlattenSeq
  <2>4. <<>> \o c = c
    BY ConcatEmptySeq
  <2> QED
    BY <1>2, <2>2, <2>3, <2>4 DEF Utf8, u
<1>4. CASE t # <<>>
  <2>1. L \in Nat \ {0}
    BY <1>4, EmptySeq
  <2>2. PICK g \in [1..L -> Seq(Byte)] :
          /\ FlattenSeq(t) = g[L]
          /\ \A i \in 1..L : g[i] = IF i = 1 THEN t[i] ELSE g[i - 1] \o t[i]
    BY <1>4, FlattenFunction
  <2>8. \A i \in Nat \ {0} : i + 1 \in 1..L => g[i + 1] = g[i] \o t[i + 1]
    <3> SUFFICES ASSUME NEW i \in Nat \ {0}, NEW j \in 1..L, j = i + 1
                 PROVE  g[j] = g[i] \o t[j]
      OBVIOUS
    <3>1. j # 1 /\ j - 1 = i
      BY <1>1
    <3>2. g[j] = g[j - 1] \o t[j]
      BY <2>2, <3>1, Zenon
    <3> QED
      BY <3>1, <3>2
  <2> DEFINE T == {i \in Nat : i \in 1..L => f[i] = g[i]}
  <2>3. 0 \in T
    OBVIOUS
  <2>4. ASSUME NEW i \in Nat, i \in T PROVE i + 1 \in T
    <3> SUFFICES ASSUME i + 1 \in 1..L PROVE f[i + 1] = g[i + 1]
      OBVIOUS
    <3>1. i + 1 \in 1..Len(u) /\ u[i + 1] = t[i + 1] /\ i + 1 - 1 = i
      BY <1>1
    <3>2. CASE i = 0
      <4>1. i + 1 = 1
        BY <3>2
      <4> QED
        BY <1>2, <2>2, <3>1, <4>1
    <3>3. CASE i # 0
      <4>1. i + 1 # 1 /\ i \in 1..L
        BY <1>1, <3>3
      <4>2. f[i] = g[i]
        BY <2>4, <4>1
      <4>3. f[i + 1] = f[i] \o u[i + 1]
        BY <1>5, <3>1, <3>3
      <4>4. g[i + 1] = g[i] \o t[i + 1]
        BY <2>8, <3>3
      <4> QED
        BY <3>1, <4>2, <4>3, <4>4
    <3> QED
      BY <3>2, <3>3
  <2>5. Nat \subseteq T
    <3> HIDE DEF T
    <3> QED
      BY <2>3, <2>4, NatInductionSet
  <2>6. f[L] = g[L]
    <3>1. L \in T
      <4> HIDE DEF T
      <4> QED
        BY <2>1, <2>5
    <3>2. L \in 1..L
      BY <2>1
    <3> HIDE DEF L
    <3> QED
      BY <3>1, <3>2
  <2>7. f[L + 1] = f[L] \o c
    <3> HIDE DEF L
    <3>1. L + 1 \in 1..Len(u)
      BY <1>1, <2>1
    <3>2. f[L + 1] = f[L] \o u[L + 1]
      BY <1>5, <2>1, <3>1
    <3> QED
      BY <1>1, <3>2
  <2> QED
    BY <1>1, <1>2, <2>2, <2>6, <2>7 DEF Utf8, u
<1> QED
  BY <1>3, <1>4

\* A prefix, byte for byte.
LEMMA PrefixIs ==
  ASSUME NEW p \in Seq(Byte), NEW q \in Seq(Byte)
  PROVE  IsPrefix(p, q) <=> /\ Len(p) <= Len(q)
                            /\ \A i \in 1..Len(p) : p[i] = q[i]
<1>1. Len(p) \in Nat /\ Len(q) \in Nat
  OBVIOUS
<1>2. IsPrefix(p, q) <=> Len(p) <= Len(q) /\ SubSeq(p, 1, Len(p)) = SubSeq(q, 1, Len(p))
  BY DEF IsPrefix
<1>3. SubSeq(p, 1, Len(p)) = p
  BY SubSeqFull
<1>4. ASSUME Len(p) <= Len(q)
      PROVE  p = SubSeq(q, 1, Len(p)) <=> \A i \in 1..Len(p) : p[i] = q[i]
  <2> DEFINE r == SubSeq(q, 1, Len(p))
  <2>1. Len(p) \in 0..Len(q)
    BY <1>1, <1>4
  <2>2. r \in Seq(Byte) /\ Len(r) = Len(p) /\ \A i \in 1..Len(p) : r[i] = q[i]
    BY <2>1, Part
  <2> HIDE DEF r
  <2>3. p = r => \A i \in 1..Len(p) : p[i] = q[i]
    BY <2>2
  <2>4. ASSUME \A i \in 1..Len(p) : p[i] = q[i] PROVE p = r
    <3>1. \A i \in 1..Len(p) : p[i] = r[i]
      BY <2>2, <2>4
    <3> QED
      BY <2>2, <3>1, SeqEqual
  <2> QED
    BY <2>3, <2>4 DEF r
<1> QED
  BY <1>2, <1>3, <1>4

LEMMA PrefixTransitive ==
  ASSUME NEW p \in Seq(Byte), NEW q \in Seq(Byte), NEW r \in Seq(Byte),
         IsPrefix(p, q), IsPrefix(q, r)
  PROVE  IsPrefix(p, r)
<1>1. Len(p) \in Nat /\ Len(q) \in Nat /\ Len(r) \in Nat
  OBVIOUS
<1>2. /\ Len(p) <= Len(q) /\ \A i \in 1..Len(p) : p[i] = q[i]
      /\ Len(q) <= Len(r) /\ \A i \in 1..Len(q) : q[i] = r[i]
  BY PrefixIs
<1>3. Len(p) <= Len(r) /\ \A i \in 1..Len(p) : i \in 1..Len(q)
  BY <1>1, <1>2
<1>4. \A i \in 1..Len(p) : p[i] = r[i]
  BY <1>2, <1>3
<1> QED
  BY <1>3, <1>4, PrefixIs

LEMMA PrefixOfConcat ==
  ASSUME NEW q \in Seq(Byte), NEW r \in Seq(Byte), NEW s \in Seq(Byte),
         IsPrefix(r, s)
  PROVE  q \o r \in Seq(Byte) /\ q \o s \in Seq(Byte) /\ IsPrefix(q \o r, q \o s)
<1> DEFINE x == q \o r
           y == q \o s
<1>1. Len(q) \in Nat /\ Len(r) \in Nat /\ Len(s) \in Nat
  OBVIOUS
<1>2. Len(r) <= Len(s) /\ \A i \in 1..Len(r) : r[i] = s[i]
  BY PrefixIs
<1>3. /\ x \in Seq(Byte) /\ Len(x) = Len(q) + Len(r)
      /\ \A i \in 1..Len(q) + Len(r) : x[i] = IF i <= Len(q) THEN q[i] ELSE r[i - Len(q)]
  BY ConcatProperties
<1>4. /\ y \in Seq(Byte) /\ Len(y) = Len(q) + Len(s)
      /\ \A i \in 1..Len(q) + Len(s) : y[i] = IF i <= Len(q) THEN q[i] ELSE s[i - Len(q)]
  BY ConcatProperties
<1> HIDE DEF x, y
<1>5. ASSUME NEW i \in 1..Len(x) PROVE x[i] = y[i]
  <2>1. i \in 1..Len(q) + Len(r) /\ i \in 1..Len(q) + Len(s)
    BY <1>1, <1>2, <1>3
  <2>2. CASE i <= Len(q)
    BY <1>3, <1>4, <2>1, <2>2
  <2>3. CASE ~(i <= Len(q))
    <3>1. i - Len(q) \in 1..Len(r)
      BY <1>1, <2>1, <2>3
    <3> QED
      BY <1>2, <1>3, <1>4, <2>1, <2>3, <3>1
  <2> QED
    BY <2>2, <2>3
<1>6. Len(x) <= Len(y)
  BY <1>1, <1>2, <1>3, <1>4
<1>7. IsPrefix(x, y)
  BY <1>3, <1>4, <1>5, <1>6, PrefixIs
<1> QED
  BY <1>3, <1>4, <1>7 DEF x, y

\* The bytes of the first symbols are the first bytes.
LEMMA Utf8Part ==
  ASSUME NEW t \in Seq(Seq(Byte)), NEW k \in 0..Len(t)
  PROVE  IsPrefix(Utf8(SubSeq(t, 1, k)), Utf8(t))
<1> DEFINE P(n) == Utf8(SubSeq(t, 1, n))
           T == {d \in Nat : k + d <= Len(t) => IsPrefix(P(k), P(k + d))}
<1>1. Len(t) \in Nat /\ k \in Nat /\ k <= Len(t)
  OBVIOUS
<1>2. \A n \in 0..Len(t) : P(n) \in Seq(Byte)
  BY Part, Utf8Type
<1>3. 0 \in T
  <2>1. k + 0 = k /\ k \in 0..Len(t)
    BY <1>1
  <2>2. P(k) \in Seq(Byte)
    BY <1>2
  <2> HIDE DEF P
  <2>3. IsPrefix(P(k), P(k))
    BY <2>2, PrefixIs
  <2> QED
    BY <2>1, <2>3
<1>4. ASSUME NEW d \in Nat, d \in T PROVE d + 1 \in T
  <2> SUFFICES ASSUME k + (d + 1) <= Len(t) PROVE IsPrefix(P(k), P(k + (d + 1)))
    OBVIOUS
  <2> DEFINE n == k + d
             s == SubSeq(t, 1, n)
             c == t[n + 1]
  <2>1. /\ n \in 0..Len(t) /\ n + 1 \in 0..Len(t) /\ n + 1 \in 1..Len(t)
        /\ k + (d + 1) = n + 1 /\ n <= Len(t)
    BY <1>1
  <2>2. IsPrefix(P(k), P(n))
    BY <1>4, <2>1
  <2>3. SubSeq(t, 1, n + 1) = Append(s, c)
    <3> HIDE DEF n
    <3> DEFINE u == SubSeq(t, 1, n + 1)
               v == Append(s, c)
    <3>1. u \in Seq(Seq(Byte)) /\ Len(u) = n + 1 /\ \A i \in 1..n + 1 : u[i] = t[i]
      BY <2>1, Part
    <3>2. s \in Seq(Seq(Byte)) /\ Len(s) = n /\ \A i \in 1..n : s[i] = t[i]
      BY <2>1, Part
    <3>3. c \in Seq(Byte)
      BY <2>1, ElementOfSeq
    <3> HIDE DEF s, c
    <3>4. /\ v \in Seq(Seq(Byte)) /\ Len(v) = n + 1
          /\ \A i \in 1..n : v[i] = s[i]
          /\ v[n + 1] = c
      BY <3>2, <3>3, AppendProperties
    <3> HIDE DEF u, v
    <3>5. \A i \in 1..n + 1 : i \in 1..n \/ i = n + 1
      BY <2>1
    <3>6. n + 1 \in 1..n + 1
      BY <2>1
    <3>7. \A i \in 1..n + 1 : u[i] = v[i]
      BY <3>1, <3>2, <3>4, <3>5, <3>6 DEF c
    <3>8. u = v
      BY <3>1, <3>4, <3>7, SeqEqual
    <3> QED
      BY <3>8 DEF u, v
  <2>4. s \in Seq(Seq(Byte)) /\ c \in Seq(Byte)
    <3> HIDE DEF n
    <3> QED
      BY <2>1, Part, ElementOfSeq
  <2> HIDE DEF n, s, c
  <2>5. Utf8(Append(s, c)) = Utf8(s) \o c
    BY <2>4, Utf8Append
  <2>6. P(n + 1) = P(n) \o c
    BY <2>3, <2>5 DEF s
  <2>7. IsPrefix(<<>>, c) /\ P(n) \o <<>> = P(n)
    <3>1. P(n) \in Seq(Byte)
      BY <1>2, <2>1
    <3> HIDE DEF P
    <3>2. Len(<<>>) = 0 /\ <<>> \in Seq(Byte) /\ Len(c) \in Nat
      BY <2>4, EmptySeq
    <3>3. Len(<<>>) <= Len(c) /\ \A i \in 1..Len(<<>>) : FALSE
      BY <3>2
    <3>4. IsPrefix(<<>>, c)
      BY <2>4, <3>2, <3>3, PrefixIs
    <3>5. P(n) \o <<>> = P(n)
      BY <3>1, ConcatEmptySeq
    <3> QED
      BY <3>4, <3>5
  <2>8. IsPrefix(P(n), P(n + 1))
    <3>1. P(n) \in Seq(Byte) /\ <<>> \in Seq(Byte)
      BY <1>2, <2>1, EmptySeq
    <3> HIDE DEF P
    <3>2. IsPrefix(P(n) \o <<>>, P(n) \o c)
      BY <2>4, <2>7, <3>1, PrefixOfConcat
    <3> QED
      BY <2>6, <2>7, <3>2
  <2>9. P(k) \in Seq(Byte) /\ P(n) \in Seq(Byte) /\ P(n + 1) \in Seq(Byte)
    BY <1>1, <1>2, <2>1
  <2> HIDE DEF P
  <2> QED
    BY <2>1, <2>2, <2>8, <2>9, PrefixTransitive
<1>5. Nat \subseteq T
  <2> HIDE DEF T
  <2> QED
    BY <1>3, <1>4, NatInductionSet
<1>6. Len(t) - k \in Nat /\ k + (Len(t) - k) = Len(t)
  BY <1>1
<1>7. Len(t) - k \in T
  <2> HIDE DEF T
  <2> QED
    BY <1>5, <1>6
<1>8. IsPrefix(P(k), P(Len(t)))
  <2> HIDE DEF P
  <2>1. k + (Len(t) - k) <= Len(t)
    BY <1>1, <1>6
  <2> QED
    BY <1>6, <1>7, <2>1
<1> QED
  BY <1>8, SubSeqFull

\* One symbol more.
LEMMA Added ==
  ASSUME NEW S, NEW s \in Seq(S), NEW n \in 0..Len(s), NEW w \in S
  PROVE  LET t == SubSeq(s, 1, n) \o <<w>>
         IN  /\ t \in Seq(S) /\ Len(t) = n + 1 /\ t[n + 1] = w
             /\ \A i \in 1..n : t[i] = s[i]
<1> DEFINE p == SubSeq(s, 1, n)
           one == <<w>>
           t == p \o one
<1>1. p \in Seq(S) /\ Len(p) = n /\ \A i \in 1..n : p[i] = s[i]
  BY Part
<1>2. one \in Seq(S) /\ Len(one) = 1 /\ one[1] = w
  OBVIOUS
<1> HIDE DEF p, one
<1>3. /\ t \in Seq(S) /\ Len(t) = n + 1
      /\ \A i \in 1..n + 1 : t[i] = IF i <= n THEN p[i] ELSE one[i - n]
  <2>1. /\ t \in Seq(S) /\ Len(t) = Len(p) + Len(one)
        /\ \A i \in 1..Len(p) + Len(one) :
             t[i] = IF i <= Len(p) THEN p[i] ELSE one[i - Len(p)]
    BY <1>1, <1>2, ConcatProperties
  <2> HIDE DEF t
  <2> QED
    BY <1>1, <1>2, <2>1
<1> HIDE DEF t
<1>4. n \in Nat
  OBVIOUS
<1>5. n + 1 \in 1..n + 1 /\ ~(n + 1 <= n) /\ n + 1 - n = 1
  BY <1>4
<1>6. t[n + 1] = w
  <2>1. t[n + 1] = one[n + 1 - n]
    BY <1>3, <1>5
  <2> QED
    BY <1>2, <1>5, <2>1
<1>7. \A i \in 1..n : i \in 1..n + 1 /\ i <= n
  BY <1>4
<1>8. \A i \in 1..n : t[i] = s[i]
  BY <1>1, <1>3, <1>7
<1> QED
  BY <1>3, <1>6, <1>8 DEF t, p, one

\* A line whose last symbol is a beginning of a word, before any label, is an
\* error.
LEMMA LastNoWord ==
  ASSUME NEW s \in Seq(Whole), s # <<>>, NoWord(s[Len(s)]), s[1] \notin Blanks,
         \A i \in 1..Len(s) : s[i] # Nl /\ s[i] # TextWord
  PROVE  parse_line(readline(s)) = ParseError
<1> DEFINE L == Len(s)
<1>1. L \in Nat \ {0} /\ DOMAIN s = 1..L
  BY EmptySeq
<1>2. readline(s) = s
  BY <1>1 DEF readline
<1>3. Strip(s) = s
  <2>1. PICK e \in 0..L : /\ Strip(s) = SubSeq(s, 1, e)
                          /\ \A i \in e + 1..L : s[i] \in Blanks
    BY StripEnd
  <2>2. e = L
    <3> SUFFICES ASSUME e # L PROVE FALSE
      OBVIOUS
    <3>1. L \in e + 1..L
      <4> HIDE DEF L
      <4> QED
        BY <1>1
    <3> QED
      BY <2>1, <3>1 DEF NoWord
  <2> QED
    BY <2>1, <2>2, SubSeqFull
<1> DEFINE texts  == {i \in DOMAIN s : s[i] = TextWord /\ Starts(s, i)}
           end    == IF texts = {} THEN Len(s) + 1 ELSE Min(texts)
           tokens == {i \in 1..(end - 1) : ~Skipped(s, i)}
           agents == {i \in tokens : s[i] \in AgentWords}
           states == {i \in tokens : s[i] \in StateWords}
           given  == IF states = {} THEN {}
                     ELSE {st \in States : StateWord(st) = s[Max(states)]}
           wrong  == \E i \in tokens :
                       ~Token(s, i) \/ s[i] \notin AgentWords \union StateWords
<1>4. parse_line(s) =
        IF wrong \/ agents = {} \/ given = {} THEN ParseError
        ELSE Notify(CHOOSE a \in AgentIds : AgentWord(a) = s[Max(agents)],
                    CHOOSE st \in given : TRUE,
                    SubSeq(s, end + 1, Len(s)))
  BY <1>3 DEF parse_line, ParseLineOr
<1>5. end = L + 1
  <2>1. texts = {}
    BY <1>1
  <2> QED
    BY <2>1
<1>6. ~Skipped(s, L)
  <2> SUFFICES ASSUME Skipped(s, L) PROVE FALSE
    OBVIOUS
  <2>1. PICK j \in 1..L : \A k \in j..L : s[k] \in Blanks
    BY DEF Skipped
  <2>2. L \in j..L
    BY <1>1
  <2> QED
    BY <2>1, <2>2 DEF NoWord
<1>7. wrong
  <2>1. L \in 1..(end - 1)
    BY <1>1, <1>5
  <2>2. L \in tokens
    BY <1>6, <2>1
  <2>3. s[L] \notin AgentWords \union StateWords
    BY DEF NoWord
  <2> HIDE DEF tokens
  <2> QED
    BY <2>2, <2>3
<1> HIDE DEF texts, end, tokens, agents, states, given, wrong
<1> QED
  BY <1>2, <1>4, <1>7

\* A line that ends in the middle of a word of its own is an error.
LEMMA CutInWord ==
  ASSUME NEW agent \in AgentIds, NEW state \in States, NEW label \in Seq(Whole),
         NEW n \in {0, 2, 4}, n < Len(NotifyLine(agent, state, label)),
         NEW b \in 1..Len(NotifyLine(agent, state, label)[n + 1]) - 1
  PROVE  Received(Begun(NotifyLine(agent, state, label), n, b)) = ParseError
<1> DEFINE line == NotifyLine(agent, state, label)
           c == line[n + 1]
           P == SubSeq(c, 1, b)
           s == SubSeq(line, 1, n) \o <<P>>
<1>1. /\ line \in Seq(Whole)
      /\ Len(line) = IF label = <<>> THEN 4 ELSE 6 + Len(label)
      /\ line[1] = AgentWord(agent) /\ line[2] = Sp /\ line[3] = StateWord(state)
      /\ label # <<>> => line[4] = Sp /\ line[5] = TextWord
  BY LineSymbols
<1>2. b \in 1..Len(c) - 1 /\ n < Len(line)
  OBVIOUS
<1> HIDE DEF line
<1>3. c \in AgentWords \union StateWords \union {TextWord} /\ (n = 4 => label # <<>>)
  <2>1. CASE n = 0
    BY <1>1, <2>1, WordsApart
  <2>2. CASE n = 2
    BY <1>1, <2>2, WordsApart
  <2>3. CASE n = 4
    <3>1. label # <<>>
      BY <1>1, <1>2, <2>3
    <3> QED
      BY <1>1, <2>3, <3>1
  <2> QED
    BY <2>1, <2>2, <2>3
<1> HIDE DEF c
<1>4. P \in Whole /\ NoWord(P)
  BY <1>2, <1>3, CutWord
<1>5. n \in 0..Len(line)
  BY <1>1, <1>2
<1>6. b # 0
  BY <1>2
<1>7. Begun(line, n, b) = s
  BY <1>6 DEF Begun, c
<1> HIDE DEF P
<1>8. /\ s \in Seq(Whole) /\ Len(s) = n + 1 /\ s[n + 1] = P
      /\ \A i \in 1..n : s[i] = line[i]
  BY <1>1, <1>4, <1>5, Added
<1> HIDE DEF s
<1>9. /\ P \notin Blanks /\ P # Nl /\ P # TextWord
      /\ AgentWord(agent) \notin Blanks /\ AgentWord(agent) # Nl
      /\ AgentWord(agent) # TextWord
      /\ StateWord(state) # Nl /\ StateWord(state) # TextWord
      /\ Sp # Nl /\ Sp # TextWord
  BY <1>4, WordsApart DEF NoWord
<1>13. s # <<>>
  BY <1>5, <1>8
<1>10. /\ s[1] \notin Blanks
       /\ \A i \in 1..Len(s) : s[i] # Nl /\ s[i] # TextWord
  <2>1. CASE n = 0
    <3>1. Len(s) = 1 /\ s[1] = P /\ \A i \in 1..1 : i = 1
      BY <1>8, <2>1
    <3> QED
      BY <1>9, <3>1
  <2>2. CASE n = 2
    <3>1. /\ Len(s) = 3 /\ s[3] = P /\ s[1] = AgentWord(agent) /\ s[2] = Sp
          /\ \A i \in 1..3 : i = 1 \/ i = 2 \/ i = 3
      BY <1>1, <1>8, <2>2
    <3> QED
      BY <1>9, <3>1
  <2>3. CASE n = 4
    <3>1. /\ Len(s) = 5 /\ s[5] = P /\ s[1] = AgentWord(agent) /\ s[2] = Sp
          /\ s[3] = StateWord(state) /\ s[4] = Sp
          /\ \A i \in 1..5 : i = 1 \/ i = 2 \/ i = 3 \/ i = 4 \/ i = 5
      BY <1>1, <1>3, <1>8, <2>3
    <3> QED
      BY <1>9, <3>1
  <2> QED
    BY <2>1, <2>2, <2>3
<1>11. parse_line(readline(s)) = ParseError
  BY <1>4, <1>8, <1>10, <1>13, LastNoWord
<1>12. Received(Begun(line, n, b)) = ParseError
  BY <1>7, <1>8, <1>11, ReceivedRead
<1> QED
  BY <1>12 DEF line

\* A text with no more than the first bytes of a label, or some of its first
\* characters and one that could not be decoded.
Shorter(t, label) ==
  \/ IsPrefix(Utf8(t), Utf8(label))
  \/ t # <<>> /\ Last(t) = Replacement /\ IsPrefix(Utf8(Front(t)), Utf8(label))

LEMMA PartShorter ==
  ASSUME NEW label \in Seq(Whole), NEW k \in 0..Len(label)
  PROVE  Shorter(SubSeq(label, 1, k), label)
<1>1. label \in Seq(Seq(Byte))
  BY WholeAreBytes
<1> QED
  BY <1>1, Utf8Part DEF Shorter

\* The first m characters, and what is decoded of b bytes of the next.
LEMMA CutShorter ==
  ASSUME NEW label \in Seq(Whole), NEW m \in 0..Len(label) - 1,
         NEW b \in 1..Len(label[m + 1]) - 1
  PROVE  LET P == SubSeq(label[m + 1], 1, b)
             t == SubSeq(label, 1, m) \o <<Symbol(P)>>
         IN  /\ P \in Seq(Byte) /\ Symbol(P) \in Whole
             /\ t \in Seq(Whole) /\ Len(t) = m + 1
             /\ \A k \in 0..m + 1 : Shorter(SubSeq(t, 1, k), label)
<1> DEFINE c == label[m + 1]
           P == SubSeq(c, 1, b)
           Q == Symbol(P)
           front == SubSeq(label, 1, m)
           t == front \o <<Q>>
<1>1. Len(label) \in Nat /\ m \in 0..Len(label) /\ m + 1 \in 0..Len(label) /\ m + 1 \in 1..Len(label)
      /\ m \in Nat
  OBVIOUS
<1>2. c \in Whole /\ c \in Seq(Byte) /\ Len(c) \in Nat
  <2>1. c \in Whole
    BY <1>1, ElementOfSeq
  <2> HIDE DEF c
  <2> QED
    BY <2>1 DEF Whole
<1>3. b \in 0..Len(c) /\ b \in Nat \ {0} /\ b <= Len(c)
  BY <1>2
<1> HIDE DEF c
<1>4. P \in Seq(Byte) /\ Len(P) = b /\ \A i \in 1..b : P[i] = c[i]
  BY <1>2, <1>3, Beginning
<1> HIDE DEF P
<1>5. P # <<>>
  BY <1>3, <1>4
<1>6. Q \in Whole /\ (Q = Replacement \/ Q = P)
  <2>1. CASE Len(P) < Width(P[1])
    BY <2>1, WordsWhole DEF Symbol
  <2>2. CASE ~(Len(P) < Width(P[1]))
    BY <1>4, <1>5, <2>2 DEF Symbol, Whole
  <2> QED
    BY <2>1, <2>2
<1> HIDE DEF Q
<1>7. /\ t \in Seq(Whole) /\ Len(t) = m + 1 /\ t[m + 1] = Q
      /\ \A i \in 1..m : t[i] = label[i]
  BY <1>1, <1>6, Added
<1>8. front \in Seq(Whole) /\ Len(front) = m /\ \A i \in 1..m : front[i] = label[i]
  BY <1>1, Part
<1> HIDE DEF front
<1>9. t = Append(front, Q)
  BY <1>6, <1>8, AppendIsConcat
<1> HIDE DEF t
<1>10. ASSUME NEW k \in 0..m PROVE SubSeq(t, 1, k) = SubSeq(label, 1, k)
  <2> DEFINE u == SubSeq(t, 1, k)
             v == SubSeq(label, 1, k)
  <2>1. k \in 0..Len(t) /\ k \in 0..Len(label) /\ \A i \in 1..k : i \in 1..m
    BY <1>1, <1>7
  <2>2. u \in Seq(Whole) /\ Len(u) = k /\ \A i \in 1..k : u[i] = t[i]
    BY <1>7, <2>1, Part
  <2>3. v \in Seq(Whole) /\ Len(v) = k /\ \A i \in 1..k : v[i] = label[i]
    BY <2>1, Part
  <2> HIDE DEF u, v
  <2>4. \A i \in 1..k : u[i] = v[i]
    BY <1>7, <2>1, <2>2, <2>3
  <2>5. u = v
    BY <2>2, <2>3, <2>4, SeqEqual
  <2> QED
    BY <2>5 DEF u, v
<1>11. ASSUME NEW k \in 0..m PROVE Shorter(SubSeq(t, 1, k), label)
  <2>1. k \in 0..Len(label)
    BY <1>1
  <2> QED
    BY <1>10, <2>1, PartShorter
<1>12. SubSeq(t, 1, m + 1) = t
  BY <1>7, SubSeqFull
<1>13. ASSUME Q = Replacement PROVE Shorter(t, label)
  <2>1. t # <<>>
    BY <1>1, <1>7
  <2>2. Last(t) = Replacement
    BY <1>7, <1>13 DEF Last
  <2>3. Len(t) - 1 = m /\ m \in 0..m
    BY <1>1, <1>7
  <2>4. Front(t) = SubSeq(label, 1, m)
    BY <1>10, <2>3 DEF Front
  <2>5. label \in Seq(Seq(Byte))
    BY WholeAreBytes
  <2>6. IsPrefix(Utf8(Front(t)), Utf8(label))
    BY <1>1, <2>4, <2>5, Utf8Part
  <2> QED
    BY <2>1, <2>2, <2>6 DEF Shorter
<1>14. ASSUME Q = P PROVE Shorter(t, label)
  <2>1. label \in Seq(Seq(Byte)) /\ front \in Seq(Seq(Byte))
    BY <1>8, WholeAreBytes
  <2>2. Utf8(t) = Utf8(front) \o P
    BY <1>4, <1>9, <1>14, <2>1, Utf8Append
  <2>3. IsPrefix(P, c)
    BY <1>2, <1>3, <1>4, PrefixIs
  <2>4. Utf8(Append(front, c)) = Utf8(front) \o c
    BY <1>2, <2>1, Utf8Append
  <2>5. Utf8(front) \in Seq(Byte)
    BY <2>1, Utf8Type
  <2>6. /\ Utf8(front) \o P \in Seq(Byte) /\ Utf8(front) \o c \in Seq(Byte)
        /\ IsPrefix(Utf8(front) \o P, Utf8(front) \o c)
    BY <1>2, <1>4, <2>3, <2>5, PrefixOfConcat
  <2>7. Append(front, c) = SubSeq(label, 1, m + 1)
    <3> DEFINE u == Append(front, c)
               v == SubSeq(label, 1, m + 1)
    <3>1. v \in Seq(Whole) /\ Len(v) = m + 1 /\ \A i \in 1..m + 1 : v[i] = label[i]
      BY <1>1, Part
    <3>2. /\ u \in Seq(Whole) /\ Len(u) = m + 1 /\ u[m + 1] = c
          /\ \A i \in 1..m : u[i] = front[i]
      BY <1>2, <1>8, AppendProperties
    <3> HIDE DEF u, v
    <3>3. m + 1 \in 1..m + 1 /\ \A i \in 1..m + 1 : i \in 1..m \/ i = m + 1
      BY <1>1
    <3>4. \A i \in 1..m + 1 : u[i] = v[i]
      BY <1>8, <3>1, <3>2, <3>3 DEF c
    <3>5. u = v
      BY <3>1, <3>2, <3>4, SeqEqual
    <3> QED
      BY <3>5 DEF u, v
  <2>8. IsPrefix(Utf8(front) \o c, Utf8(label))
    <3>1. IsPrefix(Utf8(SubSeq(label, 1, m + 1)), Utf8(label))
      BY <1>1, <2>1, Utf8Part
    <3> QED
      BY <2>4, <2>7, <3>1
  <2>9. Utf8(label) \in Seq(Byte)
    BY <2>1, Utf8Type
  <2>10. IsPrefix(Utf8(t), Utf8(label))
    BY <2>2, <2>6, <2>8, <2>9, PrefixTransitive
  <2> QED
    BY <2>10 DEF Shorter
<1>15. Shorter(SubSeq(t, 1, m + 1), label)
  BY <1>6, <1>12, <1>13, <1>14
<1>16. \A k \in 0..m + 1 : k \in 0..m \/ k = m + 1
  BY <1>1
<1>17. \A k \in 0..m + 1 : Shorter(SubSeq(t, 1, k), label)
  BY <1>11, <1>15, <1>16
<1> QED
  BY <1>4, <1>6, <1>7, <1>17 DEF t, front, Q, P, c

\* The same notification, with less of its label, or none at all.
Harmless(agent, state, label, got) ==
  \/ got = ParseError
  \/ got.agent = agent /\ got.state = state /\ Shorter(got.text, label)

\* A line that ends after any of its symbols.
LEMMA CutAfterSymbol ==
  ASSUME NEW agent \in AgentIds, NEW state \in States, NEW label \in Seq(Whole),
         NEW n, n \in 0..Len(NotifyLine(agent, state, label))
  PROVE  Harmless(agent, state, label,
                  Received(SubSeq(NotifyLine(agent, state, label), 1, n)))
<1> DEFINE line == NotifyLine(agent, state, label)
           s == SubSeq(line, 1, n)
<1>1. PICK b, e :
        /\ InLabel(e) \in 0..Len(label)
        /\ parse_line(readline(s)) =
             IF e < 3 THEN ParseError
             ELSE Notify(agent, state, SubSeq(label, 1, InLabel(e)))
  BY ReadPart
<1>2. line \in Seq(Whole) /\ n \in 0..Len(line)
  BY LineSymbols
<1> HIDE DEF line
<1>3. s \in Seq(Whole)
  BY <1>2, Part
<1> HIDE DEF s
<1>4. Received(s) = parse_line(readline(s))
  BY <1>3, ReceivedRead
<1> DEFINE got == Received(s)
           part == SubSeq(label, 1, InLabel(e))
<1>5. Shorter(part, label)
  BY <1>1, PartShorter
<1>6. got = ParseError \/ got = Notify(agent, state, part)
  BY <1>1, <1>4
<1> HIDE DEF got, part
<1>7. got = ParseError \/ (got.agent = agent /\ got.state = state /\ got.text = part)
  BY <1>6 DEF Notify
<1>8. Harmless(agent, state, label, got)
  BY <1>5, <1>7 DEF Harmless
<1> QED
  BY <1>8 DEF got, s, line

\* A line that ends in the middle of a character of the label.
LEMMA CutInLabel ==
  ASSUME NEW agent \in AgentIds, NEW state \in States,
         NEW label \in Seq(Whole), NEW m \in 0..Len(label) - 1,
         NEW b \in 1..Len(label[m + 1]) - 1
  PROVE  Harmless(agent, state, label,
                  Received(Begun(NotifyLine(agent, state, label), m + 5, b)))
<1> DEFINE line == NotifyLine(agent, state, label)
           c == label[m + 1]
           P == SubSeq(c, 1, b)
           Q == Symbol(P)
           t == SubSeq(label, 1, m) \o <<Q>>
           n == m + 5
           raw == SubSeq(line, 1, n) \o <<P>>
           d == SubSeq(line, 1, n) \o <<Q>>
           short == NotifyLine(agent, state, t)
<1>1. /\ P \in Seq(Byte) /\ Q \in Whole
      /\ t \in Seq(Whole) /\ Len(t) = m + 1
      /\ \A k \in 0..m + 1 : Shorter(SubSeq(t, 1, k), label)
  BY CutShorter
<1>2. /\ m \in Nat /\ m < Len(label) /\ Len(label) \in Nat /\ label # <<>>
      /\ m \in 0..Len(label) /\ m + 1 \in 1..Len(label)
      /\ n \in Nat /\ n + 1 = m + 6 /\ n + 1 = 5 + (m + 1)
  <2>1. Len(label) \in Nat /\ m \in Nat /\ m < Len(label)
    OBVIOUS
  <2>2. label # <<>>
    BY <2>1
  <2> QED
    BY <2>1, <2>2
<1>0. b # 0
  <2>1. \A k : \A x \in 1..k : x # 0
    OBVIOUS
  <2> HIDE DEF c
  <2> QED
    BY <2>1
<1>3. /\ line \in Seq(Whole) /\ Len(line) = 6 + Len(label)
      /\ line[1] = AgentWord(agent) /\ line[2] = Sp /\ line[3] = StateWord(state)
      /\ line[4] = Sp /\ line[5] = TextWord
      /\ \A i \in 1..Len(label) : line[5 + i] = label[i]
  BY <1>2, LineSymbols
<1>4. t[m + 1] = Q /\ \A i \in 1..m : t[i] = label[i]
  <2>1. Q \in Whole /\ m \in 0..Len(label)
    BY <1>1, <1>2
  <2> HIDE DEF Q, P, c, line, raw, d, short, n
  <2> QED
    BY <2>1, Added
<1> HIDE DEF t, line
<1>5. line[n + 1] = c
  BY <1>2, <1>3
<1>6. Begun(line, n, b) = raw
  BY <1>0, <1>5 DEF Begun
<1> HIDE DEF Q, P, c
<1>7. t # <<>>
  BY <1>1, <1>2
<1>8. /\ short \in Seq(Whole) /\ Len(short) = 6 + (m + 1)
      /\ short[1] = AgentWord(agent) /\ short[2] = Sp /\ short[3] = StateWord(state)
      /\ short[4] = Sp /\ short[5] = TextWord
      /\ \A i \in 1..m + 1 : short[5 + i] = t[i]
  <2>1. /\ short \in Seq(Whole)
        /\ Len(short) = IF t = <<>> THEN 4 ELSE 6 + Len(t)
        /\ short[1] = AgentWord(agent) /\ short[2] = Sp /\ short[3] = StateWord(state)
        /\ t # <<>> => /\ short[4] = Sp /\ short[5] = TextWord
                       /\ \A i \in 1..Len(t) : short[5 + i] = t[i]
    BY <1>1, LineSymbols
  <2> HIDE DEF short
  <2> QED
    BY <1>1, <1>7, <2>1
<1>9. n \in 0..Len(line)
  BY <1>2, <1>3
<1>10. line \in Seq(Seq(Byte))
  BY <1>3, WholeAreBytes
<1>11. /\ raw \in Seq(Seq(Byte)) /\ Len(raw) = n + 1 /\ raw[n + 1] = P
       /\ \A i \in 1..n : raw[i] = line[i]
  <2> DEFINE S == Seq(Byte)
  <2>1. line \in Seq(S) /\ P \in S
    BY <1>1, <1>10
  <2> HIDE DEF S, n
  <2>2. /\ raw \in Seq(S) /\ Len(raw) = n + 1 /\ raw[n + 1] = P
        /\ \A i \in 1..n : raw[i] = line[i]
    BY <1>9, <2>1, Added
  <2> QED
    BY <2>2 DEF S
<1>12. /\ d \in Seq(Whole) /\ Len(d) = n + 1 /\ d[n + 1] = Q
       /\ \A i \in 1..n : d[i] = line[i]
  BY <1>1, <1>3, <1>9, Added
<1> HIDE DEF raw, d, n, short
<1>13. n + 1 \in 1..n + 1 /\ \A i \in 1..n + 1 : i \in 1..n \/ i = n + 1
  BY <1>2
<1>14. Decoded(raw) = d
  <2>1. DOMAIN raw = 1..n + 1
    BY <1>11
  <2>2. Decoded(raw) = [i \in 1..n + 1 |-> Symbol(raw[i])]
    BY <2>1 DEF Decoded, Symbol
  <2>3. d = [i \in 1..n + 1 |-> d[i]]
    <3>1. DOMAIN d = 1..n + 1 /\ d = [i \in DOMAIN d |-> d[i]]
      BY <1>12
    <3> QED
      BY <3>1
  <2>4. \A i \in 1..n : Symbol(line[i]) = line[i]
    <3>1. \A i \in 1..n : i \in 1..Len(line)
      BY <1>2, <1>9
    <3>2. \A i \in 1..n : line[i] \in Whole
      BY <1>3, <3>1, ElementOfSeq
    <3> QED
      BY <3>2, SymbolIs
  <2>5. \A i \in 1..n + 1 : Symbol(raw[i]) = d[i]
    BY <1>11, <1>12, <1>13, <2>4 DEF Q
  <2> QED
    BY <2>2, <2>3, <2>5
<1>15. d = SubSeq(short, 1, n + 1)
  <2> DEFINE v == SubSeq(short, 1, n + 1)
  <2>1. n + 1 \in 0..Len(short)
    BY <1>2, <1>8
  <2>2. v \in Seq(Whole) /\ Len(v) = n + 1 /\ \A i \in 1..n + 1 : v[i] = short[i]
    BY <1>8, <2>1, Part
  <2> HIDE DEF v
  <2>3. ASSUME NEW i \in 1..n PROVE short[i] = line[i]
    <3>1. i = 1 \/ i = 2 \/ i = 3 \/ i = 4 \/ i = 5 \/ i - 5 \in 1..m
      BY <1>2 DEF n
    <3>2. CASE i - 5 \in 1..m
      <4>1. /\ 5 + (i - 5) = i
            /\ i - 5 \in 1..m + 1 /\ i - 5 \in 1..Len(label)
        BY <1>2, <3>2
      <4>2. short[5 + (i - 5)] = t[i - 5]
        BY <1>8, <4>1
      <4>3. line[5 + (i - 5)] = label[i - 5]
        BY <1>3, <4>1
      <4>4. t[i - 5] = label[i - 5]
        BY <1>4, <3>2
      <4> QED
        BY <4>1, <4>2, <4>3, <4>4
    <3> QED
      BY <1>3, <1>8, <3>1, <3>2
  <2>4. short[n + 1] = Q
    <3>0. m + 1 \in 1..m + 1
      BY <1>2
    <3>1. short[5 + (m + 1)] = t[m + 1]
      BY <1>8, <3>0, Zenon
    <3> QED
      BY <1>2, <1>4, <3>1
  <2>5. \A i \in 1..n + 1 : d[i] = v[i]
    BY <1>12, <1>13, <2>2, <2>3, <2>4
  <2>6. d = v
    BY <1>12, <2>2, <2>5, SeqEqual
  <2> QED
    BY <2>6 DEF v
<1>16. Received(raw) = parse_line(readline(d))
  <2>1. Decoded(readline(raw)) = readline(d)
    BY <1>11, <1>12, <1>14, ReadDecoded
  <2> QED
    BY <2>1 DEF Received
<1>17. \E b1, e : /\ InLabel(e) \in 0..Len(t)
                  /\ parse_line(readline(SubSeq(short, 1, n + 1))) =
                       IF e < 3 THEN ParseError
                       ELSE Notify(agent, state, SubSeq(t, 1, InLabel(e)))
  <2>1. n + 1 \in 0..Len(short)
    BY <1>2, <1>8
  <2> QED
    BY <1>1, <2>1, ReadPart DEF short
<1>18. PICK e : /\ InLabel(e) \in 0..m + 1
                /\ Received(raw) =
                     IF e < 3 THEN ParseError
                     ELSE Notify(agent, state, SubSeq(t, 1, InLabel(e)))
  BY <1>1, <1>15, <1>16, <1>17
<1> DEFINE got == Received(raw)
           part == SubSeq(t, 1, InLabel(e))
<1>19. Shorter(part, label)
  BY <1>1, <1>18
<1>20. got = ParseError \/ got = Notify(agent, state, part)
  BY <1>18
<1> HIDE DEF got, part
<1>21. got = ParseError \/ (got.agent = agent /\ got.state = state /\ got.text = part)
  BY <1>20 DEF Notify
<1>22. Harmless(agent, state, label, got)
  BY <1>19, <1>21 DEF Harmless
<1> QED
  BY <1>6, <1>22 DEF got, n, line

\* A client that is killed at any byte of its line sends no notification, or
\* its own one with less of the label (readline, decode and parse_line of
\* socket_server.py).
THEOREM CutLineHarmless == Spec => []PartialLineHarmless
<1>1. ASSUME CodecTypes PROVE PartialLineHarmless
  <2>0. text \in Seq(Whole)
    BY <1>1, WordsWhole DEF CodecTypes
  <2>1. ASSUME NEW agent \in AgentIds, NEW state \in States,
               NEW n \in 0..Len(NotifyLine(agent, state, text)) - 1,
               NEW b \in 0..Len(NotifyLine(agent, state, text)[n + 1]) - 1
        PROVE  Harmless(agent, state, text,
                        Received(Begun(NotifyLine(agent, state, text), n, b)))
    <3> DEFINE line == NotifyLine(agent, state, text)
               got == Received(Begun(line, n, b))
               L == IF text = <<>> THEN 4 ELSE 6 + Len(text)
    <3>1. /\ line \in Seq(Whole) /\ Len(line) = L /\ L \in Nat
          /\ line[2] = Sp /\ line[L] = Nl
          /\ text # <<>> => /\ line[4] = Sp
                            /\ \A i \in 1..Len(text) : line[5 + i] = text[i]
      BY <2>0, LineSymbols
    <3>2. Len(text) \in Nat
      BY <2>0
    <3>3. n \in 0..Len(line) - 1 /\ b \in 0..Len(line[n + 1]) - 1
      OBVIOUS
    <3>4. CASE b = 0
      <4>1. n \in 0..Len(line)
        <5> HIDE DEF line
        <5> QED
          BY <3>1, <3>3
      <4>2. SubSeq(line, 1, n) \in Seq(Whole)
        <5> HIDE DEF line
        <5> QED
          BY <3>1, <4>1, Part
      <4>3. Begun(line, n, b) = SubSeq(line, 1, n)
        <5> HIDE DEF line
        <5> QED
          BY <3>4, <4>2, ConcatEmptySeq DEF Begun
      <4> QED
        BY <2>0, <4>1, <4>3, CutAfterSymbol
    <3>5. CASE b # 0
      <4>1. Len(line[n + 1]) \in Nat
        <5> HIDE DEF line, L
        <5>1. n + 1 \in 1..Len(line)
          BY <3>1, <3>3
        <5>2. line[n + 1] \in Whole
          BY <3>1, <5>1, ElementOfSeq
        <5> QED
          BY <5>2 DEF Whole
      <4>2. b \in 1..Len(line[n + 1]) - 1 /\ Len(line[n + 1]) # 1
        <5>1. \A k \in Nat : \A x \in 0..k - 1 : x # 0 => x \in 1..k - 1 /\ k # 1
          OBVIOUS
        <5> HIDE DEF line
        <5> QED
          BY <3>3, <3>5, <4>1, <5>1
      <4>3. line[n + 1] # Sp /\ line[n + 1] # Nl
        BY <4>2, OtherWords
      <4>4. n # 1 /\ n + 1 # L /\ (text # <<>> => n # 3)
        <5> HIDE DEF line, L
        <5> QED
          BY <3>1, <4>3
      <4>5. n \in 0..L - 1 /\ n < Len(line)
        <5> HIDE DEF line, L
        <5> QED
          BY <3>1, <3>3
      <4>6. n \in {0, 2, 4} \/ (text # <<>> /\ n - 5 \in 0..Len(text) - 1)
        BY <3>2, <4>4, <4>5
      <4>7. CASE n \in {0, 2, 4}
        <5>1. got = ParseError
          BY <2>0, <4>2, <4>5, <4>7, CutInWord
        <5> QED
          BY <5>1 DEF Harmless
      <4>8. CASE text # <<>> /\ n - 5 \in 0..Len(text) - 1
        <5> DEFINE m == n - 5
        <5>1. /\ m \in 0..Len(text) - 1 /\ m + 5 = n /\ 5 + (m + 1) = n + 1
              /\ m + 1 \in 1..Len(text)
          BY <3>2, <4>5, <4>8
        <5>2. line[n + 1] = text[m + 1]
          <6> HIDE DEF line, m
          <6> QED
            BY <3>1, <4>8, <5>1
        <5>3. b \in 1..Len(text[m + 1]) - 1
          BY <4>2, <5>2
        <5> HIDE DEF m
        <5>4. Harmless(agent, state, text,
                       Received(Begun(NotifyLine(agent, state, text), m + 5, b)))
          BY <2>0, <5>1, <5>3, CutInLabel
        <5> QED
          BY <5>1, <5>4
      <4> QED
        BY <4>6, <4>7, <4>8
    <3> QED
      BY <3>4, <3>5
  <2> QED
    BY <2>1 DEF PartialLineHarmless, Harmless, Shorter
<1> QED
  BY <1>1, CodecTypeCorrect, PTL

\* The first k characters are the first line of the label, without what is
\* blank at its end.
FirstPart(label, k) ==
  /\ k \in 0..Len(label)
  /\ k = 0 \/ label[k] \notin Blanks
  /\ \A i \in 1..k : label[i] # Nl
  /\ \A i \in k + 1..Len(label) :
       label[i] \in Blanks \/ \E j \in k + 1..i : label[j] = Nl

LEMMA ReceivedWhole ==
  ASSUME NEW agent \in AgentIds, NEW state \in States,
         NEW label \in Seq(Whole)
  PROVE  \E k : /\ FirstPart(label, k)
                /\ Received(NotifyLine(agent, state, label)) =
                     Notify(agent, state, SubSeq(label, 1, k))
<1> DEFINE line == NotifyLine(agent, state, label)
           n    == IF label = <<>> THEN 4 ELSE 6 + Len(label)
<1>1. /\ line \in Seq(Whole) /\ Len(line) = n /\ n \in Nat
      /\ line[1] = AgentWord(agent) /\ line[2] = Sp /\ line[3] = StateWord(state)
      /\ line[n] = Nl
      /\ label # <<>> =>
           /\ line[4] = Sp /\ line[5] = TextWord
           /\ \A i \in 1..Len(label) : line[5 + i] = label[i]
  BY LineSymbols
<1>2. PICK b, e :
        /\ ReadTo(line, n, b, e)
        /\ InLabel(e) \in 0..Len(label)
        /\ \/ e \in {0, 1, 3}
           \/ e >= 5 /\ label # <<>> /\ e = 5 + InLabel(e)
        /\ parse_line(readline(SubSeq(line, 1, n))) =
             IF e < 3 THEN ParseError
             ELSE Notify(agent, state, SubSeq(label, 1, InLabel(e)))
  <2>1. n \in 0..Len(line) /\ n = Len(line)
    BY <1>1
  <2> HIDE DEF n
  <2> QED
    BY <2>1, ReadPart
<1>3. SubSeq(line, 1, n) = line
  BY <1>1, SubSeqFull
<1> DEFINE k == InLabel(e)
<1>4. /\ k \in 0..Len(label) /\ Len(label) \in Nat
      /\ \/ e \in {0, 1, 3}
         \/ e >= 5 /\ label # <<>> /\ e = 5 + k
      /\ Received(line) = IF e < 3 THEN ParseError
                          ELSE Notify(agent, state, SubSeq(label, 1, k))
  <2>1. Received(line) = parse_line(readline(SubSeq(line, 1, n)))
    BY <1>1, <1>3, ReceivedRead
  <2>2. Len(label) \in Nat
    OBVIOUS
  <2> HIDE DEF line, n
  <2> QED
    BY <1>2, <2>1, <2>2
<1> HIDE DEF line, k
<1>5. /\ b \in 0..n /\ b \in Nat /\ e \in 0..b /\ e \in Nat
      /\ \A i \in 1..b - 1 : line[i] # Nl
      /\ \/ b = n
         \/ b >= 1 /\ line[b] = Nl
      /\ b >= 1 => e >= 1 /\ line[e] \notin Blanks
      /\ \A i \in e + 1..b : line[i] \in Blanks
  BY <1>1, <1>2 DEF ReadTo
<1>6. n >= 4 /\ (label # <<>> => n >= 6)
  BY <1>4
<1>7. b >= 1 /\ line[b] = Nl
  <2> HIDE DEF n
  <2> QED
    BY <1>1, <1>5, <1>6
<1> HIDE DEF n
<1>8. b # 1 /\ b # 2 /\ b # 3 /\ (label # <<>> => b # 4 /\ b # 5)
  BY <1>1, <1>7, WordsApart
<1>9. e >= 1 /\ line[e] \notin Blanks /\ e < b
  BY <1>5, <1>7, BlankIs
<1>10. e >= 3
  <2> SUFFICES ASSUME e < 3 PROVE FALSE
    BY <1>5
  <2>1. 3 \in e + 1..b
    BY <1>5, <1>7, <1>8
  <2> QED
    BY <1>1, <1>5, <2>1, WordsApart
<1>11. Received(line) = Notify(agent, state, SubSeq(label, 1, k))
  <2>1. ~(e < 3)
    BY <1>5, <1>10
  <2> QED
    BY <1>4, <2>1
<1>12. FirstPart(label, k)
  <2>1. CASE label = <<>>
    <3>1. Len(label) = 0
      BY <2>1
    <3>2. k = 0 /\ 0 \in 0..Len(label)
      BY <1>4, <3>1
    <3>3. (\A i \in 1..0 : FALSE) /\ \A i \in 0 + 1..Len(label) : FALSE
      BY <3>1
    <3> QED
      BY <3>2, <3>3 DEF FirstPart
  <2>2. CASE label # <<>>
    <3>1. b >= 6
      BY <1>5, <1>7, <1>8, <2>2
    <3>2. e = 5 + k
      <4> SUFFICES ASSUME e \in {0, 1, 3} PROVE FALSE
        BY <1>4
      <4>1. 5 \in e + 1..b
        BY <1>5, <3>1
      <4> QED
        BY <1>1, <1>5, <2>2, <4>1, WordsApart
    <3>3. k = 0 \/ label[k] \notin Blanks
      <4>1. k = 0 \/ k \in 1..Len(label)
        BY <1>4
      <4> QED
        BY <1>1, <1>9, <2>2, <3>2, <4>1
    <3>4. ASSUME NEW i \in 1..k PROVE label[i] # Nl
      <4>1. i \in 1..Len(label) /\ 5 + i \in 1..b - 1
        BY <1>4, <1>5, <1>9, <3>2
      <4> QED
        BY <1>1, <1>5, <2>2, <4>1
    <3>5. ASSUME NEW i \in k + 1..Len(label)
          PROVE  label[i] \in Blanks \/ \E j \in k + 1..i : label[j] = Nl
      <4>1. i \in 1..Len(label) /\ i \in k + 1..i
        BY <1>4
      <4>2. line[5 + i] = label[i]
        BY <1>1, <2>2, <4>1
      <4>3. CASE 5 + i <= b
        <5>1. 5 + i \in e + 1..b
          BY <1>4, <1>5, <3>2, <4>3
        <5> QED
          BY <1>5, <4>1, <4>2, <5>1
      <4>4. CASE ~(5 + i <= b)
        <5>1. b - 5 \in k + 1..i /\ b - 5 \in 1..Len(label) /\ 5 + (b - 5) = b
          BY <1>4, <1>5, <1>9, <3>1, <3>2, <4>1, <4>4
        <5>2. label[b - 5] = Nl
          BY <1>1, <1>7, <2>2, <5>1
        <5> QED
          BY <5>1, <5>2
      <4> QED
        BY <4>3, <4>4
    <3> QED
      BY <1>4, <3>3, <3>4, <3>5 DEF FirstPart
  <2> QED
    BY <2>1, <2>2
<1> QED
  BY <1>11, <1>12 DEF line, k

\* There is one first line.
LEMMA OneFirstPart ==
  ASSUME NEW S, NEW label \in Seq(S), NEW k, NEW m,
         FirstPart(label, k), FirstPart(label, m)
  PROVE  k = m
<1>1. ASSUME NEW x, NEW y, FirstPart(label, x), FirstPart(label, y), x < y
      PROVE  FALSE
  <2>1. /\ x \in Nat /\ y \in Nat /\ y \in x + 1..Len(label)
        /\ label[y] \notin Blanks
        /\ \A i \in 1..y : label[i] # Nl
    <3>1. Len(label) \in Nat
      OBVIOUS
    <3> QED
      BY <1>1, <3>1 DEF FirstPart
  <2>2. PICK j \in x + 1..y : label[j] = Nl
    BY <1>1, <2>1 DEF FirstPart
  <2>3. j \in 1..y
    BY <2>1
  <2> QED
    BY <2>1, <2>2, <2>3
<1>2. k \in Nat /\ m \in Nat
  BY DEF FirstPart
<1>3. ~(k < m) /\ ~(m < k)
  BY <1>1
<1> QED
  BY <1>2, <1>3

LEMMA OneLineIs ==
  ASSUME text \in Seq(Chars), NEW k, FirstPart(text, k)
  PROVE  OneLine = Utf8(SubSeq(text, 1, k))
<1> DEFINE Is(p) ==
             /\ ToSet(p) \subseteq Chars \ {Nl}
             /\ p = <<>> \/ Last(p) \notin Blanks
             /\ \A i \in (Len(p) + 1)..Len(text) :
                  text[i] \in Blanks \/ \E j \in (Len(p) + 1)..i : text[j] = Nl
           part(m) == SubSeq(text, 1, m)
<1>1. Len(text) \in Nat /\ \A i \in 1..Len(text) : text[i] \in Chars
  BY ElementOfSeq
<1>2. ASSUME NEW m \in 0..Len(text)
      PROVE  /\ part(m) \in Seq(Chars) /\ Len(part(m)) = m
             /\ \A i \in 1..m : part(m)[i] = text[i]
             /\ ToSet(part(m)) = {text[i] : i \in 1..m}
             /\ m # 0 => Last(part(m)) = text[m]
             /\ part(m) = <<>> <=> m = 0
  <2> DEFINE p == part(m)
  <2>1. p \in Seq(Chars) /\ Len(p) = m /\ \A i \in 1..m : p[i] = text[i]
    BY Part
  <2> HIDE DEF p
  <2>2. DOMAIN p = 1..m /\ m \in Nat
    BY <1>1, <2>1
  <2>3. ToSet(p) = {text[i] : i \in 1..m}
    BY <2>1, <2>2 DEF ToSet
  <2>4. m # 0 => Last(p) = text[m]
    BY <2>1, <2>2 DEF Last
  <2>5. p = <<>> <=> m = 0
    BY <2>1, EmptySeq
  <2> QED
    BY <2>1, <2>3, <2>4, <2>5 DEF p
<1>3. ASSUME NEW m \in 0..Len(text) PROVE Is(part(m)) <=> FirstPart(text, m)
  <2> DEFINE p == part(m)
  <2>1. /\ Len(p) = m
        /\ ToSet(p) = {text[i] : i \in 1..m}
        /\ m # 0 => Last(p) = text[m]
        /\ p = <<>> <=> m = 0
    BY <1>2
  <2> HIDE DEF p
  <2>2. ToSet(p) \subseteq Chars \ {Nl} <=> \A i \in 1..m : text[i] # Nl
    <3>1. \A i \in 1..m : text[i] \in Chars
      BY <1>1
    <3> QED
      BY <2>1, <3>1
  <2>3. (p = <<>> \/ Last(p) \notin Blanks) <=> (m = 0 \/ text[m] \notin Blanks)
    BY <2>1
  <2> QED
    BY <2>1, <2>2, <2>3 DEF FirstPart, p
<1>4. k \in 0..Len(text)
  BY DEF FirstPart
<1>5. part(k) \in Prefixes(text)
  BY <1>4 DEF Prefixes
<1>6. Is(part(k))
  BY <1>3, <1>4
<1>7. ASSUME NEW p \in Prefixes(text), Is(p) PROVE p = part(k)
  <2>1. PICK m \in 0..Len(text) : p = part(m)
    BY DEF Prefixes
  <2> HIDE DEF Is, part
  <2>2. FirstPart(text, m)
    BY <1>3, <1>7, <2>1
  <2>3. m = k
    BY <2>2, OneFirstPart
  <2> QED
    BY <2>1, <2>3
<1> HIDE DEF Is
<1>8. (CHOOSE p \in Prefixes(text) : Is(p)) = part(k)
  <2> HIDE DEF part
  <2> QED
    BY <1>5, <1>6, <1>7
<1>9. OneLine = Utf8(CHOOSE p \in Prefixes(text) : Is(p))
  BY DEF OneLine, Is
<1> QED
  BY <1>8, <1>9

\* What the firmware decodes of the label: the first bytes of its first line.
LEMMA ShownOf ==
  ASSUME text \in Seq(Chars), NEW agent \in AgentIds, NEW state \in States
  PROVE  \E p \in Seq(Seq(Byte)) :
           /\ OneLine = Utf8(p)
           /\ CDecodable(Sent(agent, state))
           /\ Consumed(CDecode(Sent(agent, state))) = Len(Sent(agent, state))
           /\ CDecode(Sent(agent, state)) = Notify(agent, state, PyTextBytes(p))
<1>1. text \in Seq(Whole)
  BY WordsWhole
<1>2. PICK k : /\ FirstPart(text, k)
               /\ Received(NotifyLine(agent, state, text)) = Notify(agent, state, SubSeq(text, 1, k))
  BY <1>1, ReceivedWhole
<1> DEFINE p == SubSeq(text, 1, k)
           f == Notify(agent, state, p)
<1>3. OneLine = Utf8(p)
  BY <1>2, OneLineIs
<1>4. p \in Seq(Seq(Byte))
  <2>1. p \in Seq(Whole)
    BY <1>1, <1>2, Part DEF FirstPart
  <2> HIDE DEF p
  <2> QED
    BY <2>1, WholeAreBytes
<1>5. Sent(agent, state) = PyEncode(f)
  BY <1>2 DEF Sent
<1> HIDE DEF p
<1>6. f \in PyFrames /\ f.kind = "notify" /\ f.agent = agent /\ f.state = state /\ f.text = p
  BY <1>4 DEF Notify, PyFrames, AgentIds, States
<1> HIDE DEF f
<1> DEFINE w == PyEncode(f)
<1>7. /\ w \in Seq(Byte) /\ Len(w) \in Nat \ {0}
      /\ \A m \in 1..Len(w) : CDecodable(SubSeq(w, 1, m)) <=> m = Len(w)
  BY <1>6, HostFrame
<1>8. CDecode(w) = Notify(agent, state, PyTextBytes(p)) /\ Consumed(CDecode(w)) = Len(w)
  BY <1>6, NotifyWhole
<1> HIDE DEF w
<1>9. CDecodable(w)
  <2>1. SubSeq(w, 1, Len(w)) = w /\ Len(w) \in 1..Len(w)
    BY <1>7, SubSeqFull
  <2> QED
    BY <1>7, <2>1
<1>10. Sent(agent, state) = w
  BY <1>5 DEF w
<1> QED
  BY <1>3, <1>4, <1>8, <1>9, <1>10

\* Every label arrives, whatever its length and whatever words, blanks and line
\* breaks are in it, as one frame with the agent and the state it was sent with
\* and the beginning of its first line (notify of cli.py, parse_line of
\* socket_server.py, encode of protocol.py, fai_protocol_decode of protocol.c).
THEOREM EveryLabelArrives == Spec => []LabelArrives
<1>1. ASSUME CodecTypes, NEW agent \in AgentIds, NEW state \in States
      PROVE  LET frame == CDecode(Sent(agent, state))
             IN  /\ CDecodable(Sent(agent, state))
                 /\ Consumed(frame) = Len(Sent(agent, state))
                 /\ frame.agent = agent /\ frame.state = state
                 /\ IsPrefix(frame.text, OneLine)
                 /\ Len(OneLine) <= MaxText => frame.text = OneLine
  <2> DEFINE frame == CDecode(Sent(agent, state))
  <2>1. text \in Seq(Chars)
    BY <1>1 DEF CodecTypes
  <2>2. PICK p \in Seq(Seq(Byte)) :
          /\ OneLine = Utf8(p)
          /\ CDecodable(Sent(agent, state))
          /\ Consumed(frame) = Len(Sent(agent, state))
          /\ frame = Notify(agent, state, PyTextBytes(p))
    BY <2>1, ShownOf
  <2> HIDE DEF frame
  <2> DEFINE s == Utf8(p)
             m == IF Len(s) <= MaxText THEN Len(s) ELSE MaxText
  <2>3. s \in Seq(Byte)
    BY Utf8Type
  <2>4. frame.agent = agent /\ frame.state = state /\ frame.text = PyTextBytes(p)
    BY <2>2 DEF Notify
  <2>5. frame.text = SubSeq(s, 1, m)
    BY <2>4 DEF PyTextBytes
  <2> HIDE DEF s
  <2>6. m \in 0..Len(s) /\ (Len(s) <= MaxText => m = Len(s))
    BY <2>3, ProtocolAssumption DEF ProtocolAssumption
  <2> HIDE DEF m
  <2>7. IsPrefix(SubSeq(s, 1, m), s)
    BY <2>3, <2>6, PartIsPrefix
  <2>8. Len(s) <= MaxText => frame.text = s
    BY <2>3, <2>5, <2>6, SubSeqFull
  <2>9. OneLine = s
    BY <2>2 DEF s
  <2> QED
    BY <2>2, <2>4, <2>5, <2>7, <2>8, <2>9 DEF frame
<1>2. CodecTypes => LabelArrives
  BY <1>1 DEF LabelArrives
<1> QED
  BY <1>2, CodecTypeCorrect, PTL

-----------------------------------------------------------------------------
(* The label on the screen.                                                *)

LEMMA ShownWrapped ==
  ASSUME text \in Seq(Chars)
  PROVE  /\ Shown \in Seq(Byte)
         /\ Spans \in Seq(Nat \X Nat)
         /\ Kept(Shown, 1, MaxLines, Spans)
         /\ \A i \in 1..Len(Spans) : Unbroken(Shown, Spans[i])
<1>1. PICK p \in Seq(Seq(Byte)) :
        CDecode(Sent(0, 2)) = Notify(0, 2, PyTextBytes(p))
  BY ShownOf DEF AgentIds, States
<1>2. Shown = PyTextBytes(p)
  BY <1>1 DEF Shown, Notify
<1>3. Shown \in Seq(Byte)
  BY <1>2, PyTextType
<1> QED
  BY <1>3, WrapKeeps DEF Spans

\* No line on the screen is longer than its buffer; before the lines and between
\* them only spaces are left out, and what is cut off comes after the last line
\* when all are used (fai_wrap of render.c).
THEOREM OnlySpacesLeftOut == Spec => []NothingLostBetweenLines
<1>1. ASSUME CodecTypes PROVE NothingLostBetweenLines
  <2>1. text \in Seq(Chars)
    BY <1>1 DEF CodecTypes
  <2>2. /\ Shown \in Seq(Byte) /\ Spans \in Seq(Nat \X Nat)
        /\ Kept(Shown, 1, MaxLines, Spans)
    BY <2>1, ShownWrapped
  <2>3. /\ Len(Spans) <= MaxLines /\ Len(Spans) \in Nat
        /\ DOMAIN Spans = 1..Len(Spans)
        /\ \A i \in 1..Len(Spans) :
             /\ Spans[i][2] - Spans[i][1] + 1 \in 1..LineChars
             /\ \A p \in Resume(1, Spans, i)..Spans[i][1] - 1 : Shown[p] = Space
        /\ Len(Spans) < MaxLines =>
             \A p \in Resume(1, Spans, Len(Spans) + 1)..Len(Shown) : Shown[p] = Space
    BY <2>2 DEF Kept
  <2> DEFINE start(i) == IF i = 1 THEN 1 ELSE Spans[i - 1][2] + 1
             end      == IF Spans = <<>> THEN 0 ELSE Spans[Len(Spans)][2]
  <2>4. \A i : Resume(1, Spans, i) = start(i)
    BY DEF Resume
  <2>5. Resume(1, Spans, Len(Spans) + 1) = end + 1
    <3>1. CASE Spans = <<>>
      <4>1. Len(Spans) + 1 = 1
        BY <3>1
      <4> QED
        BY <3>1, <4>1 DEF Resume
    <3>2. CASE Spans # <<>>
      <4>1. Len(Spans) # 0
        BY <2>2, <3>2, EmptySeq
      <4>2. Len(Spans) + 1 # 1 /\ Len(Spans) + 1 - 1 = Len(Spans)
        BY <2>3, <4>1
      <4> QED
        BY <3>2, <4>2 DEF Resume
    <3> QED
      BY <3>1, <3>2
  <2>6. \A i \in DOMAIN Spans :
          /\ Spans[i][2] - Spans[i][1] + 1 \in 1..LineChars
          /\ \A p \in start(i)..(Spans[i][1] - 1) : Shown[p] = Space
    BY <2>3, <2>4
  <2>7. Len(Spans) < MaxLines => \A p \in (end + 1)..Len(Shown) : Shown[p] = Space
    BY <2>3, <2>5
  <2> QED
    BY <2>6, <2>7 DEF NothingLostBetweenLines
<1> QED
  BY <1>1, CodecTypeCorrect, PTL

\* A word is broken across two lines only when its line had no space to break at
\* (fai_wrap of render.c).
THEOREM WordsBrokenAtLast == Spec => []WordsKeptWhole
<1>1. ASSUME CodecTypes PROVE WordsKeptWhole
  <2>1. text \in Seq(Chars)
    BY <1>1 DEF CodecTypes
  <2>2. /\ DOMAIN Spans = 1..Len(Spans)
        /\ \A i \in 1..Len(Spans) : Unbroken(Shown, Spans[i])
    BY <2>1, ShownWrapped
  <2> QED
    BY <2>2 DEF WordsKeptWhole, Unbroken
<1> QED
  BY <1>1, CodecTypeCorrect, PTL
=============================================================================
