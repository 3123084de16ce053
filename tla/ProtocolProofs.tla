--------------------------- MODULE ProtocolProofs ---------------------------
(***************************************************************************)
(* Lemmas about the codec, for frames and buffers of any length.           *)
(***************************************************************************)
EXTENDS Protocol, SequenceTheorems, Recursion

-----------------------------------------------------------------------------
(* Text.                                                                   *)

\* FlattenSeq, where there is something to flatten, is the last value of a
\* function with a value for each element.
LEMMA FlattenFunction ==
  ASSUME NEW S, NEW seqs \in Seq(Seq(S)), seqs # <<>>
  PROVE  \E f \in [1..Len(seqs) -> Seq(S)] :
           /\ FlattenSeq(seqs) = f[Len(seqs)]
           /\ \A i \in 1..Len(seqs) :
                f[i] = IF i = 1 THEN seqs[i] ELSE f[i - 1] \o seqs[i]
<1> DEFINE I == 1..Len(seqs)
           T == Seq(S)
           m == [i \in I |-> i]
           G == [p \in [I -> T] \X I |->
                   IF p[2] = 1 THEN seqs[p[2]] ELSE p[1][p[2] - 1] \o seqs[p[2]]]
           flatten == CHOOSE flatten :
                        flatten = [i \in I |-> IF i = 1 THEN seqs[i]
                                               ELSE flatten[i - 1] \o seqs[i]]
<1>1. Len(seqs) \in Nat \ {0}
  BY EmptySeq
<1>2. \A i \in I : seqs[i] \in T
  BY ElementOfSeq
<1>3. T # {}
  BY EmptySeq
<1>4. m \in [I -> Nat]
  BY <1>1
<1>5. G \in [[I -> T] \X I -> T]
  <2>1. ASSUME NEW f \in [I -> T], NEW i \in I, i # 1
        PROVE  f[i - 1] \o seqs[i] \in T
    <3>1. i - 1 \in I
      BY <1>1, <2>1
    <3>2. f[i - 1] \in Seq(S) /\ seqs[i] \in Seq(S)
      BY <1>2, <3>1
    <3> QED
      BY <3>2, ConcatProperties
  <2> QED
    BY <1>2, <2>1
<1>6. Recurs(I, T, m, G)
  <2>1. ASSUME NEW g \in [I -> T], NEW h \in [I -> T], NEW i \in I,
               \A j \in I : m[j] < m[i] => g[j] = h[j]
        PROVE  G[<<g, i>>] = G[<<h, i>>]
    <3>1. CASE i = 1
      BY <3>1
    <3>2. CASE i # 1
      <4>1. i - 1 \in I /\ m[i - 1] < m[i]
        BY <1>1, <3>2
      <4>2. g[i - 1] = h[i - 1]
        BY <2>1, <4>1
      <4> QED
        BY <4>2
    <3> QED
      BY <3>1, <3>2
  <2> HIDE DEF I, T, m, G
  <2> QED
    BY <2>1 DEF Recurs
<1>7. PICK f \in [I -> T] : Satisfies(I, G, f)
  <2> HIDE DEF I, T, m, G, flatten
  <2> QED
    BY <1>3, <1>4, <1>5, <1>6, RecursionExists
<1>8. f = [i \in I |-> IF i = 1 THEN seqs[i] ELSE f[i - 1] \o seqs[i]]
  BY <1>7 DEF Satisfies
<1>9. /\ flatten = [i \in I |-> IF i = 1 THEN seqs[i]
                                ELSE flatten[i - 1] \o seqs[i]]
      /\ FlattenSeq(seqs) = flatten[Len(seqs)]
  BY <1>1, <1>8, Zenon DEF FlattenSeq
<1>10. \A i \in I : flatten[i] = IF i = 1 THEN seqs[i]
                                 ELSE flatten[i - 1] \o seqs[i]
  BY <1>9
<1>11. flatten = [i \in I |-> flatten[i]]
  BY <1>9
<1> HIDE DEF flatten
<1>12. ASSUME NEW i \in I, \A j \in I : m[j] < m[i] => flatten[j] \in T
       PROVE  flatten[i] \in T
  <2>1. CASE i = 1
    BY <2>1, <1>2, <1>10
  <2>2. CASE i # 1
    <3>1. i - 1 \in I /\ m[i - 1] < m[i]
      BY <1>1, <2>2
    <3>2. flatten[i - 1] \in Seq(S) /\ seqs[i] \in Seq(S)
      BY <1>2, <1>12, <3>1
    <3>3. flatten[i - 1] \o seqs[i] \in Seq(S)
      BY <3>2, ConcatProperties
    <3> QED
      BY <2>2, <3>3, <1>10
  <2> QED
    BY <2>1, <2>2
<1>13. flatten \in [I -> T]
  <2>1. Climbs(I, m, {i \in I : flatten[i] \in T})
    BY <1>12 DEF Climbs
  <2> HIDE DEF I, T, m
  <2> QED
    BY <1>4, <1>11, <2>1, RecursionType
<1> QED
  BY <1>9, <1>10, <1>13

\* The bytes of a text are bytes.
LEMMA Utf8Type ==
  ASSUME NEW text \in Seq(Seq(Byte)) PROVE Utf8(text) \in Seq(Byte)
<1>1. CASE text = <<>>
  BY <1>1, EmptySeq DEF Utf8, FlattenSeq
<1>2. CASE text # <<>>
  <2>1. PICK f \in [1..Len(text) -> Seq(Byte)] :
               FlattenSeq(text) = f[Len(text)]
    BY <1>2, FlattenFunction
  <2>2. Len(text) \in Nat \ {0}
    BY <1>2, EmptySeq
  <2>3. Len(text) \in 1..Len(text)
    BY <2>2
  <2>4. f[Len(text)] \in Seq(Byte)
    BY <2>3
  <2> QED
    BY <2>1, <2>4 DEF Utf8
<1> QED
  BY <1>1, <1>2

\* The first bytes of a sequence of bytes.
LEMMA Beginning ==
  ASSUME NEW s \in Seq(Byte), NEW n \in 0..Len(s)
  PROVE  /\ SubSeq(s, 1, n) \in Seq(Byte)
         /\ Len(SubSeq(s, 1, n)) = n
         /\ \A i \in 1..n : SubSeq(s, 1, n)[i] = s[i]
<1>1. Len(s) \in Nat
  OBVIOUS
<1>2. \A i \in 1..n : s[i] \in Byte
  BY <1>1, ElementOfSeq
<1> QED
  BY <1>1, <1>2, SubSeqProperties

\* The text of a NOTIFY from the host is no longer than the firmware's limit.
LEMMA PyTextType ==
  ASSUME NEW text \in Seq(Seq(Byte))
  PROVE  /\ PyTextBytes(text) \in Seq(Byte)
         /\ Len(PyTextBytes(text)) \in 0..MaxText
         /\ Len(PyTextBytes(text)) \in Byte
<1> DEFINE s == Utf8(text)
           n == IF Len(s) <= MaxText THEN Len(s) ELSE MaxText
<1>1. s \in Seq(Byte)
  BY Utf8Type
<1>2. Len(s) \in Nat /\ MaxText \in 0..255
  BY <1>1, ProtocolAssumption DEF ProtocolAssumption
<1> HIDE DEF s
<1>3. n \in 0..Len(s) /\ n \in 0..MaxText /\ n \in 0..255
  <2>1. \A k \in Nat, max \in 0..255 :
          LET m == IF k <= max THEN k ELSE max
          IN  m \in 0..k /\ m \in 0..max /\ m \in 0..255
    OBVIOUS
  <2> QED
    BY <1>2, <2>1
<1>4. PyTextBytes(text) = SubSeq(s, 1, n)
  BY DEF PyTextBytes, s
<1> HIDE DEF n
<1> QED
  BY <1>1, <1>3, <1>4, Beginning DEF Byte

-----------------------------------------------------------------------------
(* Frames.                                                                 *)

\* A header of four bytes and a text.
LEMMA WithHeader ==
  ASSUME NEW a \in Byte, NEW b \in Byte, NEW c \in Byte, NEW d \in Byte,
         NEW text \in Seq(Byte)
  PROVE  LET w == <<a, b, c, d>> \o text
         IN  /\ w \in Seq(Byte)
             /\ Len(w) = 4 + Len(text)
             /\ w[1] = a /\ w[2] = b /\ w[3] = c /\ w[4] = d
             /\ SubSeq(w, 5, Len(w)) = text
<1> DEFINE h == <<a, b, c, d>>
           w == h \o text
<1>1. h \in Seq(Byte) /\ Len(h) = 4
  OBVIOUS
<1>2. Len(text) \in Nat
  OBVIOUS
<1>3. /\ w \in Seq(Byte)
      /\ Len(w) = 4 + Len(text)
      /\ \A i \in 1..4 + Len(text) : w[i] = IF i <= 4 THEN h[i] ELSE text[i - 4]
  BY <1>1, ConcatProperties
<1>4. w[1] = a /\ w[2] = b /\ w[3] = c /\ w[4] = d
  BY <1>2, <1>3
<1> HIDE DEF w
<1>5. SubSeq(w, 5, Len(w)) = text
  <2> DEFINE t == SubSeq(w, 5, Len(w))
  <2>1. \A i \in 5..Len(w) : w[i] \in Byte
    BY <1>2, <1>3, ElementOfSeq
  <2>2. /\ t \in Seq(Byte)
        /\ Len(t) = IF 5 <= Len(w) THEN Len(w) - 5 + 1 ELSE 0
        /\ \A i \in 1..Len(w) - 5 + 1 : t[i] = w[5 + i - 1]
    BY <1>2, <1>3, <2>1, SubSeqProperties
  <2>3. Len(t) = Len(text)
    BY <1>2, <1>3, <2>2
  <2>4. ASSUME NEW i \in 1..Len(t) PROVE t[i] = text[i]
    <3>1. i \in 1..Len(text)
      BY <2>3
    <3>2. t[i] = w[i + 4] /\ i + 4 \in 1..4 + Len(text) /\ ~(i + 4 <= 4)
      BY <1>2, <1>3, <2>2, <3>1
    <3>3. w[i + 4] = text[(i + 4) - 4] /\ (i + 4) - 4 = i
      BY <1>2, <1>3, <3>1, <3>2
    <3> QED
      BY <3>2, <3>3
  <2> HIDE DEF t
  <2>5. t = text
    BY <2>2, <2>3, <2>4, SeqEqual
  <2> QED
    BY <2>5 DEF t
<1> QED
  BY <1>3, <1>4, <1>5 DEF w

\* What a frame of the host may be.
LEMMA PyFrameCases ==
  ASSUME NEW f \in PyFrames
  PROVE  \/ /\ f.kind = "notify"
            /\ f.agent \in AgentIds
            /\ f.state \in States
            /\ f.text \in Seq(Seq(Byte))
         \/ \E agent \in AgentIds : f = Ack(agent)
         \/ f = Ping
         \/ f = Pong
BY DEF PyFrames

\* The bytes of a NOTIFY.
LEMMA NotifyBytes ==
  ASSUME NEW f \in PyFrames, f.kind = "notify"
  PROVE  LET w == PyEncode(f)
             t == PyTextBytes(f.text)
         IN  /\ w \in Seq(Byte)
             /\ Len(w) = 4 + Len(t)
             /\ Len(t) \in 0..MaxText
             /\ w[1] = TagNotify /\ w[2] = f.agent /\ w[3] = f.state
             /\ w[4] = Len(t)
             /\ SubSeq(w, 5, 4 + w[4]) = t
<1> DEFINE t == PyTextBytes(f.text)
           h == <<TagNotify, f.agent, f.state, Len(t)>>
<1>1. f.agent \in AgentIds /\ f.state \in States /\ f.text \in Seq(Seq(Byte))
  BY PyFrameCases DEF Ack, Ping, Pong
<1>2. t \in Seq(Byte) /\ Len(t) \in 0..MaxText /\ Len(t) \in Byte
  BY <1>1, PyTextType
<1>3. TagNotify \in Byte /\ f.agent \in Byte /\ f.state \in Byte
  BY <1>1 DEF TagNotify, AgentIds, States, Byte
<1>4. PyEncode(f) = h \o t
  BY DEF PyEncode
<1> HIDE DEF t
<1> QED
  BY <1>2, <1>3, <1>4, WithHeader DEF t

\* The tag decides what is looked at.
LEMMA ByTag ==
  ASSUME NEW buf
  PROVE  /\ buf[1] = TagNotify =>
              /\ CDecode(buf) = Notify(buf[2], buf[3], SubSeq(buf, 5, 4 + buf[4]))
              /\ CDecodable(buf) <=> /\ buf # <<>>
                                     /\ Len(buf) >= 4
                                     /\ buf[4] <= MaxText
                                     /\ Len(buf) >= 4 + buf[4]
         /\ buf[1] = TagAck =>
              /\ CDecode(buf) = Ack(buf[2])
              /\ CDecodable(buf) <=> buf # <<>> /\ Len(buf) >= 2
         /\ buf[1] = TagPing =>
              /\ CDecode(buf) = Ping
              /\ CDecodable(buf) <=> buf # <<>>
         /\ buf[1] = TagPong =>
              /\ CDecode(buf) = Pong
              /\ CDecodable(buf) <=> buf # <<>>
<1> USE DEF TagNotify, TagAck, TagPing, TagPong
<1>1. CASE buf[1] = TagNotify
  BY <1>1 DEF CDecode, CDecodable
<1>2. CASE buf[1] = TagAck
  BY <1>2 DEF CDecode, CDecodable
<1>3. CASE buf[1] = TagPing
  BY <1>3 DEF CDecode, CDecodable
<1>4. CASE buf[1] = TagPong
  BY <1>4 DEF CDecode, CDecodable
<1> QED
  BY <1>1, <1>2, <1>3, <1>4

\* The bytes of the other frames.
LEMMA ShortBytes ==
  /\ \A agent : PyEncode(Ack(agent)) = <<TagAck, agent>>
  /\ PyEncode(Ping) = <<TagPing>>
  /\ PyEncode(Pong) = <<TagPong>>
BY DEF PyEncode, Ack, Ping, Pong

\* How many bytes each frame takes up.
LEMMA ConsumedBytes ==
  /\ \A agent, state, text :
       Consumed(Notify(agent, state, text)) = 4 + Len(text)
  /\ \A agent : Consumed(Ack(agent)) = 2
  /\ Consumed(Ping) = 1
  /\ Consumed(Pong) = 1
BY DEF Consumed, Notify, Ack, Ping, Pong

\* A sequence of one byte has itself for its only beginning.
LEMMA OneByte ==
  ASSUME NEW b \in Byte
  PROVE  /\ <<b>> \in Seq(Byte) /\ Len(<<b>>) = 1 /\ <<b>>[1] = b /\ <<b>> # <<>>
         /\ \A k \in 1..1 : SubSeq(<<b>>, 1, k) = <<b>>
<1>1. <<b>> \in Seq(Byte) /\ Len(<<b>>) = 1 /\ <<b>>[1] = b
  OBVIOUS
<1>2. SubSeq(<<b>>, 1, 1) = <<b>>
  BY <1>1, SubSeqFull
<1>3. \A k \in 1..1 : k = 1
  OBVIOUS
<1> QED
  BY <1>1, <1>2, <1>3

\* The first bytes of the bytes of a NOTIFY are no frame, all of them are the
\* frame.
LEMMA NotifyWhole ==
  ASSUME NEW f \in PyFrames, f.kind = "notify"
  PROVE  LET w == PyEncode(f)
         IN  /\ \A k \in 1..Len(w) : CDecodable(SubSeq(w, 1, k)) <=> k = Len(w)
             /\ CDecode(w) = Notify(f.agent, f.state, PyTextBytes(f.text))
             /\ Consumed(CDecode(w)) = Len(w)
<1> DEFINE w == PyEncode(f)
           t == PyTextBytes(f.text)
<1>1. /\ w \in Seq(Byte)
      /\ Len(w) = 4 + Len(t)
      /\ Len(t) \in 0..MaxText
      /\ w[1] = TagNotify /\ w[2] = f.agent /\ w[3] = f.state
      /\ w[4] = Len(t)
      /\ SubSeq(w, 5, 4 + w[4]) = t
  BY NotifyBytes
<1> HIDE DEF w, t
<1>2. MaxText \in Nat /\ Len(t) \in Nat
  BY <1>1, ProtocolAssumption DEF ProtocolAssumption
<1>3. ASSUME NEW k \in 1..Len(w)
      PROVE  CDecodable(SubSeq(w, 1, k)) <=> k = Len(w)
  <2> DEFINE p == SubSeq(w, 1, k)
  <2>1. Len(w) \in Nat /\ k \in 0..Len(w)
    BY <1>1, <1>2
  <2>2. Len(p) = k /\ (\A i \in 1..k : p[i] = w[i])
    BY <1>1, <2>1, Beginning
  <2>3. p # <<>> /\ p[1] = TagNotify
    <3>1. 1 \in 1..k
      BY <2>1
    <3> QED
      BY <1>1, <2>2, <3>1
  <2>4. k >= 4 => p[4] = Len(t)
    BY <1>1, <2>1, <2>2
  <2> HIDE DEF p
  <2>5. CDecodable(p) <=> k >= 4 /\ k >= 4 + Len(t)
    BY <1>1, <1>2, <2>1, <2>2, <2>3, <2>4, ByTag
  <2>6. CDecodable(p) <=> k = Len(w)
    BY <1>1, <1>2, <2>1, <2>5
  <2> QED
    BY <2>6 DEF p
<1>4. CDecode(w) = Notify(f.agent, f.state, t)
  BY <1>1, ByTag
<1>5. Consumed(CDecode(w)) = Len(w)
  BY <1>1, <1>4, ConsumedBytes
<1> QED
  BY <1>3, <1>4, <1>5 DEF w, t

\* So are those of the others.
LEMMA ShortWhole ==
  ASSUME NEW f \in PyFrames, f.kind # "notify"
  PROVE  LET w == PyEncode(f)
         IN  /\ w \in Seq(Byte)
             /\ Len(w) \in 1..2
             /\ \A k \in 1..Len(w) : CDecodable(SubSeq(w, 1, k)) <=> k = Len(w)
             /\ CDecode(w) = f
             /\ Consumed(f) = Len(w)
<1>1. TagAck \in Byte /\ TagPing \in Byte /\ TagPong \in Byte
  BY DEF TagAck, TagPing, TagPong, Byte
<1>2. ASSUME NEW agent \in AgentIds, f = Ack(agent)
      PROVE  LET w == PyEncode(f)
             IN  /\ w \in Seq(Byte)
                 /\ Len(w) = 2
                 /\ CDecode(w) = f
                 /\ Consumed(f) = 2
                 /\ CDecodable(w)
                 /\ ~CDecodable(SubSeq(w, 1, 1))
  <2>1. agent \in Byte
    BY DEF AgentIds, Byte
  <2> DEFINE w == <<TagAck, agent>>
  <2>2. PyEncode(f) = w
    BY <1>2, ShortBytes
  <2>3. /\ w \in Seq(Byte) /\ Len(w) = 2 /\ w[1] = TagAck /\ w[2] = agent
        /\ w # <<>>
    BY <1>1, <2>1
  <2> DEFINE p == SubSeq(w, 1, 1)
  <2>4. Len(p) = 1 /\ p[1] = TagAck
    <3> HIDE DEF w
    <3>1. 1 \in 0..Len(w)
      BY <2>3
    <3> QED
      BY <2>3, <3>1, Beginning
  <2>5. CDecode(w) = f /\ Consumed(f) = 2
    BY <1>2, <2>3, ByTag, ConsumedBytes
  <2> HIDE DEF w, p
  <2>6. CDecodable(w) /\ ~CDecodable(p)
    BY <2>3, <2>4, ByTag
  <2> QED
    BY <2>2, <2>3, <2>5, <2>6 DEF p
<1>3. ASSUME NEW tag \in {TagPing, TagPong}, PyEncode(f) = <<tag>>,
             CDecode(<<tag>>) = f, Consumed(f) = 1, CDecodable(<<tag>>)
      PROVE  LET w == PyEncode(f)
             IN  /\ w \in Seq(Byte)
                 /\ Len(w) \in 1..2
                 /\ \A k \in 1..Len(w) :
                      CDecodable(SubSeq(w, 1, k)) <=> k = Len(w)
                 /\ CDecode(w) = f
                 /\ Consumed(f) = Len(w)
  <2>1. tag \in Byte
    BY <1>1
  <2> DEFINE w == <<tag>>
  <2>2. /\ w \in Seq(Byte) /\ Len(w) = 1
        /\ \A k \in 1..1 : SubSeq(w, 1, k) = w /\ k = 1
    BY <2>1, OneByte
  <2> HIDE DEF w
  <2>3. \A k \in 1..Len(w) : CDecodable(SubSeq(w, 1, k)) <=> k = Len(w)
    BY <1>3, <2>2 DEF w
  <2> QED
    BY <1>3, <2>2, <2>3 DEF w
<1>4. CASE f = Ping
  <2>1. /\ PyEncode(f) = <<TagPing>>
        /\ <<TagPing>>[1] = TagPing /\ <<TagPing>> # <<>>
    BY <1>1, <1>4, ShortBytes, OneByte
  <2> QED
    BY <1>3, <1>4, <2>1, ByTag, ConsumedBytes
<1>5. CASE f = Pong
  <2>1. /\ PyEncode(f) = <<TagPong>>
        /\ <<TagPong>>[1] = TagPong /\ <<TagPong>> # <<>>
    BY <1>1, <1>5, ShortBytes, OneByte
  <2> QED
    BY <1>3, <1>5, <2>1, ByTag, ConsumedBytes
<1>6. CASE \E agent \in AgentIds : f = Ack(agent)
  <2> DEFINE w == PyEncode(f)
  <2>1. /\ w \in Seq(Byte) /\ Len(w) = 2 /\ CDecode(w) = f /\ Consumed(f) = 2
        /\ CDecodable(w) /\ ~CDecodable(SubSeq(w, 1, 1))
    BY <1>2, <1>6
  <2> HIDE DEF w
  <2>2. SubSeq(w, 1, 2) = w
    BY <2>1, SubSeqFull
  <2>3. \A k \in 1..2 : k = 1 \/ k = 2
    OBVIOUS
  <2>4. Len(w) \in 1..2
    BY <2>1
  <2>5. \A k \in 1..Len(w) : CDecodable(SubSeq(w, 1, k)) <=> k = Len(w)
    BY <2>1, <2>2, <2>3
  <2> QED
    BY <2>1, <2>4, <2>5 DEF w
<1> QED
  BY <1>4, <1>5, <1>6, PyFrameCases

\* The frame that a frame of the host is in the firmware.
InFirmware(f) ==
  IF f.kind = "notify" THEN Notify(f.agent, f.state, PyTextBytes(f.text)) ELSE f

\* What the host encodes, the firmware decodes when it has all of it, and not
\* before.
LEMMA HostFrame ==
  ASSUME NEW f \in PyFrames
  PROVE  LET w == PyEncode(f)
         IN  /\ w \in Seq(Byte)
             /\ Len(w) \in Nat \ {0}
             /\ Len(w) <= 4 + MaxText
             /\ \A k \in 1..Len(w) : CDecodable(SubSeq(w, 1, k)) <=> k = Len(w)
             /\ CDecode(w) = InFirmware(f)
             /\ Consumed(CDecode(w)) = Len(w)
<1> DEFINE w == PyEncode(f)
<1>1. MaxText \in Nat
  BY ProtocolAssumption DEF ProtocolAssumption
<1>2. CASE f.kind = "notify"
  <2>1. /\ w \in Seq(Byte)
        /\ Len(w) = 4 + Len(PyTextBytes(f.text))
        /\ Len(PyTextBytes(f.text)) \in 0..MaxText
    BY <1>2, NotifyBytes
  <2>2. Len(w) \in Nat \ {0} /\ Len(w) <= 4 + MaxText
    BY <1>1, <2>1
  <2>3. /\ \A k \in 1..Len(w) : CDecodable(SubSeq(w, 1, k)) <=> k = Len(w)
        /\ CDecode(w) = InFirmware(f)
        /\ Consumed(CDecode(w)) = Len(w)
    BY <1>2, NotifyWhole DEF InFirmware
  <2> QED
    BY <2>1, <2>2, <2>3
<1>3. CASE f.kind # "notify"
  <2>1. /\ w \in Seq(Byte)
        /\ Len(w) \in 1..2
        /\ \A k \in 1..Len(w) : CDecodable(SubSeq(w, 1, k)) <=> k = Len(w)
        /\ CDecode(w) = InFirmware(f)
        /\ Consumed(CDecode(w)) = Len(w)
    BY <1>3, ShortWhole DEF InFirmware
  <2>2. Len(w) \in Nat \ {0} /\ Len(w) <= 4 + MaxText
    BY <1>1, <2>1
  <2> QED
    BY <2>1, <2>2
<1> QED
  BY <1>2, <1>3

-----------------------------------------------------------------------------
(* Any bytes.                                                              *)

\* A buffer that is not empty has a first byte.
LEMMA FirstByte ==
  ASSUME NEW buf \in Seq(Byte), buf # <<>>
  PROVE  Len(buf) \in Nat \ {0} /\ \A i \in 1..Len(buf) : buf[i] \in Byte
BY EmptySeq, ElementOfSeq

\* A decodable buffer is one of these.
LEMMA DecodableCases ==
  ASSUME NEW buf \in Seq(Byte), CDecodable(buf)
  PROVE  /\ buf # <<>>
         /\ Len(buf) \in Nat \ {0}
         /\ \/ /\ buf[1] = TagNotify
               /\ Len(buf) >= 4
               /\ buf[2] \in Byte /\ buf[3] \in Byte
               /\ buf[4] \in 0..MaxText
               /\ Len(buf) >= 4 + buf[4]
            \/ buf[1] = TagAck /\ Len(buf) >= 2 /\ buf[2] \in Byte
            \/ buf[1] = TagPing
            \/ buf[1] = TagPong
<1>1. buf # <<>>
  BY DEF CDecodable
<1>2. Len(buf) \in Nat \ {0} /\ \A i \in 1..Len(buf) : buf[i] \in Byte
  BY <1>1, FirstByte
<1>3. CASE buf[1] = TagNotify
  <2>1. Len(buf) >= 4 /\ buf[4] <= MaxText /\ Len(buf) >= 4 + buf[4]
    BY <1>3, ByTag
  <2>2. buf[2] \in Byte /\ buf[3] \in Byte /\ buf[4] \in Byte
    BY <1>2, <2>1
  <2>3. \A b, max \in 0..255 : b <= max => b \in 0..max
    OBVIOUS
  <2>4. buf[4] \in 0..MaxText
    BY <2>1, <2>2, <2>3, ProtocolAssumption DEF ProtocolAssumption, Byte
  <2> QED
    BY <1>1, <1>2, <1>3, <2>1, <2>2, <2>4
<1>4. CASE buf[1] = TagAck
  <2>1. Len(buf) >= 2
    BY <1>4, ByTag
  <2>2. buf[2] \in Byte
    BY <1>2, <2>1
  <2> QED
    BY <1>1, <1>2, <1>4, <2>1, <2>2
<1> QED
  BY <1>1, <1>2, <1>3, <1>4 DEF CDecodable

\* The text of a NOTIFY in a buffer.
LEMMA TextBytesOf ==
  ASSUME NEW buf \in Seq(Byte), NEW n \in Nat, Len(buf) >= 4 + n
  PROVE  /\ SubSeq(buf, 5, 4 + n) \in Seq(Byte)
         /\ Len(SubSeq(buf, 5, 4 + n)) = n
         /\ \A i \in 1..n : SubSeq(buf, 5, 4 + n)[i] = buf[4 + i]
<1>1. Len(buf) \in Nat /\ \A i \in 1..Len(buf) : buf[i] \in Byte
  BY ElementOfSeq
<1>2. \A i \in 5..4 + n : buf[i] \in Byte
  BY <1>1
<1>3. /\ SubSeq(buf, 5, 4 + n) \in Seq(Byte)
      /\ Len(SubSeq(buf, 5, 4 + n)) = IF 5 <= 4 + n THEN 4 + n - 5 + 1 ELSE 0
      /\ \A i \in 1..4 + n - 5 + 1 : SubSeq(buf, 5, 4 + n)[i] = buf[5 + i - 1]
  BY <1>2, SubSeqProperties
<1>4. Len(SubSeq(buf, 5, 4 + n)) = n
  BY <1>3
<1>5. ASSUME NEW i \in 1..n PROVE SubSeq(buf, 5, 4 + n)[i] = buf[4 + i]
  <2>1. i \in 1..4 + n - 5 + 1 /\ 5 + i - 1 = 4 + i
    OBVIOUS
  <2> QED
    BY <1>3, <2>1
<1> QED
  BY <1>3, <1>4, <1>5

\* What there is in a buffer with a NOTIFY.
LEMMA NotifyIn ==
  ASSUME NEW buf \in Seq(Byte), CDecodable(buf), buf[1] = TagNotify
  PROVE  LET t == SubSeq(buf, 5, 4 + buf[4])
         IN  /\ Len(buf) \in Nat /\ Len(buf) >= 4 /\ Len(buf) >= 4 + buf[4]
             /\ buf[2] \in Byte /\ buf[3] \in Byte /\ buf[4] \in Byte
             /\ buf[4] \in Nat /\ buf[4] <= MaxText
             /\ t \in Seq(Byte) /\ Len(t) = buf[4]
             /\ \A i \in 1..buf[4] : t[i] = buf[4 + i]
             /\ CDecode(buf) = Notify(buf[2], buf[3], t)
             /\ Consumed(CDecode(buf)) = 4 + buf[4]
<1> DEFINE t == SubSeq(buf, 5, 4 + buf[4])
<1>1. /\ Len(buf) \in Nat /\ Len(buf) >= 4 /\ buf[2] \in Byte /\ buf[3] \in Byte
      /\ buf[4] \in 0..MaxText /\ Len(buf) >= 4 + buf[4]
  BY DecodableCases DEF TagNotify, TagAck, TagPing, TagPong
<1>2. \A max \in 0..255 : \A b \in 0..max : b \in Nat /\ b <= max /\ b \in 0..255
  OBVIOUS
<1>3. buf[4] \in Nat /\ buf[4] <= MaxText /\ buf[4] \in Byte
  BY <1>1, <1>2, ProtocolAssumption DEF ProtocolAssumption, Byte
<1>4. t \in Seq(Byte) /\ Len(t) = buf[4] /\ \A i \in 1..buf[4] : t[i] = buf[4 + i]
  BY <1>1, <1>3, TextBytesOf
<1>5. CDecode(buf) = Notify(buf[2], buf[3], t)
  BY ByTag
<1> HIDE DEF t
<1>6. Consumed(CDecode(buf)) = 4 + buf[4]
  BY <1>4, <1>5, ConsumedBytes
<1> QED
  BY <1>1, <1>3, <1>4, <1>5, <1>6 DEF t

\* A frame is made of bytes of the buffer.
LEMMA DecodeType ==
  ASSUME NEW buf \in Seq(Byte), CDecodable(buf)
  PROVE  /\ CDecode(buf) \in CFrames
         /\ Consumed(CDecode(buf)) \in 1..Len(buf)
         /\ Consumed(CDecode(buf)) <= 4 + MaxText
<1>1. MaxText \in Nat
  BY ProtocolAssumption DEF ProtocolAssumption
<1>2. Len(buf) \in Nat \ {0}
  BY DecodableCases
<1>3. CASE buf[1] = TagNotify
  <2> DEFINE t == SubSeq(buf, 5, 4 + buf[4])
  <2>1. /\ buf[2] \in Byte /\ buf[3] \in Byte /\ buf[4] \in Nat
        /\ buf[4] <= MaxText /\ Len(buf) >= 4 + buf[4]
        /\ t \in Seq(Byte)
        /\ CDecode(buf) = Notify(buf[2], buf[3], t)
        /\ Consumed(CDecode(buf)) = 4 + buf[4]
    BY <1>3, NotifyIn
  <2> HIDE DEF t
  <2>2. Notify(buf[2], buf[3], t) \in CFrames
    BY <2>1 DEF Notify, CFrames
  <2> QED
    BY <1>1, <1>2, <2>1, <2>2
<1>4. CASE buf[1] = TagAck
  <2>1. Len(buf) >= 2 /\ buf[2] \in Byte
    BY <1>4, DecodableCases DEF TagNotify, TagAck, TagPing, TagPong
  <2>2. CDecode(buf) = Ack(buf[2])
    BY <1>4, ByTag
  <2>3. Consumed(CDecode(buf)) = 2
    BY <2>2, ConsumedBytes
  <2> QED
    BY <1>1, <1>2, <2>1, <2>2, <2>3 DEF CFrames
<1>5. CASE buf[1] \in {TagPing, TagPong}
  <2>1. CDecode(buf) \in {Ping, Pong}
    BY <1>5, ByTag
  <2>2. Consumed(CDecode(buf)) = 1
    BY <2>1, ConsumedBytes
  <2> QED
    BY <1>1, <1>2, <2>1, <2>2 DEF CFrames
<1> QED
  BY <1>3, <1>4, <1>5, DecodableCases

\* The beginning of a buffer is decodable as soon as it has the whole frame, and
\* then it is the same frame.
LEMMA DecodeBeginning ==
  ASSUME NEW buf \in Seq(Byte), CDecodable(buf), NEW m \in 1..Len(buf)
  PROVE  LET frame == CDecode(buf)
             p     == SubSeq(buf, 1, m)
         IN  /\ CDecodable(p) <=> m >= Consumed(frame)
             /\ m >= Consumed(frame) => CDecode(p) = frame
<1> DEFINE frame == CDecode(buf)
           p == SubSeq(buf, 1, m)
<1>1. Len(buf) \in Nat /\ m \in Nat /\ m \in 0..Len(buf) /\ 1 \in 1..m
  OBVIOUS
<1>2. p \in Seq(Byte) /\ Len(p) = m /\ \A i \in 1..m : p[i] = buf[i]
  BY <1>1, Beginning
<1> HIDE DEF p
<1>3. p # <<>> /\ p[1] = buf[1]
  BY <1>1, <1>2, EmptySeq
<1>4. CASE buf[1] = TagNotify
  <2> DEFINE t == SubSeq(buf, 5, 4 + buf[4])
             u == SubSeq(p, 5, 4 + buf[4])
  <2>1. buf[4] \in Nat /\ buf[4] <= MaxText /\ Len(buf) >= 4 + buf[4]
    BY <1>4, NotifyIn
  <2>2. buf[4] \in Nat /\ buf[4] <= MaxText
    BY <2>1
  <2>3. t \in Seq(Byte) /\ Len(t) = buf[4] /\ \A i \in 1..buf[4] : t[i] = buf[4 + i]
    BY <1>4, NotifyIn
  <2>4. frame = Notify(buf[2], buf[3], t) /\ Consumed(frame) = 4 + buf[4]
    BY <1>4, NotifyIn
  <2> HIDE DEF frame, t, u
  <2>5. m >= 4 => p[4] = buf[4]
    BY <1>1, <1>2
  <2>6. CDecodable(p) <=> m >= 4 /\ m >= 4 + buf[4]
    BY <1>2, <1>3, <1>4, <2>2, <2>5, ByTag
  <2>7. CDecodable(p) <=> m >= Consumed(frame)
    BY <1>1, <2>2, <2>4, <2>6
  <2>8. ASSUME m >= Consumed(frame) PROVE CDecode(p) = frame
    <3>1. m >= 4 + buf[4] /\ m >= 4 /\ p[2] = buf[2] /\ p[3] = buf[3] /\ p[4] = buf[4]
      BY <1>1, <1>2, <2>2, <2>4, <2>8
    <3>2. u \in Seq(Byte) /\ Len(u) = buf[4] /\ \A i \in 1..buf[4] : u[i] = p[4 + i]
      BY <1>2, <2>2, <3>1, TextBytesOf DEF u
    <3>3. \A i \in 1..buf[4] : u[i] = t[i]
      <4>1. \A i \in 1..buf[4] : 4 + i \in 1..m
        BY <1>1, <2>2, <3>1
      <4> QED
        BY <1>2, <2>3, <3>2, <4>1
    <3>4. u = t
      BY <2>3, <3>2, <3>3, SeqEqual
    <3>5. CDecode(p) = Notify(buf[2], buf[3], u)
      BY <1>3, <1>4, <3>1, ByTag DEF u
    <3> QED
      BY <2>4, <3>4, <3>5 DEF frame
  <2> QED
    BY <2>7, <2>8 DEF frame, p
<1>5. CASE buf[1] = TagAck
  <2>1. CDecode(buf) = Ack(buf[2]) /\ Consumed(frame) = 2
    BY <1>5, ByTag, ConsumedBytes
  <2>2. CDecodable(p) <=> m >= 2
    BY <1>2, <1>3, <1>5, ByTag
  <2>3. m >= 2 => CDecode(p) = frame
    <3>1. m >= 2 => p[2] = buf[2]
      BY <1>1, <1>2
    <3> QED
      BY <1>3, <1>5, <2>1, <3>1, ByTag
  <2> QED
    BY <2>1, <2>2, <2>3 DEF p
<1>6. CASE buf[1] = TagPing \/ buf[1] = TagPong
  <2>1. /\ CDecode(buf) \in {Ping, Pong} /\ CDecode(p) = frame
        /\ CDecodable(p) /\ Consumed(frame) = 1
    BY <1>3, <1>6, ByTag, ConsumedBytes
  <2>2. m >= 1
    BY <1>1
  <2> QED
    BY <2>1, <2>2 DEF p
<1> QED
  BY <1>4, <1>5, <1>6, DecodableCases

\* Encoding a decoded frame gives the bytes it was decoded from.
LEMMA EncodeDecoded ==
  ASSUME NEW buf \in Seq(Byte), CDecodable(buf)
  PROVE  LET frame == CDecode(buf)
         IN  CEncode(frame, Len(buf)) = SubSeq(buf, 1, Consumed(frame))
<1> DEFINE frame == CDecode(buf)
           n == Consumed(frame)
           p == SubSeq(buf, 1, n)
<1>1. Len(buf) \in Nat /\ n \in 1..Len(buf) /\ n \in 0..Len(buf)
  BY DecodeType
<1>2. p \in Seq(Byte) /\ Len(p) = n /\ \A i \in 1..n : p[i] = buf[i]
  BY <1>1, Beginning
<1>3. MaxText \in Nat
  BY ProtocolAssumption DEF ProtocolAssumption
<1>4. CASE buf[1] = TagNotify
  <2> DEFINE t == SubSeq(buf, 5, 4 + buf[4])
             h == <<TagNotify, buf[2], buf[3], buf[4]>>
             w == h \o t
  <2>1. Len(buf) >= 4 /\ buf[2] \in Byte /\ buf[3] \in Byte
    BY <1>4, NotifyIn
  <2>2. buf[4] \in Nat /\ buf[4] <= MaxText /\ buf[4] \in Byte
    BY <1>4, NotifyIn
  <2>3. t \in Seq(Byte) /\ Len(t) = buf[4] /\ \A i \in 1..buf[4] : t[i] = buf[4 + i]
    BY <1>4, NotifyIn
  <2>4. frame = Notify(buf[2], buf[3], t) /\ n = 4 + buf[4]
    BY <1>4, NotifyIn
  <2>5. h \in Seq(Byte) /\ Len(h) = 4
    BY <2>1, <2>2 DEF TagNotify, Byte
  <2>6. /\ w \in Seq(Byte)
        /\ Len(w) = Len(h) + Len(t)
        /\ \A i \in 1..Len(h) + Len(t) : w[i] = IF i <= Len(h) THEN h[i] ELSE t[i - Len(h)]
    <3> HIDE DEF h, t
    <3> QED
      BY <2>3, <2>5, ConcatProperties
  <2>7. ASSUME NEW i \in 1..n PROVE w[i] = buf[i]
    <3>1. i \in 1..Len(h) + Len(t)
      BY <2>3, <2>4, <2>5
    <3>2. CASE i <= 4
      <4>1. w[i] = h[i]
        BY <2>5, <2>6, <3>1, <3>2
      <4>2. i = 1 \/ i = 2 \/ i = 3 \/ i = 4
        BY <1>1, <3>2
      <4> QED
        BY <1>4, <4>1, <4>2
    <3>3. CASE ~(i <= 4)
      <4>1. w[i] = t[i - 4]
        BY <2>5, <2>6, <3>1, <3>3
      <4>2. i - 4 \in 1..buf[4] /\ 4 + (i - 4) = i
        BY <1>1, <2>2, <2>4, <3>3
      <4> HIDE DEF w, t
      <4> QED
        BY <2>3, <4>1, <4>2
    <3> QED
      BY <3>2, <3>3
  <2> HIDE DEF w, p, t, h
  <2>8. w = p
    BY <1>1, <1>2, <2>2, <2>3, <2>4, <2>5, <2>6, <2>7, SeqEqual
  <2>9. Len(w) <= Len(buf) /\ ~(Len(t) > MaxText) /\ ~(Len(buf) < Len(w))
    BY <1>1, <1>2, <1>3, <2>2, <2>3, <2>8
  <2>10. CEncode(frame, Len(buf)) = w
    <3> HIDE DEF frame
    <3> QED
      BY <2>3, <2>4, <2>9 DEF CEncode, Notify, w, h
  <2> QED
    BY <2>8, <2>10 DEF p
<1>5. CASE buf[1] = TagAck
  <2>1. frame = Ack(buf[2]) /\ n = 2
    BY <1>5, ByTag, ConsumedBytes
  <2>2. Len(buf) >= 2 /\ buf[2] \in Byte
    BY <1>5, DecodableCases DEF TagNotify, TagAck, TagPing, TagPong
  <2> DEFINE w == <<TagAck, buf[2]>>
  <2>3. w \in Seq(Byte) /\ Len(w) = 2 /\ w[1] = buf[1] /\ w[2] = buf[2]
    BY <1>5, <2>2 DEF TagAck, Byte
  <2>4. p[1] = buf[1] /\ p[2] = buf[2] /\ Len(p) = 2
    <3> HIDE DEF p
    <3> QED
      BY <1>2, <2>1
  <2>5. CEncode(frame, Len(buf)) = w
    <3> HIDE DEF frame
    <3> QED
      BY <1>1, <2>1, <2>2 DEF CEncode, Ack
  <2> HIDE DEF p, w
  <2>6. \A i \in 1..2 : i = 1 \/ i = 2
    OBVIOUS
  <2>7. w = p
    BY <1>2, <2>3, <2>4, <2>6, SeqEqual
  <2> QED
    BY <2>5, <2>7 DEF p
<1>6. ASSUME NEW tag \in {TagPing, TagPong}, buf[1] = tag, n = 1,
             CEncode(frame, Len(buf)) = <<tag>>
      PROVE  CEncode(frame, Len(buf)) = p
  <2>1. tag \in Byte
    BY DEF TagPing, TagPong, Byte
  <2>2. <<tag>> \in Seq(Byte) /\ Len(<<tag>>) = 1 /\ <<tag>>[1] = tag
    BY <2>1, OneByte
  <2>3. Len(p) = 1 /\ p[1] = tag
    <3> HIDE DEF p
    <3> QED
      BY <1>2, <1>6
  <2>4. \A i \in 1..1 : i = 1
    OBVIOUS
  <2> HIDE DEF p
  <2>5. <<tag>> = p
    <3> DEFINE w == <<tag>>
    <3>1. w \in Seq(Byte) /\ Len(w) = 1 /\ w[1] = tag
      BY <2>2
    <3> HIDE DEF w
    <3>2. w = p
      BY <1>2, <2>3, <2>4, <3>1, SeqEqual
    <3> QED
      BY <3>2 DEF w
  <2> QED
    BY <1>6, <2>5
<1>7. CASE buf[1] = TagPing \/ buf[1] = TagPong
  <2>1. \/ buf[1] = TagPing /\ frame = Ping /\ n = 1
        \/ buf[1] = TagPong /\ frame = Pong /\ n = 1
    BY <1>7, ByTag, ConsumedBytes
  <2>2. ~(Len(buf) < 1)
    BY <1>1
  <2>3. CEncode(frame, Len(buf)) = <<buf[1]>>
    <3> HIDE DEF frame, n
    <3> QED
      BY <1>1, <2>1, <2>2 DEF CEncode, Ping, Pong
  <2> QED
    BY <1>6, <1>7, <2>1, <2>3
<1> QED
  BY <1>4, <1>5, <1>7, DecodableCases
=============================================================================
