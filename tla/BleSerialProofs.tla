--------------------------- MODULE BleSerialProofs ---------------------------
(***************************************************************************)
(* Proofs about BleSerial, for every length of text and all frames: its    *)
(* parser ends, leaves room in the buffer whatever bytes come in, and      *)
(* makes of a write the frame that was sent.                               *)
(***************************************************************************)
EXTENDS BleSerial, ProtocolProofs

-----------------------------------------------------------------------------
(* The parser.                                                             *)

\* The buffer after the frame at its beginning.
After(buf) == SubSeq(buf, Consumed(CDecode(buf)) + 1, Len(buf))

\* What the parser returns: frames, and less than a full buffer.
Parsed == [frames : Seq(CFrames), rest : {b \in Seq(Byte) : Len(b) < CAP}]

\* The buffer has room for two frames.
LEMMA Capacity == CAP \in Nat /\ 4 + MaxText < CAP
BY ProtocolAssumption DEF ProtocolAssumption, CAP

\* A frame is not empty, so what comes after it is shorter.
LEMMA AfterShorter ==
  ASSUME NEW buf \in Seq(Byte), CDecodable(buf)
  PROVE  /\ After(buf) \in Seq(Byte)
         /\ Len(After(buf)) = Len(buf) - Consumed(CDecode(buf))
         /\ Len(After(buf)) < Len(buf)
<1> DEFINE n == Consumed(CDecode(buf))
<1>1. Len(buf) \in Nat /\ n \in 1..Len(buf)
  BY DecodeType
<1> HIDE DEF n
<1>2. \A i \in n + 1..Len(buf) : buf[i] \in Byte
  BY <1>1, ElementOfSeq
<1>3. n \in Nat /\ n + 1 \in Int /\ Len(buf) \in Int
  BY <1>1
<1> DEFINE a == SubSeq(buf, n + 1, Len(buf))
<1>4. /\ a \in Seq(Byte)
      /\ Len(a) = IF n + 1 <= Len(buf) THEN Len(buf) - (n + 1) + 1 ELSE 0
  BY <1>2, <1>3, SubSeqProperties
<1> HIDE DEF a
<1>5. Len(a) = Len(buf) - n /\ Len(a) < Len(buf)
  BY <1>1, <1>4
<1> QED
  BY <1>4, <1>5 DEF After, a, n

\* What is left of a buffer without a frame.
LEMMA FlushedType ==
  ASSUME NEW buf \in Seq(Byte)
  PROVE  (IF Len(buf) >= CAP THEN <<>> ELSE buf)
           \in {b \in Seq(Byte) : Len(b) < CAP}
<1>1. Len(buf) \in Nat /\ CAP \in Nat /\ 0 < CAP
  BY Capacity, ProtocolAssumption DEF ProtocolAssumption
<1>2. <<>> \in Seq(Byte) /\ Len(<<>>) = 0
  BY EmptySeq
<1> QED
  BY <1>1, <1>2

\* One turn of the loop in fai_ble_try_parse.
LEMMA ParsedStep ==
  ASSUME NEW buf \in Seq(Byte), CDecodable(buf), NEW more \in Parsed
  PROVE  [frames |-> <<CDecode(buf)>> \o more.frames, rest |-> more.rest]
           \in Parsed
<1>1. <<CDecode(buf)>> \in Seq(CFrames)
  BY DecodeType
<1>2. more.frames \in Seq(CFrames) /\ more.rest \in {b \in Seq(Byte) : Len(b) < CAP}
  BY DEF Parsed
<1>3. <<CDecode(buf)>> \o more.frames \in Seq(CFrames)
  BY <1>1, <1>2, ConcatProperties
<1> QED
  BY <1>2, <1>3 DEF Parsed

\* The parser comes to an end on every buffer: what it returns is given by its
\* loop, whose turns each take bytes off the buffer.
THEOREM ParserEnds ==
  /\ try_parse \in [Seq(Byte) -> Parsed]
  /\ \A buf \in Seq(Byte) :
       try_parse[buf] =
         IF CDecodable(buf)
         THEN [frames |-> <<CDecode(buf)>> \o try_parse[After(buf)].frames,
               rest   |-> try_parse[After(buf)].rest]
         ELSE [frames |-> <<>>, rest |-> IF Len(buf) >= CAP THEN <<>> ELSE buf]
<1> DEFINE S == Seq(Byte)
           m == [buf \in S |-> Len(buf)]
           Body(g, buf) ==
             IF CDecodable(buf)
             THEN [frames |-> <<CDecode(buf)>> \o g[After(buf)].frames,
                   rest   |-> g[After(buf)].rest]
             ELSE [frames |-> <<>>,
                   rest   |-> IF Len(buf) >= CAP THEN <<>> ELSE buf]
           G == [p \in [S -> Parsed] \X S |-> Body(p[1], p[2])]
<1>1. m \in [S -> Nat]
  OBVIOUS
<1>2. Parsed # {}
  <2>1. [frames |-> <<>>, rest |-> IF Len(<<>>) >= CAP THEN <<>> ELSE <<>>] \in Parsed
    BY EmptySeq, FlushedType DEF Parsed
  <2> QED
    BY <2>1
<1>3. ASSUME NEW g, NEW buf \in S, CDecodable(buf) => g[After(buf)] \in Parsed
      PROVE  Body(g, buf) \in Parsed
  <2>1. CASE CDecodable(buf)
    BY <1>3, <2>1, ParsedStep
  <2>2. CASE ~CDecodable(buf)
    BY <2>2, EmptySeq, FlushedType DEF Parsed
  <2> QED
    BY <2>1, <2>2
<1>4. G \in [[S -> Parsed] \X S -> Parsed]
  <2>1. ASSUME NEW g \in [S -> Parsed], NEW buf \in S
        PROVE  Body(g, buf) \in Parsed
    BY <1>3, AfterShorter
  <2> HIDE DEF Body
  <2> QED
    BY <2>1
<1>5. Recurs(S, Parsed, m, G)
  <2>1. ASSUME NEW g \in [S -> Parsed], NEW h \in [S -> Parsed], NEW buf \in S,
               \A b \in S : m[b] < m[buf] => g[b] = h[b]
        PROVE  Body(g, buf) = Body(h, buf)
    <3>1. CASE CDecodable(buf)
      <4>1. After(buf) \in S /\ m[After(buf)] < m[buf]
        BY <3>1, AfterShorter
      <4>2. g[After(buf)] = h[After(buf)]
        BY <2>1, <4>1
      <4> QED
        BY <4>2
    <3>2. CASE ~CDecodable(buf)
      BY <3>2
    <3> QED
      BY <3>1, <3>2
  <2> HIDE DEF m, Body
  <2> QED
    BY <2>1 DEF Recurs
<1>6. PICK f \in [S -> Parsed] : Satisfies(S, G, f)
  <2> HIDE DEF S, m, G
  <2> QED
    BY <1>1, <1>2, <1>4, <1>5, RecursionExists
<1>7. f = [buf \in S |-> Body(f, buf)]
  <2> HIDE DEF Body
  <2> QED
    BY <1>6 DEF Satisfies
<1> DEFINE Loop(g, buf) ==
             IF CDecodable(buf)
             THEN LET frame == CDecode(buf)
                      n     == Consumed(frame)
                      more  == g[SubSeq(buf, n + 1, Len(buf))]
                  IN  IF n > Len(buf)
                      THEN [frames |-> <<>>, rest |-> <<>>]
                      ELSE [frames |-> <<frame>> \o more.frames, rest |-> more.rest]
             ELSE [frames |-> <<>>, rest |-> IF Len(buf) >= CAP THEN <<>> ELSE buf]
<1>8. ASSUME NEW g, NEW buf \in S PROVE Loop(g, buf) = Body(g, buf)
  <2>1. CASE CDecodable(buf)
    <3>1. ~(Consumed(CDecode(buf)) > Len(buf))
      BY <2>1, DecodeType
    <3> QED
      BY <2>1, <3>1 DEF After
  <2>2. CASE ~CDecodable(buf)
    BY <2>2
  <2> QED
    BY <2>1, <2>2
<1>9. f = [buf \in S |-> Loop(f, buf)]
  <2> HIDE DEF Body, Loop
  <2> QED
    BY <1>7, <1>8
<1>10. try_parse = [buf \in S |-> Loop(try_parse, buf)]
  BY <1>9, Zenon DEF try_parse
<1>11. \A buf \in S : try_parse[buf] = Body(try_parse, buf)
  <2> HIDE DEF Body, Loop
  <2> QED
    BY <1>8, <1>10
<1>12. try_parse = [buf \in S |-> try_parse[buf]]
  <2> HIDE DEF Loop
  <2> QED
    BY <1>10
<1>13. Climbs(S, m, {buf \in S : try_parse[buf] \in Parsed})
  <2>1. ASSUME NEW buf \in S, \A b \in S : m[b] < m[buf] => try_parse[b] \in Parsed
        PROVE  try_parse[buf] \in Parsed
    <3>1. CDecodable(buf) => After(buf) \in S /\ m[After(buf)] < m[buf]
      BY AfterShorter
    <3>2. CDecodable(buf) => try_parse[After(buf)] \in Parsed
      BY <2>1, <3>1
    <3> HIDE DEF Body
    <3> QED
      BY <1>3, <1>11, <3>2
  <2> QED
    BY <2>1 DEF Climbs
<1>14. try_parse \in [S -> Parsed]
  <2> HIDE DEF S, m
  <2> QED
    BY <1>1, <1>12, <1>13, RecursionType
<1> QED
  BY <1>11, <1>14

-----------------------------------------------------------------------------
(* The callback.                                                           *)

\* The first bytes of a piece, as many as there is room for.
LEMMA TakenBytes ==
  ASSUME NEW data \in Seq(Byte), NEW space \in Nat
  PROVE  LET taken == SubSeq(data, 1, IF Len(data) < space THEN Len(data) ELSE space)
         IN  /\ taken \in Seq(Byte)
             /\ Len(data) <= space => taken = data
<1> DEFINE n == IF Len(data) < space THEN Len(data) ELSE space
<1>1. Len(data) \in Nat
  OBVIOUS
<1>2. n \in 0..Len(data) /\ (Len(data) <= space => n = Len(data))
  BY <1>1
<1> HIDE DEF n
<1>3. SubSeq(data, 1, n) \in Seq(Byte)
  BY <1>2, Beginning
<1>4. Len(data) <= space => SubSeq(data, 1, n) = data
  BY <1>2, SubSeqFull
<1> QED
  BY <1>3, <1>4 DEF n

\* On any bytes the callback keeps the types and leaves room.
LEMMA CallbackType ==
  ASSUME TypeOK, NEW data \in Seq(Byte), rx_callback(data)
  PROVE  rx_buf' \in Seq(Byte) /\ Len(rx_buf') < CAP /\ got' \in Seq(CFrames)
<1> DEFINE space == CAP - Len(rx_buf)
           taken == SubSeq(data, 1, IF Len(data) < space THEN Len(data) ELSE space)
           out   == try_parse[rx_buf \o taken]
<1>1. rx_buf \in Seq(Byte) /\ Len(rx_buf) <= CAP /\ got \in Seq(CFrames)
  BY DEF TypeOK
<1>2. CAP \in Nat /\ 0 < CAP /\ Len(rx_buf) \in Nat
  BY <1>1, Capacity, ProtocolAssumption DEF ProtocolAssumption
<1>3. space \in Nat
  BY <1>1, <1>2
<1>4. CASE space = 0
  <2>1. rx_buf' = <<>> /\ got' = got
    BY <1>4 DEF rx_callback
  <2> QED
    BY <1>1, <1>2, <2>1, EmptySeq
<1>5. CASE space # 0
  <2>1. rx_buf' = out.rest /\ got' = got \o out.frames
    BY <1>5 DEF rx_callback
  <2> HIDE DEF space
  <2>2. taken \in Seq(Byte)
    BY <1>3, TakenBytes
  <2> HIDE DEF taken
  <2>3. rx_buf \o taken \in Seq(Byte)
    BY <1>1, <2>2, ConcatProperties
  <2>4. out \in Parsed
    BY <2>3, ParserEnds
  <2> HIDE DEF out
  <2>5. out.frames \in Seq(CFrames) /\ out.rest \in {b \in Seq(Byte) : Len(b) < CAP}
    BY <2>4 DEF Parsed
  <2>6. got \o out.frames \in Seq(CFrames)
    BY <1>1, <2>5, ConcatProperties
  <2> QED
    BY <2>1, <2>5, <2>6
<1> QED
  BY <1>4, <1>5

\* A piece that fits, and has no frame with what was there before, is kept.
LEMMA CallbackKeeps ==
  ASSUME TypeOK, NEW data \in Seq(Byte), rx_callback(data), data # <<>>,
         Len(rx_buf) + Len(data) < CAP, ~CDecodable(rx_buf \o data)
  PROVE  rx_buf' = rx_buf \o data /\ got' = got
<1> DEFINE all == rx_buf \o data
<1>1. rx_buf \in Seq(Byte) /\ got \in Seq(CFrames) /\ CAP \in Nat
  BY Capacity DEF TypeOK
<1>2. all \in Seq(Byte) /\ Len(all) = Len(rx_buf) + Len(data)
  BY <1>1, ConcatProperties
<1>0. ~CDecodable(all) /\ Len(all) < CAP
  BY <1>2
<1>3. Len(rx_buf) \in Nat /\ Len(data) \in Nat \ {0}
  BY <1>1, EmptySeq
<1>4. CAP - Len(rx_buf) \in Nat /\ CAP - Len(rx_buf) # 0
      /\ Len(data) <= CAP - Len(rx_buf)
  BY <1>1, <1>3
<1> HIDE DEF all
<1>5. rx_buf' = try_parse[all].rest /\ got' = got \o try_parse[all].frames
  BY <1>4, TakenBytes DEF rx_callback, all
<1>6. try_parse[all] = [frames |-> <<>>, rest |-> all]
  <2>1. ~(Len(all) >= CAP)
    BY <1>1, <1>2, <1>3, <1>0
  <2> QED
    BY <1>2, <1>0, <2>1, ParserEnds
<1> QED
  BY <1>1, <1>5, <1>6, ConcatEmptySeq DEF all

\* A piece that makes what was there a frame and no more empties the buffer.
LEMMA CallbackFrame ==
  ASSUME TypeOK, NEW data \in Seq(Byte), rx_callback(data), data # <<>>,
         Len(rx_buf) + Len(data) < CAP, got = <<>>,
         CDecodable(rx_buf \o data),
         Consumed(CDecode(rx_buf \o data)) = Len(rx_buf \o data)
  PROVE  rx_buf' = <<>> /\ got' = <<CDecode(rx_buf \o data)>>
<1> DEFINE all == rx_buf \o data
<1>1. rx_buf \in Seq(Byte) /\ got \in Seq(CFrames) /\ CAP \in Nat /\ 0 < CAP
  BY Capacity, ProtocolAssumption DEF TypeOK, ProtocolAssumption
<1>2. all \in Seq(Byte) /\ Len(all) = Len(rx_buf) + Len(data)
  BY <1>1, ConcatProperties
<1>0. CDecodable(all) /\ Consumed(CDecode(all)) = Len(all)
  OBVIOUS
<1>3. Len(rx_buf) \in Nat /\ Len(data) \in Nat \ {0}
  BY <1>1, EmptySeq
<1>4. CAP - Len(rx_buf) \in Nat /\ CAP - Len(rx_buf) # 0
      /\ Len(data) <= CAP - Len(rx_buf)
  BY <1>1, <1>3
<1> HIDE DEF all
<1>5. rx_buf' = try_parse[all].rest /\ got' = got \o try_parse[all].frames
  BY <1>4, TakenBytes DEF rx_callback, all
<1>6. After(all) = <<>>
  <2>1. Len(all) + 1 \in Int /\ Len(all) \in Int /\ Len(all) < Len(all) + 1
    BY <1>2, <1>3
  <2> QED
    BY <1>0, <2>1, SubSeqEmpty DEF After
<1>7. <<>> \in Seq(Byte) /\ ~CDecodable(<<>>) /\ Len(<<>>) = 0
  BY EmptySeq DEF CDecodable
<1>8. try_parse[<<>>] = [frames |-> <<>>, rest |-> <<>>]
  BY <1>1, <1>7, ParserEnds
<1>9. try_parse[all] = [frames |-> <<CDecode(all)>> \o <<>>, rest |-> <<>>]
  <2>1. try_parse[all] =
          [frames |-> <<CDecode(all)>> \o try_parse[After(all)].frames,
           rest   |-> try_parse[After(all)].rest]
    BY <1>0, <1>2, ParserEnds
  <2>2. try_parse[After(all)].frames = <<>> /\ try_parse[After(all)].rest = <<>>
    BY <1>6, <1>8
  <2> QED
    BY <2>1, <2>2
<1>10. <<CDecode(all)>> \in Seq(CFrames)
  BY <1>0, <1>2, DecodeType
<1>11. try_parse[all] = [frames |-> <<CDecode(all)>>, rest |-> <<>>]
  BY <1>9, <1>10, ConcatEmptySeq
<1> QED
  BY <1>5, <1>10, <1>11, ConcatEmptySeq DEF all

-----------------------------------------------------------------------------
(* The receiver.                                                           *)

\* The first n bytes of what is in the air, and the rest of them.
LEMMA Cut ==
  ASSUME NEW a \in Seq(Byte), NEW n \in 1..Len(a)
  PROVE  LET data == SubSeq(a, 1, n)
             left == SubSeq(a, n + 1, Len(a))
         IN  /\ data \in Seq(Byte) /\ Len(data) = n /\ data # <<>>
             /\ left \in Seq(Byte) /\ Len(left) = Len(a) - n
             /\ data \o left = a
<1> DEFINE data == SubSeq(a, 1, n)
           left == SubSeq(a, n + 1, Len(a))
<1>1. Len(a) \in Nat /\ n \in Nat /\ n \in 0..Len(a) /\ n # 0
  OBVIOUS
<1>2. data \in Seq(Byte) /\ Len(data) = n
  BY <1>1, Beginning
<1>3. \A i \in n + 1..Len(a) : a[i] \in Byte
  BY <1>1, ElementOfSeq
<1>4. /\ left \in Seq(Byte)
      /\ Len(left) = IF n + 1 <= Len(a) THEN Len(a) - (n + 1) + 1 ELSE 0
  BY <1>1, <1>3, SubSeqProperties
<1>5. data \o left = SubSeq(a, 1, Len(a))
  BY <1>1, ConcatAdjacentSubSeq
<1>6. SubSeq(a, 1, Len(a)) = a
  BY SubSeqFull
<1> HIDE DEF data, left
<1>7. data # <<>> /\ Len(left) = Len(a) - n
  BY <1>1, <1>2, <1>4, EmptySeq
<1> QED
  BY <1>2, <1>4, <1>5, <1>6, <1>7 DEF data, left

\* The types, and the room in the buffer.
LEMMA ReceiverTypes ==
  ASSUME TypeOK, RoomLeft, [Next]_vars
  PROVE  TypeOK' /\ RoomLeft'
<1>1. CAP \in Nat
  BY Capacity
<1>2. ASSUME NEW n \in 1..(4 + MaxText), Arrive(n) PROVE TypeOK' /\ RoomLeft'
  <2>1. /\ n \in 1..Len(air)
        /\ air' = SubSeq(air, n + 1, Len(air))
        /\ UNCHANGED <<connected, sending, owner>>
    BY <1>2 DEF Arrive
  <2>2. air' \in Seq(Byte) /\ SubSeq(air, 1, n) \in Seq(Byte)
    BY <2>1, Cut DEF TypeOK
  <2>3. CASE owner = "app"
    <3>1. rx_callback(SubSeq(air, 1, n)) /\ torn' = torn
      BY <1>2, <2>3 DEF Arrive
    <3>2. rx_buf' \in Seq(Byte) /\ Len(rx_buf') < CAP /\ got' \in Seq(CFrames)
      BY <2>2, <3>1, CallbackType
    <3>3. Len(rx_buf') <= CAP
      BY <1>1, <3>2
    <3> QED
      BY <2>1, <2>2, <3>1, <3>2, <3>3 DEF TypeOK, RoomLeft
  <2>4. CASE owner # "app"
    BY <1>2, <2>1, <2>2, <2>4 DEF Arrive, TypeOK, RoomLeft
  <2> QED
    BY <2>3, <2>4
<1>3. ASSUME NEW f \in Frames, Write(f) PROVE TypeOK' /\ RoomLeft'
  <2>1. f \in PyFrames
    BY BleSerialAssumption DEF BleSerialAssumption
  <2>2. air' \in Seq(Byte)
    BY <1>3, <2>1, HostFrame DEF Write
  <2>3. sending' \in Seq(Frames) /\ got' \in Seq(CFrames)
    BY <1>3, EmptySeq DEF Write
  <2>4. torn' \in BOOLEAN
    BY <1>3 DEF Write
  <2> QED
    BY <1>3, <2>2, <2>3, <2>4 DEF Write, TypeOK, RoomLeft
<1>4. CASE GuardTick \/ Connect \/ UNCHANGED vars
  BY <1>4 DEF GuardTick, Connect, vars, TypeOK, RoomLeft
<1>5. CASE LinkDrop
  <2>1. <<>> \in Seq(Byte) /\ torn' \in BOOLEAN
    BY <1>5, EmptySeq DEF LinkDrop, TypeOK
  <2> QED
    BY <1>5, <2>1 DEF LinkDrop, TypeOK, RoomLeft
<1> QED
  BY <1>2, <1>3, <1>4, <1>5 DEF Next

\* After init nothing has been sent.
LEMMA ReceiverInit == Init => TypeOK /\ RoomLeft /\ StreamIntact
<1> SUFFICES ASSUME Init PROVE TypeOK /\ RoomLeft /\ StreamIntact
  OBVIOUS
<1>1. /\ <<>> \in Seq(Frames) /\ <<>> \in Seq(Byte) /\ <<>> \in Seq(CFrames)
      /\ Len(<<>>) = 0
  BY EmptySeq
<1>2. CAP \in Nat /\ 0 < CAP
  BY Capacity, ProtocolAssumption DEF ProtocolAssumption
<1>3. StreamIntact
  BY DEF Init, StreamIntact
<1>4. /\ connected = FALSE /\ sending = <<>> /\ air = <<>> /\ owner = "app"
      /\ rx_buf = <<>> /\ got = <<>> /\ torn = FALSE
  BY DEF Init
<1>5. TypeOK /\ RoomLeft
  <2>1. connected \in BOOLEAN /\ torn \in BOOLEAN /\ owner \in {"app", "rpc"}
    BY <1>4
  <2>2. /\ sending \in Seq(Frames) /\ air \in Seq(Byte) /\ rx_buf \in Seq(Byte)
        /\ got \in Seq(CFrames) /\ Len(rx_buf) = 0
    BY <1>1, <1>4
  <2>3. Len(rx_buf) <= CAP /\ Len(rx_buf) < CAP
    BY <1>2, <2>2
  <2> QED
    BY <2>1, <2>2, <2>3 DEF TypeOK, RoomLeft
<1> QED
  BY <1>3, <1>5

\* Every variable keeps its type, and a received frame is one the firmware's
\* structure can hold.
THEOREM ReceiverTypeCorrect == Spec => []TypeOK
<1>1. Init => TypeOK /\ RoomLeft
  BY ReceiverInit
<1>2. TypeOK /\ RoomLeft /\ [Next]_vars => TypeOK' /\ RoomLeft'
  BY ReceiverTypes
<1> QED
  BY <1>1, <1>2, PTL DEF Spec

\* The callback always returns with room in the buffer, whatever bytes the
\* stack hands to it: its branch for a full buffer never runs
\* (fai_ble_rx_callback and fai_ble_try_parse of ble_serial.c).
THEOREM RoomAlwaysLeft == Spec => []RoomLeft
<1>1. Init => TypeOK /\ RoomLeft
  BY ReceiverInit
<1>2. TypeOK /\ RoomLeft /\ [Next]_vars => TypeOK' /\ RoomLeft'
  BY ReceiverTypes
<1> QED
  BY <1>1, <1>2, PTL DEF Spec

\* A piece of an intact write.
LEMMA PieceArrives ==
  ASSUME TypeOK, StreamIntact, ~torn, sending # <<>>, owner = "app",
         NEW n \in Nat, Arrive(n)
  PROVE  StreamIntact'
<1> DEFINE f    == sending[1]
           w    == PyEncode(f)
           data == SubSeq(air, 1, n)
           p    == rx_buf \o data
<1>1. /\ n \in 1..Len(air)
      /\ air' = SubSeq(air, n + 1, Len(air))
      /\ rx_callback(data)
      /\ UNCHANGED <<sending, torn>>
  BY DEF Arrive
<1>2. air \in Seq(Byte) /\ rx_buf \in Seq(Byte) /\ sending \in Seq(Frames)
  BY DEF TypeOK
<1>3. f \in PyFrames
  <2>1. Len(sending) \in Nat \ {0}
    BY <1>2, EmptySeq
  <2>2. 1 \in 1..Len(sending)
    BY <2>1
  <2> QED
    BY <1>2, <2>2, ElementOfSeq, BleSerialAssumption DEF BleSerialAssumption
<1>4. /\ w \in Seq(Byte) /\ Len(w) \in Nat \ {0} /\ Len(w) <= 4 + MaxText
      /\ \A k \in 1..Len(w) : CDecodable(SubSeq(w, 1, k)) <=> k = Len(w)
      /\ CDecode(w) = InFirmware(f)
      /\ Consumed(CDecode(w)) = Len(w)
  BY <1>3, HostFrame
<1>5. /\ data \in Seq(Byte) /\ Len(data) = n /\ data # <<>>
      /\ air' \in Seq(Byte) /\ Len(air') = Len(air) - n
      /\ data \o air' = air
  BY <1>1, <1>2, Cut
<1>6. air # <<>>
  BY <1>1, <1>2, EmptySeq
<1>7. got = <<>> /\ rx_buf \o air = w
  BY <1>6 DEF StreamIntact
<1> HIDE DEF f, w, data
<1>8. p \o air' = w
  <2>0. \A a, b, c \in Seq(Byte) : (a \o b) \o c = a \o (b \o c)
    BY ConcatAssociative
  <2>1. (rx_buf \o data) \o air' = rx_buf \o (data \o air')
    BY <1>2, <1>5, <2>0
  <2> QED
    BY <1>5, <1>7, <2>1
<1>9. p \in Seq(Byte) /\ Len(p) = Len(rx_buf) + n
  BY <1>2, <1>5, ConcatProperties
<1> HIDE DEF p
<1>10. Len(w) = Len(p) + Len(air')
  BY <1>5, <1>8, <1>9, ConcatProperties
<1>11. /\ Len(p) \in 1..Len(w) /\ Len(air') \in Nat /\ Len(rx_buf) \in Nat
       /\ Len(rx_buf) + Len(data) < CAP
  <2>1. Len(air') \in Nat /\ Len(rx_buf) \in Nat
    BY <1>2, <1>5
  <2>2. MaxText \in Nat /\ CAP \in Nat /\ 4 + MaxText < CAP
    BY Capacity, ProtocolAssumption DEF ProtocolAssumption
  <2> QED
    BY <1>1, <1>4, <1>5, <1>9, <1>10, <2>1, <2>2
<1>12. SubSeq(w, 1, Len(p)) = p
  <2>1. Len(p) \in 1..Len(p) /\ 1 \in 1..Len(p)
    BY <1>11
  <2>2. SubSeq(p \o air', 1, Len(p)) = SubSeq(p, 1, Len(p))
    BY <1>5, <1>9, <2>1, SubSeqOfConcat1
  <2>3. SubSeq(p, 1, Len(p)) = p
    BY <1>9, SubSeqFull
  <2> QED
    BY <1>8, <2>2, <2>3
<1>13. CDecodable(p) <=> Len(p) = Len(w)
  BY <1>4, <1>11, <1>12
<1>14. CASE Len(p) = Len(w)
  <2>1. p = w
    BY <1>4, <1>12, <1>14, SubSeqFull
  <2>2. air' = <<>>
    <3>1. Len(air') = 0
      BY <1>10, <1>11, <1>14
    <3> QED
      BY <1>5, <3>1, EmptySeq
  <2>3. rx_buf' = <<>> /\ got' = <<InFirmware(f)>>
    BY <1>1, <1>4, <1>5, <1>7, <1>11, <1>13, <1>14, <2>1, CallbackFrame DEF p
  <2>4. InFirmware(f) = Received(f)
    BY DEF InFirmware, Received
  <2> QED
    BY <1>1, <2>2, <2>3, <2>4 DEF StreamIntact, f
<1>15. CASE Len(p) # Len(w)
  <2>1. rx_buf' = p /\ got' = <<>>
    BY <1>1, <1>5, <1>7, <1>11, <1>13, <1>15, CallbackKeeps DEF p
  <2>2. air' # <<>>
    <3>1. Len(air') # 0
      BY <1>10, <1>11, <1>15
    <3> QED
      BY <3>1, EmptySeq
  <2> QED
    BY <1>1, <1>8, <2>1, <2>2 DEF StreamIntact, f, w
<1> QED
  BY <1>14, <1>15

\* Every step keeps an intact write intact.
LEMMA StreamStep ==
  ASSUME TypeOK, StreamIntact, [Next]_vars PROVE StreamIntact'
<1>1. ASSUME NEW n \in 1..(4 + MaxText), Arrive(n) PROVE StreamIntact'
  <2>1. n \in Nat
    OBVIOUS
  <2>2. CASE ~torn /\ sending # <<>> /\ owner = "app"
    BY <1>1, <2>1, <2>2, PieceArrives
  <2>3. CASE torn \/ sending = <<>> \/ owner # "app"
    BY <1>1, <2>3 DEF Arrive, StreamIntact
  <2> QED
    BY <2>2, <2>3
<1>2. ASSUME NEW f \in Frames, Write(f) PROVE StreamIntact'
  <2>1. f \in PyFrames
    BY BleSerialAssumption DEF BleSerialAssumption
  <2>2. PyEncode(f) \in Seq(Byte) /\ PyEncode(f) # <<>>
    BY <2>1, HostFrame, EmptySeq
  <2>3. CASE rx_buf # <<>>
    BY <1>2, <2>3 DEF Write, StreamIntact
  <2>4. CASE rx_buf = <<>>
    <3>1. /\ air' = PyEncode(f) /\ got' = <<>> /\ rx_buf' = <<>>
          /\ sending' = <<f>> /\ sending'[1] = f
      BY <1>2, <2>4 DEF Write
    <3>2. rx_buf' \o air' = PyEncode(f)
      BY <2>2, <3>1, ConcatEmptySeq
    <3> QED
      BY <2>2, <3>1, <3>2 DEF StreamIntact
  <2> QED
    BY <2>3, <2>4
<1>3. CASE LinkDrop
  BY <1>3 DEF LinkDrop, StreamIntact
<1>4. CASE GuardTick \/ Connect \/ UNCHANGED vars
  BY <1>4 DEF GuardTick, Connect, vars, StreamIntact
<1> QED
  BY <1>1, <1>2, <1>3, <1>4 DEF Next

\* A write that finds the buffer empty and loses nothing yields its own frame,
\* once and no other, and just when its last byte is there, in however many
\* pieces the link carries it: what protocol.py encodes is what protocol.c
\* decodes from the stream that ble_serial.c collects.
THEOREM WritesArriveWhole == Spec => []StreamIntact
<1>1. Init => StreamIntact
  BY ReceiverInit
<1>2. TypeOK /\ StreamIntact /\ [Next]_vars => StreamIntact'
  BY StreamStep
<1> QED
  BY <1>1, <1>2, ReceiverTypeCorrect, PTL DEF Spec
=============================================================================
