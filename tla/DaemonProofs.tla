---------------------------- MODULE DaemonProofs ----------------------------
(***************************************************************************)
(* Proofs about Daemon, for every value of its constants: the inductive    *)
(* invariant IInv, what follows from it, and the refinement of LatestWins. *)
(***************************************************************************)
EXTENDS Daemon, SequenceTheorems, TLAPS

\* The empty queues.
LEMMA Empty ==
  /\ <<>> \in Seq(Nat)
  /\ <<>> \in Seq(Agents)
  /\ <<>> \in Seq(Agents \union Noise)
  /\ Len(<<>>) = 0
BY EmptySeq

\* The Boolean part of TypeOK: it is proved apart, without arithmetic.
Flags ==
  /\ delivered \in BOOLEAN
  /\ link \in BOOLEAN
  /\ hadSuccess \in BOOLEAN

\* A new process holds nothing, so every part of IInv holds at the start.
LEMMA InitIInv == Init => IInv
<1> SUFFICES ASSUME Init PROVE IInv
  OBVIOUS
<1> USE DEF Init, ClientInit
<1>1. TypeOK
  <2>1. Flags
    BY DEF Flags
  <2> QED
    BY <2>1, ClientAssumption, Empty
    DEF TypeOK, Flags, ClientAssumption, Phases, NoFrame
<1>2. QueueShape /\ WriteShape
  BY Empty DEF QueueShape, WriteShape, NoFrame
<1>3. PipelineOrder
  BY Empty DEF PipelineOrder, Held, Forwarded, NoFrame
<1>4. LatestHeld
  <2>1. Len(notifyQueue) = 0
    BY Empty
  <2>2. accepted = 0 /\ lost = 0
    OBVIOUS
  <2> HIDE DEF Init
  <2>3. Forwarded = lost
    BY <2>1, <2>2 DEF Forwarded
  <2> QED
    BY <2>3 DEF LatestHeld
<1> QED
  BY <1>1, <1>2, <1>3, <1>4 DEF IInv

\* _next_frame returns a frame number.
LEMMA NextFrameType ==
  ASSUME TypeOK PROVE NextFrame \in Nat
BY DEF TypeOK, NextFrame

\* A turn of the pump keeps the types of what it assigns.
LEMMA PumpType ==
  ASSUME TypeOK, Pump
  PROVE  /\ phase' \in {"waiting", "writing", "disconnecting"}
         /\ outgoing' \in Seq(Nat)
         /\ Len(outgoing') <= 1
         /\ pending' \in Nat
         /\ frame' \in Nat
<1>1. outgoing' = outgoing \/ outgoing' = <<>>
  BY DEF Pump
<1>2. outgoing' \in Seq(Nat) /\ Len(outgoing') <= 1
  <2>1. CASE outgoing' = outgoing
    BY <2>1 DEF TypeOK
  <2>2. CASE outgoing' = <<>>
    BY <2>2, Empty
  <2> QED
    BY <1>1, <2>1, <2>2
<1>3. pending' \in {pending, NoFrame, NextFrame}
  BY DEF Pump
<1>4. frame' \in {NoFrame, NextFrame}
  BY DEF Pump
<1>5. pending' \in Nat /\ frame' \in Nat
  BY <1>3, <1>4, NextFrameType DEF TypeOK, NoFrame
<1>6. phase' \in {"waiting", "writing", "disconnecting"}
  BY DEF Pump
<1> QED
  BY <1>2, <1>5, <1>6

\* Every step keeps the flags.
LEMMA FlagsStep ==
  ASSUME Flags, [Next]_vars PROVE Flags'
<1> USE DEF Flags
<1>1. ASSUME NEW raw \in Agents \union Noise, OnNotify(raw) PROVE Flags'
  BY <1>1 DEF OnNotify, clientVars
<1>2. CASE Accept \/ Forward \/ HandleIncoming
  BY <1>2 DEF Accept, Forward, HandleIncoming, clientVars
<1>3. CASE BleStep
  BY <1>3 DEF BleStep, ClientStep, ConnectOk, CachedConnectFails, ScanFinds,
     NoSession, SubscribeOk, SubscribeFails, FrameArrives, WriteOk,
     WriteFails, Disconnected, Wake, Pump
<1>4. CASE Radio
  BY <1>4 DEF Radio, RadioStep, Deliver, LinkDrop
<1>5. CASE Stop \/ Launch
  BY <1>5 DEF Stop, Launch, ClientRestart
<1>6. CASE UNCHANGED vars
  BY <1>6 DEF vars, clientVars
<1> QED
  BY <1>1, <1>2, <1>3, <1>4, <1>5, <1>6 DEF Next

\* Every step keeps the types.
LEMMA TypeStep ==
  ASSUME TypeOK, [Next]_vars PROVE TypeOK'
<1>0. Flags /\ Flags'
  BY FlagsStep DEF TypeOK, Flags
<1> USE <1>0 DEF TypeOK, Flags
<1>1. CASE Accept
  BY <1>1 DEF Accept, clientVars
<1>2. CASE Forward
  BY <1>2, Empty DEF Forward
<1>3. ASSUME NEW raw \in Agents \union Noise, OnNotify(raw) PROVE TypeOK'
  BY <1>3 DEF OnNotify, clientVars
<1>4. CASE HandleIncoming
  BY <1>4 DEF HandleIncoming, Clear, clientVars
<1>5. CASE BleStep
  <2> USE DEF queueVars
  <2>1. lost' \in Nat /\ UNCHANGED <<queueVars, accepted>>
    BY <1>5 DEF BleStep
  <2>2. CASE ConnectOk
    BY <2>1, <2>2 DEF ConnectOk, Phases
  <2>3. CASE CachedConnectFails
    BY <2>1, <2>3 DEF CachedConnectFails, Phases
  <2>4. CASE ScanFinds
    BY <2>1, <2>4 DEF ScanFinds, Phases
  <2>5. CASE NoSession
    BY <2>1, <2>5 DEF NoSession, SessionFailed, Phases
  <2>6. CASE SubscribeOk
    BY <2>1, <2>6, PumpType DEF SubscribeOk, Phases
  <2>7. CASE SubscribeFails
    BY <2>1, <2>7 DEF SubscribeFails, Phases
  <2>8. CASE FrameArrives
    BY <2>1, <2>8, PumpType DEF FrameArrives, Phases
  <2>9. CASE WriteOk
    BY <2>1, <2>9, PumpType DEF WriteOk, Phases
  <2>10. CASE WriteFails
    BY <2>1, <2>10 DEF WriteFails, Phases, NoFrame
  <2>11. CASE Disconnected
    BY <2>1, <2>11 DEF Disconnected, SessionFailed, Phases
  <2>12. CASE Wake
    BY <2>1, <2>12, ClientAssumption DEF ClientAssumption, Wake, Phases
  <2> QED
    BY <1>5, <2>2, <2>3, <2>4, <2>5, <2>6, <2>7, <2>8, <2>9, <2>10, <2>11,
       <2>12 DEF BleStep, ClientStep
<1>6. CASE Radio
  BY <1>6 DEF Radio, RadioStep, Deliver, LinkDrop, queueVars
<1>7. CASE Stop
  BY <1>7 DEF Stop, queueVars, Phases
<1>8. CASE Launch
  BY <1>8, Empty, ClientAssumption
  DEF ClientAssumption, Launch, ClientRestart, Phases, NoFrame
<1>9. CASE UNCHANGED vars
  BY <1>9 DEF vars, clientVars, queueVars
<1> QED
  BY <1>1, <1>2, <1>3, <1>4, <1>5, <1>6, <1>7, <1>8, <1>9 DEF Next

\* Every variable keeps its type, and the queue of frames never holds more
\* than the one that asyncio.Queue(maxsize=1) allows: put() never waits.
THEOREM TypeCorrect == Spec => []TypeOK
<1>1. Init => TypeOK
  BY InitIInv DEF IInv
<1>2. TypeOK /\ [Next]_vars => TypeOK'
  BY TypeStep
<1> QED
  BY <1>1, <1>2, PTL DEF Spec

-----------------------------------------------------------------------------
(* The frames: what each kind of step does to the rest of IInv.            *)

\* The forwarder never runs ahead of the socket server.
LEMMA ForwardedType ==
  ASSUME TypeOK, QueueShape
  PROVE  Forwarded \in Nat /\ Forwarded <= accepted
BY DEF TypeOK, QueueShape, Forwarded

\* The frame that _next_frame returns is the newest one made, and new.
LEMMA NextIsNewest ==
  ASSUME TypeOK, QueueShape, PipelineOrder, Alive,
         outgoing # <<>> \/ pending # NoFrame
  PROVE  /\ NextFrame = Forwarded
         /\ NextFrame # NoFrame
         /\ lost < Forwarded
<1>1. Forwarded \in Nat /\ lost \in Nat /\ pending \in Nat
  BY ForwardedType DEF TypeOK
<1>2. CASE outgoing # <<>>
  <2>1. Len(outgoing) = 1
    <3>1. outgoing \in Seq(Nat) /\ Len(outgoing) <= 1
      BY DEF TypeOK
    <3>2. Len(outgoing) \in Nat \ {0}
      BY <1>2, <3>1, EmptySeq
    <3>3. \A n \in Nat \ {0} : n <= 1 => n = 1
      OBVIOUS
    <3> QED
      BY <3>1, <3>2, <3>3, Zenon
  <2>2. NextFrame = Forwarded /\ lost < Forwarded
    BY <1>2, <2>1 DEF NextFrame, PipelineOrder
  <2> QED
    BY <1>1, <2>2 DEF NoFrame
<1>3. CASE outgoing = <<>>
  <2>1. NextFrame = pending /\ pending # NoFrame
    BY <1>3 DEF NextFrame
  <2>2. pending = Forwarded /\ lost < pending
    BY <1>3, <2>1 DEF PipelineOrder, Held
  <2> QED
    BY <2>1, <2>2
<1> QED
  BY <1>2, <1>3

\* The queue of notifications.
LEMMA QueueStep ==
  ASSUME TypeOK, QueueShape, [Next]_vars PROVE QueueShape'
<1>1. CASE Accept
  <2>1. /\ notifyQueue' = Append(notifyQueue, accepted + 1)
        /\ accepted' = accepted + 1
    BY <1>1 DEF Accept
  <2>2. accepted \in Nat /\ accepted + 1 \in Nat /\ notifyQueue \in Seq(Nat)
    BY DEF TypeOK
  <2>3. /\ Len(notifyQueue') = Len(notifyQueue) + 1
        /\ notifyQueue'[Len(notifyQueue) + 1] = accepted + 1
    BY <2>1, <2>2, AppendProperties
  <2>4. Len(notifyQueue) \in Nat
    BY <2>2
  <2>5. Len(notifyQueue') <= accepted'
    BY <2>1, <2>2, <2>3, <2>4 DEF QueueShape
  <2>6. notifyQueue'[Len(notifyQueue')] = accepted'
    BY <2>1, <2>3
  <2> QED
    BY <2>5, <2>6 DEF QueueShape
<1>2. CASE Forward \/ Launch
  <2>1. notifyQueue' = <<>> /\ accepted' = accepted
    BY <1>2 DEF Forward, Launch
  <2>2. Len(notifyQueue') = 0 /\ accepted' \in Nat
    BY <2>1, Empty DEF TypeOK
  <2> QED
    BY <2>1, <2>2 DEF QueueShape
<1>3. CASE UNCHANGED <<notifyQueue, accepted>>
  BY <1>3 DEF QueueShape
<1> QED
  BY <1>1, <1>2, <1>3 DEF Next, OnNotify, HandleIncoming, BleStep, Radio, Stop,
     vars, queueVars

\* A step that neither accepts nor forwards leaves Forwarded as it is.
LEMMA ForwardedUnchanged ==
  ASSUME UNCHANGED <<notifyQueue, accepted>> PROVE Forwarded' = Forwarded
BY DEF Forwarded

\* The acceptance of a notification does not touch the frames either.
LEMMA ForwardedAccept ==
  ASSUME TypeOK, Accept PROVE Forwarded' = Forwarded
<1>1. /\ notifyQueue' = Append(notifyQueue, accepted + 1)
      /\ accepted' = accepted + 1
  BY DEF Accept
<1>2. accepted \in Nat /\ accepted + 1 \in Nat /\ notifyQueue \in Seq(Nat)
  BY DEF TypeOK
<1>3. Len(notifyQueue') = Len(notifyQueue) + 1
  BY <1>1, <1>2, AppendProperties
<1>4. Len(notifyQueue) \in Nat
  BY <1>2
<1>5. \A a, n \in Nat : (a + 1) - (n + 1) = a - n
  OBVIOUS
<1>6. accepted' - Len(notifyQueue') = accepted - Len(notifyQueue)
  BY <1>1, <1>2, <1>3, <1>4, <1>5, Zenon
<1> QED
  BY <1>6 DEF Forwarded

\* A step that moves no frame keeps the frames in order.
LEMMA FrozenStep ==
  ASSUME WriteShape, PipelineOrder, LatestHeld,
         UNCHANGED <<outgoing, pending, frame, delivered, received>>,
         Forwarded' = Forwarded,
         Alive' => Alive /\ lost' = lost,
         ~Alive' => lost' = accepted',
         phase' = "writing" => phase = "writing",
         Alive' /\ phase = "writing" => phase' = "writing"
  PROVE  WriteShape' /\ PipelineOrder' /\ LatestHeld'
<1>1. WriteShape'
  BY DEF WriteShape, NoFrame
<1>2. Held(pending)' /\ Held(frame)'
  BY DEF PipelineOrder, Held, NoFrame
<1>3. PipelineOrder'
  BY <1>2 DEF PipelineOrder
<1>4. LatestHeld'
  BY DEF LatestHeld
<1> QED
  BY <1>1, <1>3, <1>4

\* A turn of the pump, entered with no frame in hand but a written one.
LEMMA PumpStep ==
  ASSUME TypeOK, QueueShape, WriteShape, PipelineOrder, LatestHeld, Alive,
         frame = NoFrame \/ received = frame,
         Pump,
         UNCHANGED <<received, notifyQueue, accepted, lost>>
  PROVE  WriteShape' /\ PipelineOrder' /\ LatestHeld'
<1>0. Forwarded' = Forwarded /\ Forwarded \in Nat
  BY ForwardedUnchanged, ForwardedType
<1>1. received <= Forwarded /\ lost <= Forwarded
  BY DEF PipelineOrder
<1>2. CASE outgoing = <<>> /\ pending = NoFrame
  <2>1. /\ outgoing' = <<>> /\ pending' = NoFrame /\ frame' = NoFrame
        /\ phase' = "waiting" /\ delivered' = FALSE
    BY <1>2 DEF Pump
  <2>2. WriteShape'
    BY <2>1 DEF WriteShape, NoFrame
  <2>3. PipelineOrder'
    BY <2>1, <1>0, <1>1 DEF PipelineOrder, Held, Alive
  <2>4. Forwarded = lost \/ Forwarded = received
    <3>1. pending = 0
      BY <1>2 DEF NoFrame
    <3>2. Forwarded \in {lost, received, pending, frame}
      BY <1>2 DEF LatestHeld
    <3>3. Forwarded = 0 => lost = Forwarded
      BY <1>0, <1>1 DEF TypeOK
    <3>4. frame = 0 \/ frame = received
      BY DEF NoFrame
    <3> QED
      BY <3>1, <3>2, <3>3, <3>4
  <2>5. LatestHeld'
    BY <2>4, <1>0 DEF LatestHeld
  <2> QED
    BY <2>2, <2>3, <2>5
<1>3. CASE outgoing # <<>> \/ pending # NoFrame
  <2>1. NextFrame = Forwarded /\ NextFrame # NoFrame /\ lost < Forwarded
    BY <1>3, NextIsNewest
  <2>2. /\ outgoing' = <<>> /\ delivered' = FALSE
        /\ \/ phase' = "writing" /\ frame' = Forwarded /\ pending' = NoFrame
           \/ phase' = "disconnecting" /\ frame' = NoFrame
              /\ pending' = Forwarded
    BY <1>3, <2>1 DEF Pump
  <2>3. WriteShape'
    BY <2>1, <2>2 DEF WriteShape
  <2>4. Held(pending)' /\ Held(frame)'
    BY <2>1, <2>2, <1>0, <1>1 DEF Held
  <2>5. PipelineOrder'
    BY <2>2, <2>4, <1>0, <1>1 DEF PipelineOrder, Alive
  <2>6. LatestHeld'
    BY <2>2, <1>0 DEF LatestHeld
  <2> QED
    BY <2>3, <2>5, <2>6
<1> QED
  BY <1>2, <1>3

\* The forwarder's frame is newer than all that went before.
LEMMA ForwardStep ==
  ASSUME TypeOK, QueueShape, WriteShape, PipelineOrder, Forward
  PROVE  WriteShape' /\ PipelineOrder' /\ LatestHeld'
<1>1. /\ Alive /\ notifyQueue # <<>> /\ notifyQueue' = <<>>
      /\ outgoing' = <<notifyQueue[Len(notifyQueue)]>>
      /\ UNCHANGED <<phase, pending, frame, delivered, received, accepted, lost>>
  BY DEF Forward
<1>2. outgoing' = <<accepted>>
  BY <1>1 DEF QueueShape
<1>3. outgoing' # <<>> /\ outgoing'[1] = accepted
  BY <1>2
<1>4. accepted \in Nat /\ Len(notifyQueue) \in Nat \ {0}
  BY <1>1, EmptySeq DEF TypeOK
<1>5. Forwarded' = accepted
  <2>1. Len(notifyQueue') = 0
    BY <1>1, Empty
  <2>2. accepted' = accepted
    BY <1>1
  <2>3. \A a \in Nat : a - 0 = a
    OBVIOUS
  <2>4. accepted' - Len(notifyQueue') = accepted
    BY <2>1, <2>2, <2>3, <1>4, Zenon
  <2> QED
    BY <2>4 DEF Forwarded
<1>6. Forwarded < accepted /\ Forwarded \in Nat
  <2>1. \A a \in Nat, n \in Nat \ {0} : a - n < a
    OBVIOUS
  <2>2. accepted - Len(notifyQueue) < accepted
    BY <2>1, <1>4, Zenon
  <2> QED
    BY <2>2, ForwardedType DEF Forwarded
<1>7. WriteShape'
  BY <1>1 DEF WriteShape, Alive, NoFrame
<1>8. received <= accepted /\ lost < accepted
  BY <1>1, <1>4, <1>6 DEF PipelineOrder, TypeOK
<1>9. Held(pending)' /\ Held(frame)'
  BY <1>1, <1>3, <1>4, <1>5, <1>6 DEF PipelineOrder, Held, TypeOK, NoFrame
<1>10. PipelineOrder'
  <2>1. Alive'
    BY <1>1 DEF Alive
  <2> QED
    BY <2>1, <1>1, <1>3, <1>4, <1>5, <1>8, <1>9 DEF PipelineOrder, TypeOK
<1>11. LatestHeld'
  BY <1>2, <1>5 DEF LatestHeld
<1> QED
  BY <1>7, <1>10, <1>11

\* A failed write puts its frame back.
LEMMA WriteFailsStep ==
  ASSUME TypeOK, QueueShape, WriteShape, PipelineOrder, LatestHeld,
         WriteFails, UNCHANGED <<notifyQueue, accepted, lost>>
  PROVE  WriteShape' /\ PipelineOrder' /\ LatestHeld'
<1>1. /\ phase = "writing" /\ phase' = "disconnecting"
      /\ pending' = frame /\ frame' = NoFrame /\ delivered' = FALSE
      /\ UNCHANGED <<outgoing, received>>
  BY DEF WriteFails
<1>2. Forwarded' = Forwarded
  BY ForwardedUnchanged
<1>3. Alive /\ Alive'
  BY <1>1 DEF Alive
<1>4. frame # NoFrame /\ pending = NoFrame
  BY <1>1 DEF WriteShape
<1>5. WriteShape'
  BY <1>1 DEF WriteShape
<1>6. Held(pending)' /\ Held(frame)'
  BY <1>1, <1>2, <1>3 DEF PipelineOrder, Held
<1>7. PipelineOrder'
  BY <1>1, <1>2, <1>3, <1>6 DEF PipelineOrder
<1>8. LatestHeld'
  <2>1. Forwarded # pending
    <3>1. CASE Forwarded = NoFrame
      BY <3>1, <1>4, ForwardedType DEF PipelineOrder, Held, NoFrame, TypeOK
    <3> QED
      BY <3>1, <1>4
  <2> QED
    BY <2>1, <1>1, <1>2, <1>3 DEF LatestHeld
<1> QED
  BY <1>5, <1>7, <1>8

\* What reaches the Flipper is the frame in the air.
LEMMA DeliverStep ==
  ASSUME TypeOK, QueueShape, WriteShape, PipelineOrder, LatestHeld,
         Deliver, UNCHANGED <<notifyQueue, accepted, lost>>
  PROVE  WriteShape' /\ PipelineOrder' /\ LatestHeld'
<1>1. /\ phase = "writing" /\ phase' = phase /\ received' = frame
      /\ UNCHANGED <<outgoing, pending, frame>>
  BY DEF Deliver
<1>2. Forwarded' = Forwarded /\ Alive /\ Alive'
  BY <1>1, ForwardedUnchanged DEF Alive
<1>3. frame # NoFrame /\ pending = NoFrame
  BY <1>1 DEF WriteShape
<1>4. WriteShape'
  BY <1>1, <1>3 DEF WriteShape
<1>5. frame \in Nat /\ frame <= Forwarded
  BY <1>3 DEF PipelineOrder, Held, TypeOK
<1>6. Held(pending)' /\ Held(frame)'
  BY <1>1, <1>2, <1>3, <1>5 DEF PipelineOrder, Held
<1>7. PipelineOrder'
  BY <1>1, <1>2, <1>5, <1>6 DEF PipelineOrder
<1>8. LatestHeld'
  <2>1. Forwarded # received \/ Forwarded = frame
    BY <1>3, <1>5, ForwardedType DEF PipelineOrder, Held, TypeOK
  <2>2. Forwarded # pending
    <3>1. CASE Forwarded = NoFrame
      BY <3>1, <1>3, <1>5 DEF NoFrame
    <3> QED
      BY <3>1, <1>3
  <2> QED
    BY <2>1, <2>2, <1>1, <1>2 DEF LatestHeld
<1> QED
  BY <1>4, <1>7, <1>8

\* A new process starts after all that was accepted before.
LEMMA LaunchStep ==
  ASSUME TypeOK, QueueShape, PipelineOrder, Launch
  PROVE  WriteShape' /\ PipelineOrder' /\ LatestHeld'
<1>1. /\ phase' = "connecting" /\ outgoing' = <<>> /\ pending' = NoFrame
      /\ frame' = NoFrame /\ delivered' = FALSE /\ notifyQueue' = <<>>
      /\ UNCHANGED <<received, accepted, lost>>
  BY DEF Launch, ClientRestart
<1>2. lost = accepted /\ Alive'
  BY <1>1 DEF Launch, PipelineOrder, Alive
<1>3. Forwarded' = accepted
  <2>1. Len(notifyQueue') = 0
    BY <1>1, Empty
  <2>2. accepted' = accepted /\ accepted \in Nat
    BY <1>1 DEF TypeOK
  <2>3. \A a \in Nat : a - 0 = a
    OBVIOUS
  <2>4. accepted' - Len(notifyQueue') = accepted
    BY <2>1, <2>2, <2>3, Zenon
  <2> QED
    BY <2>4 DEF Forwarded
<1>4. received <= accepted
  BY ForwardedType DEF PipelineOrder, TypeOK
<1>5. WriteShape'
  BY <1>1 DEF WriteShape, NoFrame
<1>6. PipelineOrder'
  BY <1>1, <1>2, <1>3, <1>4 DEF PipelineOrder, Held, TypeOK
<1>7. LatestHeld'
  BY <1>1, <1>2, <1>3 DEF LatestHeld
<1> QED
  BY <1>5, <1>6, <1>7

\* The BLE task keeps the frames in order.
LEMMA BleStepOrder ==
  ASSUME TypeOK, QueueShape, WriteShape, PipelineOrder, LatestHeld, BleStep
  PROVE  WriteShape' /\ PipelineOrder' /\ LatestHeld'
<1>1. UNCHANGED <<notifyQueue, accepted>>
  BY DEF BleStep, queueVars
<1>2. Forwarded' = Forwarded
  BY <1>1, ForwardedUnchanged
<1>3. lost' = IF phase' = "exited" THEN accepted ELSE lost
  BY DEF BleStep
<1>4. CASE ConnectOk \/ CachedConnectFails \/ ScanFinds \/ NoSession
           \/ SubscribeFails \/ Disconnected \/ Wake
  <2>1. UNCHANGED <<outgoing, pending, frame, delivered, received>>
    BY <1>4 DEF ConnectOk, CachedConnectFails, ScanFinds, NoSession,
       SubscribeFails, Disconnected, Wake
  <2>2. /\ phase \in {"connecting", "scanning", "reconnecting", "subscribing",
                      "disconnecting", "sleeping"}
        /\ phase' \in {"connecting", "scanning", "reconnecting", "subscribing",
                       "disconnecting", "sleeping", "exited"}
    BY <1>4 DEF ConnectOk, CachedConnectFails, ScanFinds, NoSession,
       SubscribeFails, Disconnected, Wake, SessionFailed
  <2>3. /\ Alive' => Alive /\ lost' = lost
        /\ ~Alive' => lost' = accepted'
    BY <2>2, <1>1, <1>3 DEF Alive
  <2> QED
    BY <2>1, <2>2, <2>3, <1>2, FrozenStep
<1>5. CASE SubscribeOk \/ FrameArrives \/ WriteOk
  <2>1. /\ Pump /\ UNCHANGED received
        /\ phase \in {"subscribing", "waiting", "writing"}
    BY <1>5 DEF SubscribeOk, FrameArrives, WriteOk
  <2>2. Alive /\ phase' # "exited"
    BY <2>1 DEF Pump, Alive
  <2>3. frame = NoFrame \/ received = frame
    BY <1>5, <2>2 DEF SubscribeOk, FrameArrives, WriteOk, WriteShape
  <2> QED
    BY <2>1, <2>2, <2>3, <1>1, <1>3, PumpStep
<1>6. CASE WriteFails
  <2>1. lost' = lost
    BY <1>3, <1>6 DEF WriteFails
  <2> QED
    BY <2>1, <1>1, <1>6, WriteFailsStep
<1> QED
  BY <1>4, <1>5, <1>6 DEF BleStep, ClientStep

\* Every step keeps the frames in order.
LEMMA OrderStep ==
  ASSUME TypeOK, QueueShape, WriteShape, PipelineOrder, LatestHeld,
         [Next]_vars
  PROVE  WriteShape' /\ PipelineOrder' /\ LatestHeld'
<1>1. CASE Accept
  <2>1. /\ UNCHANGED <<phase, outgoing, pending, frame, delivered, received,
                       lost>>
        /\ Alive /\ Alive'
    BY <1>1 DEF Accept, clientVars, Alive
  <2> QED
    BY <2>1, <1>1, ForwardedAccept, FrozenStep
<1>2. CASE Forward
  BY <1>2, ForwardStep
<1>3. CASE BleStep
  BY <1>3, BleStepOrder
<1>4. CASE Radio
  <2>1. UNCHANGED <<notifyQueue, accepted, lost>>
    BY <1>4 DEF Radio, queueVars
  <2>2. CASE Deliver
    BY <2>1, <2>2, DeliverStep
  <2>3. CASE LinkDrop
    <3>1. UNCHANGED <<phase, outgoing, pending, frame, delivered, received>>
      BY <2>3 DEF LinkDrop
    <3>2. /\ Alive' => Alive /\ lost' = lost
          /\ ~Alive' => lost' = accepted'
      BY <2>1, <3>1 DEF Alive, PipelineOrder
    <3> QED
      BY <2>1, <3>1, <3>2, ForwardedUnchanged, FrozenStep
  <2> QED
    BY <1>4, <2>2, <2>3 DEF Radio, RadioStep
<1>5. CASE Stop
  <2>1. /\ UNCHANGED <<outgoing, pending, frame, delivered, received,
                       notifyQueue, accepted>>
        /\ phase' = "stopped" /\ lost' = accepted
    BY <1>5 DEF Stop, queueVars
  <2> QED
    BY <2>1, ForwardedUnchanged, FrozenStep DEF Alive
<1>6. CASE Launch
  BY <1>6, LaunchStep
<1>7. CASE UNCHANGED <<clientVars, notifyQueue, accepted, lost>>
  <2>1. UNCHANGED <<phase, outgoing, pending, frame, delivered, received,
                    notifyQueue, accepted, lost>>
    BY <1>7 DEF clientVars
  <2>2. /\ Alive' => Alive /\ lost' = lost
        /\ ~Alive' => lost' = accepted'
    BY <2>1 DEF Alive, PipelineOrder
  <2> QED
    BY <2>1, <2>2, ForwardedUnchanged, FrozenStep
<1> QED
  BY <1>1, <1>2, <1>3, <1>4, <1>5, <1>6, <1>7
  DEF Next, OnNotify, HandleIncoming, vars, queueVars

\* Every step keeps IInv.
LEMMA NextIInv == IInv /\ [Next]_vars => IInv'
BY TypeStep, QueueStep, OrderStep DEF IInv

\* The types, the shape of the queues and the order of the notifications along
\* the pipeline (notify_queue, outgoing, _pending_frame, the frame in the air,
\* the Flipper) hold together in every state of the daemon.
THEOREM Inductive == Spec => []IInv
<1>1. Init => IInv
  BY InitIInv
<1>2. IInv /\ [Next]_vars => IInv'
  BY NextIInv
<1> QED
  BY <1>1, <1>2, PTL DEF Spec

\* However sessions fail, links drop and writes are lost, the newest frame
\* made is never dropped by a living process (_pending_frame of ble.py).
THEOREM NewestFrameHeld == Spec => []LatestHeld
<1>1. IInv => LatestHeld
  BY DEF IInv
<1> QED
  BY <1>1, Inductive, PTL

-----------------------------------------------------------------------------
(* What a step may do.                                                     *)

\* Only a turn of the pump starts a write, and it takes the newest frame.
LEMMA WriteStep ==
  ASSUME IInv, [Next]_vars
  PROVE  frame' \notin {frame, NoFrame} => frame' = Forwarded'
<1> USE DEF IInv
<1>1. SUFFICES ASSUME frame' # frame, frame' # NoFrame
               PROVE  frame' = Forwarded'
  OBVIOUS
<1>2. /\ SubscribeOk \/ FrameArrives \/ WriteOk
      /\ UNCHANGED <<notifyQueue, accepted>>
  BY <1>1 DEF Next, vars, clientVars, queueVars, Accept, Forward, OnNotify,
     HandleIncoming, Radio, RadioStep, Deliver, LinkDrop, Stop, Launch,
     ClientRestart, BleStep, ClientStep, ConnectOk, CachedConnectFails,
     ScanFinds, NoSession, SubscribeFails, WriteFails, Disconnected, Wake
<1>3. Alive /\ Pump
  BY <1>2 DEF SubscribeOk, FrameArrives, WriteOk, Alive
<1>4. /\ outgoing # <<>> \/ pending # NoFrame
      /\ frame' = NextFrame
  BY <1>1, <1>3 DEF Pump
<1>5. NextFrame = Forwarded
  BY <1>3, <1>4, NextIsNewest
<1> QED
  BY <1>2, <1>4, <1>5, ForwardedUnchanged

\* A write always begins with the newest frame made so far: "a newer queued
\* frame supersedes the retained frame" (_next_frame of ble.py).
THEOREM NewestFirst == Spec => WriteStartsWithNewest
<1>1. IInv /\ [Next]_vars
        => [frame' \notin {frame, NoFrame} => frame' = Forwarded']_vars
  BY WriteStep
<1> QED
  BY <1>1, Inductive, PTL DEF Spec, WriteStartsWithNewest

-----------------------------------------------------------------------------
(* When the process gives up, and how long it waits.                       *)

\* The except block keeps the count below its limit or ends the process.
LEMMA SessionFailedRetry ==
  ASSUME TypeOK, RetryBounds, Alive, SessionFailed, hadSuccess' = hadSuccess,
         backoff' = backoff
  PROVE  RetryBounds'
<1>1. failures \in Nat /\ FAILURES_BEFORE_RESTART \in Nat
  BY ClientAssumption DEF TypeOK, ClientAssumption
<1>2. failures < FAILURES_BEFORE_RESTART
  BY <1>1 DEF RetryBounds, Alive
<1>3. CASE hadSuccess
  BY <1>1, <1>3 DEF SessionFailed, RetryBounds
<1>4. CASE ~hadSuccess
  <2>1. failures' = failures /\ phase' = "sleeping"
    BY <1>4 DEF SessionFailed
  <2> QED
    BY <1>1, <1>2, <2>1 DEF RetryBounds
<1> QED
  BY <1>3, <1>4

\* A step that leaves the counters alone, and neither makes nor unmakes the
\* exit, keeps the bounds.
LEMMA QuietRetry ==
  ASSUME RetryBounds, UNCHANGED <<failures, backoff>>, hadSuccess => hadSuccess',
         phase' = "exited" <=> phase = "exited"
  PROVE  RetryBounds'
BY DEF RetryBounds

\* Every step keeps the bounds.
LEMMA RetryStep ==
  ASSUME TypeOK, RetryBounds, [Next]_vars PROVE RetryBounds'
<1>1. CASE Accept \/ Forward \/ (\E raw \in Agents \union Noise : OnNotify(raw))
           \/ HandleIncoming \/ Radio \/ UNCHANGED vars
  <2>1. UNCHANGED <<phase, failures, backoff, hadSuccess>>
    BY <1>1 DEF Accept, Forward, OnNotify, HandleIncoming, Radio, RadioStep,
       Deliver, LinkDrop, vars, clientVars
  <2> QED
    BY <2>1, QuietRetry
<1>2. CASE BleStep
  <2>1. CASE NoSession \/ Disconnected
    BY <2>1, SessionFailedRetry DEF NoSession, Disconnected, Alive
  <2>2. CASE Wake
    <3>1. /\ backoff \in Nat
          /\ BACKOFF_INITIAL \in Nat /\ BACKOFF_MAX \in Nat
          /\ BACKOFF_INITIAL <= BACKOFF_MAX
      BY ClientAssumption DEF TypeOK, ClientAssumption
    <3>2. BACKOFF_INITIAL <= backoff' /\ backoff' <= BACKOFF_MAX
      BY <2>2, <3>1 DEF Wake, RetryBounds
    <3> QED
      BY <2>2, <3>2 DEF Wake, RetryBounds
  <2>3. CASE ConnectOk \/ CachedConnectFails \/ ScanFinds \/ SubscribeFails
             \/ WriteFails
    BY <2>3, QuietRetry
    DEF ConnectOk, CachedConnectFails, ScanFinds, SubscribeFails, WriteFails
  <2>4. CASE SubscribeOk \/ FrameArrives \/ WriteOk
    <3>1. Pump /\ phase # "exited" /\ UNCHANGED <<failures, backoff, hadSuccess>>
      BY <2>4 DEF SubscribeOk, FrameArrives, WriteOk
    <3> QED
      BY <3>1, QuietRetry DEF Pump
  <2> QED
    BY <1>2, <2>1, <2>2, <2>3, <2>4 DEF BleStep, ClientStep
<1>3. CASE Stop
  BY <1>3, QuietRetry DEF Stop, Alive
<1>4. CASE Launch
  BY <1>4, ClientAssumption
  DEF Launch, ClientRestart, RetryBounds, ClientAssumption
<1> QED
  BY <1>1, <1>2, <1>3, <1>4 DEF Next

\* The process ends just at the failure that reaches the limit, never before
\* its first connection, and waits between BACKOFF_INITIAL and BACKOFF_MAX
\* (run_forever of ble.py).
THEOREM RetriesBounded == Spec => []RetryBounds
<1>1. Init => RetryBounds
  BY ClientAssumption DEF Init, ClientInit, RetryBounds, ClientAssumption
<1>2. TypeOK /\ RetryBounds /\ [Next]_vars => RetryBounds'
  BY RetryStep
<1> QED
  BY <1>1, <1>2, TypeCorrect, PTL DEF Spec

-----------------------------------------------------------------------------
(* The ACKs between on_notify and the tmux bridge.                         *)

\* The ACKs of `acks` after the first n are those in `queue`, at the positions
\* `at`: ClearsFollowAcks with its variables as parameters.
Standing(acks, n, queue, at) ==
  /\ at \in [n + 1 .. Len(acks) -> 1..Len(queue)]
  /\ \A j, k \in n + 1 .. Len(acks) : j < k => at[j] < at[k]
  /\ \A i \in 1..Len(queue) :
       queue[i] \in Agents <=> \E k \in n + 1 .. Len(acks) : at[k] = i
  /\ \A k \in n + 1 .. Len(acks) : acks[k] = queue[at[k]]

\* The first n of acks are cleared, and the others stand in the queue.
Follows(acks, clears, queue) ==
  /\ Len(clears) <= Len(acks)
  /\ \A k \in 1..Len(clears) : clears[k] = acks[k]
  /\ \E at : Standing(acks, Len(clears), queue, at)

LEMMA FollowsIsClears ==
  TypeOK => (ClearsFollowAcks <=>
               (BridgeEnabled => Follows(ackLog, cleared, incoming)))
<1> SUFFICES ASSUME TypeOK
             PROVE  ClearsFollowAcks <=>
                      (BridgeEnabled => Follows(ackLog, cleared, incoming))
  OBVIOUS
<1>1. /\ Len(cleared) \in Nat /\ Len(ackLog) \in Nat /\ Len(incoming) \in Nat
      /\ DOMAIN cleared = 1..Len(cleared)
      /\ DOMAIN incoming = 1..Len(incoming)
  BY DEF TypeOK
<1>2. ASSUME NEW at \in [Len(cleared) + 1 .. Len(ackLog) -> DOMAIN incoming]
      PROVE  StandAt(at) /\ (\A k \in DOMAIN at : ackLog[k] = incoming[at[k]])
               <=> Standing(ackLog, Len(cleared), incoming, at)
  <2>1. DOMAIN at = Len(cleared) + 1 .. Len(ackLog)
    OBVIOUS
  <2>2. {at[k] : k \in DOMAIN at} = {i \in DOMAIN incoming : incoming[i] \in Agents}
          <=> \A i \in 1..Len(incoming) :
                incoming[i] \in Agents <=> \E k \in DOMAIN at : at[k] = i
    BY <1>1
  <2>3. at \in [Len(cleared) + 1 .. Len(ackLog) -> 1..Len(incoming)]
    BY <1>1
  <2> QED
    BY <2>1, <2>2, <2>3 DEF StandAt, Standing
<1>3. \A at : Standing(ackLog, Len(cleared), incoming, at) =>
                at \in [Len(cleared) + 1 .. Len(ackLog) -> DOMAIN incoming]
  BY <1>1 DEF Standing
<1> QED
  BY <1>1, <1>2, <1>3 DEF ClearsFollowAcks, Follows

\* A frame that arrives stands last.
LEMMA FollowsArrival ==
  ASSUME NEW acks \in Seq(Agents), NEW clears \in Seq(Agents),
         NEW queue \in Seq(Agents \union Noise), NEW raw \in Agents \union Noise,
         Follows(acks, clears, queue)
  PROVE  Follows(IF raw \in Agents THEN Append(acks, raw) ELSE acks,
                 clears, Append(queue, raw))
<1> DEFINE n == Len(clears)
           L == Len(acks)
           Q == Len(queue)
           more == Append(queue, raw)
           acked == Append(acks, raw)
<1>1. n \in Nat /\ L \in Nat /\ Q \in Nat /\ n <= L
  BY DEF Follows
<1>2. Len(more) = Q + 1 /\ more[Q + 1] = raw /\ \A i \in 1..Q : more[i] = queue[i]
  BY AppendProperties
<1>3. PICK at : Standing(acks, n, queue, at)
  BY DEF Follows
<1>4. /\ at \in [n + 1 .. L -> 1..Q]
      /\ \A j, k \in n + 1 .. L : j < k => at[j] < at[k]
      /\ \A i \in 1..Q :
           queue[i] \in Agents <=> \E k \in n + 1 .. L : at[k] = i
      /\ \A k \in n + 1 .. L : acks[k] = queue[at[k]]
  BY <1>3 DEF Standing
<1>5. \A k \in 1..n : clears[k] = acks[k]
  BY DEF Follows
<1>6. CASE raw \in Agents
  <2> DEFINE to == [k \in n + 1 .. L + 1 |-> IF k = L + 1 THEN Q + 1 ELSE at[k]]
  <2>1. Len(acked) = L + 1 /\ acked[L + 1] = raw /\ \A k \in 1..L : acked[k] = acks[k]
    BY <1>6, AppendProperties
  <2> HIDE DEF n, L, Q, more, acked
  <2>2. to \in [n + 1 .. L + 1 -> 1..Q + 1]
    BY <1>1, <1>4
  <2>3. \A j, k \in n + 1 .. L + 1 : j < k => to[j] < to[k]
    BY <1>1, <1>4
  <2>4. \A i \in 1..Q + 1 :
          more[i] \in Agents <=> \E k \in n + 1 .. L + 1 : to[k] = i
    <3>1. ASSUME NEW i \in 1..Q PROVE
            more[i] \in Agents <=> \E k \in n + 1 .. L + 1 : to[k] = i
      <4>1. \A k \in n + 1 .. L : k \in n + 1 .. L + 1 /\ to[k] = at[k]
        BY <1>1
      <4>2. \A k \in n + 1 .. L + 1 : to[k] = i => k \in n + 1 .. L /\ at[k] = i
        BY <1>1
      <4> QED
        BY <1>2, <1>4, <4>1, <4>2
    <3>2. more[Q + 1] \in Agents /\ L + 1 \in n + 1 .. L + 1 /\ to[L + 1] = Q + 1
      BY <1>1, <1>2, <1>6
    <3>3. \A i \in 1..Q + 1 : i \in 1..Q \/ i = Q + 1
      BY <1>1
    <3> QED
      BY <3>1, <3>2, <3>3
  <2>5. \A k \in n + 1 .. L + 1 : acked[k] = more[to[k]]
    BY <1>1, <1>2, <1>4, <2>1
  <2>6. Standing(acked, n, more, to)
    BY <1>2, <2>1, <2>2, <2>3, <2>4, <2>5 DEF Standing
  <2>7. n <= Len(acked) /\ \A k \in 1..n : clears[k] = acked[k]
    BY <1>1, <1>5, <2>1
  <2> QED
    BY <1>6, <2>6, <2>7 DEF Follows, n, more, acked
<1>7. CASE raw \notin Agents
  <2> HIDE DEF n, L, Q, more, acked
  <2>1. at \in [n + 1 .. L -> 1..Q + 1]
    BY <1>1, <1>4
  <2>2. \A i \in 1..Q + 1 :
          more[i] \in Agents <=> \E k \in n + 1 .. L : at[k] = i
    <3>1. more[Q + 1] \notin Agents /\ \A k \in n + 1 .. L : at[k] # Q + 1
      BY <1>1, <1>2, <1>4, <1>7
    <3>2. \A i \in 1..Q + 1 : i \in 1..Q \/ i = Q + 1
      BY <1>1
    <3> QED
      BY <1>2, <1>4, <3>1, <3>2
  <2>3. \A k \in n + 1 .. L : acks[k] = more[at[k]]
    BY <1>2, <1>4
  <2>4. Standing(acks, n, more, at)
    BY <1>2, <1>4, <2>1, <2>2, <2>3 DEF Standing, L
  <2> QED
    BY <1>1, <1>5, <1>7, <2>4 DEF Follows, n, L, more
<1> QED
  BY <1>6, <1>7

\* The frame that _handle_incoming takes is the first ACK the bridge was not
\* called for, or no ACK at all.
LEMMA FollowsHandling ==
  ASSUME NEW acks \in Seq(Agents), NEW clears \in Seq(Agents),
         NEW queue \in Seq(Agents \union Noise), queue # <<>>,
         Follows(acks, clears, queue)
  PROVE  Follows(acks,
                 IF Head(queue) \in Agents THEN Append(clears, Head(queue)) ELSE clears,
                 Tail(queue))
<1> DEFINE n == Len(clears)
           L == Len(acks)
           Q == Len(queue)
           rest == Tail(queue)
           cleareds == Append(clears, Head(queue))
<1>1. n \in Nat /\ L \in Nat /\ n <= L /\ Q \in Nat \ {0}
  BY EmptySeq DEF Follows
<1>2. Len(rest) = Q - 1 /\ \A i \in 1..Q - 1 : rest[i] = queue[i + 1]
  BY HeadTailProperties
<1>3. Head(queue) = queue[1]
  OBVIOUS
<1>4. PICK at : Standing(acks, n, queue, at)
  BY DEF Follows
<1>5. /\ at \in [n + 1 .. L -> 1..Q]
      /\ \A j, k \in n + 1 .. L : j < k => at[j] < at[k]
      /\ \A i \in 1..Q :
           queue[i] \in Agents <=> \E k \in n + 1 .. L : at[k] = i
      /\ \A k \in n + 1 .. L : acks[k] = queue[at[k]]
  BY <1>4 DEF Standing
<1>6. \A k \in 1..n : clears[k] = acks[k]
  BY DEF Follows
<1>7. CASE queue[1] \in Agents
  <2> DEFINE to == [k \in n + 2 .. L |-> at[k] - 1]
  <2>1. /\ Len(cleareds) = n + 1 /\ cleareds[n + 1] = queue[1]
        /\ \A k \in 1..n : cleareds[k] = clears[k]
    BY <1>3, <1>7, AppendProperties
  <2> HIDE DEF n, L, Q, rest, cleareds
  <2>2. n + 1 \in n + 1 .. L /\ at[n + 1] = 1
    <3>1. 1 \in 1..Q
      BY <1>1
    <3>2. PICK k \in n + 1 .. L : at[k] = 1
      BY <1>5, <1>7, <3>1
    <3>3. n + 1 \in n + 1 .. L /\ n + 1 <= k
      BY <1>1, <3>2
    <3>4. at[n + 1] \in 1..Q
      BY <1>5, <3>3
    <3>5. n + 1 < k => at[n + 1] < 1
      BY <1>5, <3>2, <3>3
    <3>6. ~(n + 1 < k)
      BY <1>1, <3>4, <3>5
    <3>7. k = n + 1
      BY <1>1, <3>3, <3>6
    <3> QED
      BY <3>2, <3>3, <3>7
  <2>3. \A k \in n + 2 .. L : /\ k \in n + 1 .. L /\ n + 1 < k
                              /\ at[k] \in 1..Q /\ 1 < at[k]
    BY <1>1, <1>5, <2>2
  <2>4. to \in [n + 1 + 1 .. L -> 1..Q - 1]
    BY <1>1, <2>3
  <2>5. \A j, k \in n + 1 + 1 .. L : j < k => to[j] < to[k]
    BY <1>1, <1>5, <2>3
  <2>6. \A i \in 1..Q - 1 :
          rest[i] \in Agents <=> \E k \in n + 1 + 1 .. L : to[k] = i
    <3> SUFFICES ASSUME NEW i \in 1..Q - 1
                 PROVE  rest[i] \in Agents <=> \E k \in n + 1 + 1 .. L : to[k] = i
      OBVIOUS
    <3>1. i + 1 \in 1..Q /\ rest[i] = queue[i + 1] /\ i + 1 # 1
      BY <1>1, <1>2
    <3>2. \A k \in n + 1 .. L : at[k] = i + 1 => k \in n + 2 .. L
      BY <1>1, <2>2, <3>1
    <3>3. \A k \in n + 2 .. L : to[k] = i <=> at[k] = i + 1
      BY <1>1, <2>3
    <3>4. n + 1 + 1 = n + 2
      BY <1>1
    <3> HIDE DEF to
    <3> QED
      BY <1>5, <2>3, <3>1, <3>2, <3>3, <3>4
  <2>7. \A k \in n + 1 + 1 .. L : acks[k] = rest[to[k]]
    <3>1. \A k \in n + 2 .. L : to[k] \in 1..Q - 1 /\ to[k] + 1 = at[k]
      BY <1>1, <2>3
    <3>2. \A k \in n + 2 .. L : acks[k] = queue[to[k] + 1]
      BY <1>5, <2>3, <3>1
    <3>3. n + 1 + 1 = n + 2
      BY <1>1
    <3> HIDE DEF to
    <3> QED
      BY <1>2, <3>1, <3>2, <3>3
  <2>8. Standing(acks, n + 1, rest, to)
    BY <1>2, <2>4, <2>5, <2>6, <2>7 DEF Standing, L
  <2>9. n + 1 <= L
    BY <1>1, <2>2
  <2>10. \A k \in 1..n + 1 : cleareds[k] = acks[k]
    BY <1>1, <1>5, <1>6, <2>1, <2>2
  <2>11. Follows(acks, cleareds, rest)
    BY <2>1, <2>8, <2>9, <2>10 DEF Follows, L
  <2> QED
    BY <1>3, <1>7, <2>11 DEF cleareds, rest
<1>8. CASE queue[1] \notin Agents
  <2> DEFINE to == [k \in n + 1 .. L |-> at[k] - 1]
  <2> HIDE DEF n, L, Q, rest, cleareds
  <2>1. \A k \in n + 1 .. L : at[k] \in 1..Q /\ 1 < at[k]
    BY <1>1, <1>5, <1>8
  <2>2. to \in [n + 1 .. L -> 1..Q - 1]
    BY <1>1, <2>1
  <2>3. \A j, k \in n + 1 .. L : j < k => to[j] < to[k]
    BY <1>1, <1>5, <2>1
  <2>4. \A i \in 1..Q - 1 :
          rest[i] \in Agents <=> \E k \in n + 1 .. L : to[k] = i
    <3> SUFFICES ASSUME NEW i \in 1..Q - 1
                 PROVE  rest[i] \in Agents <=> \E k \in n + 1 .. L : to[k] = i
      OBVIOUS
    <3>1. i + 1 \in 1..Q /\ rest[i] = queue[i + 1]
      BY <1>1, <1>2
    <3>2. \A k \in n + 1 .. L : to[k] = i <=> at[k] = i + 1
      <4>1. \A a \in 1..Q : a - 1 = i <=> a = i + 1
        BY <1>1
      <4> QED
        BY <2>1, <4>1
    <3> HIDE DEF to
    <3> QED
      BY <1>5, <3>1, <3>2
  <2>5. \A k \in n + 1 .. L : acks[k] = rest[to[k]]
    <3>1. \A k \in n + 1 .. L : to[k] \in 1..Q - 1 /\ to[k] + 1 = at[k]
      BY <1>1, <2>1
    <3>2. \A k \in n + 1 .. L : acks[k] = queue[to[k] + 1]
      BY <1>5, <3>1
    <3> HIDE DEF to
    <3> QED
      BY <1>2, <3>1, <3>2
  <2>6. Standing(acks, n, rest, to)
    BY <1>2, <2>2, <2>3, <2>4, <2>5 DEF Standing, L
  <2>7. Follows(acks, clears, rest)
    BY <1>1, <1>6, <2>6 DEF Follows, n, L
  <2> QED
    BY <1>3, <1>8, <2>7 DEF rest
<1> QED
  BY <1>7, <1>8

\* A process that has got nothing has cleared nothing.
LEMMA FollowsEmpty == Follows(<<>>, <<>>, <<>>)
<1>1. Len(<<>>) = 0
  BY Empty
<1>2. Standing(<<>>, 0, <<>>, [k \in {} |-> 0])
  BY <1>1 DEF Standing
<1> QED
  BY <1>1, <1>2 DEF Follows

\* Each step keeps the ACKs in their order.
LEMMA ClearsStep ==
  ASSUME TypeOK, ClearsFollowAcks, [Next]_vars PROVE ClearsFollowAcks'
<1>0. TypeOK'
  BY TypeStep
<1> SUFFICES ASSUME BridgeEnabled, Follows(ackLog, cleared, incoming)
             PROVE  Follows(ackLog', cleared', incoming')
  <2>1. (TypeOK => (ClearsFollowAcks <=>
                       (BridgeEnabled => Follows(ackLog, cleared, incoming))))'
    BY FollowsIsClears, PTL
  <2>2. ClearsFollowAcks' <=> (BridgeEnabled => Follows(ackLog', cleared', incoming'))
    BY <1>0, <2>1
  <2> QED
    BY <2>2, FollowsIsClears
<1>1. ASSUME NEW raw \in Agents \union Noise, OnNotify(raw)
      PROVE  Follows(ackLog', cleared', incoming')
  BY <1>1, FollowsArrival DEF OnNotify, TypeOK
<1>2. CASE HandleIncoming
  BY <1>2, FollowsHandling DEF HandleIncoming, Clear, TypeOK
<1>3. CASE Launch
  BY <1>3, FollowsEmpty DEF Launch
<1>4. CASE UNCHANGED <<ackLog, cleared, incoming>>
  BY <1>4
<1> QED
  BY <1>1, <1>2, <1>3, <1>4
  DEF Next, Accept, Forward, BleStep, Radio, Stop, vars, queueVars

\* The bridge is called for the ACKs the Flipper sends to this process, each
\* one once and in their order, whatever else arrives between them
\* (on_notify and _handle_incoming of daemon.py).
THEOREM ClearsInOrder == Spec => []ClearsFollowAcks
<1>1. Init => ClearsFollowAcks
  <2> SUFFICES ASSUME Init PROVE ClearsFollowAcks
    OBVIOUS
  <2>1. TypeOK
    BY InitIInv DEF IInv
  <2>2. Follows(ackLog, cleared, incoming)
    BY FollowsEmpty DEF Init
  <2> QED
    BY <2>1, <2>2, FollowsIsClears
<1>2. TypeOK /\ ClearsFollowAcks /\ [Next]_vars => ClearsFollowAcks'
  BY ClearsStep
<1> QED
  BY <1>1, <1>2, TypeCorrect, PTL DEF Spec

-----------------------------------------------------------------------------
(* The daemon implements the abstract latest-wins register.                *)

\* A daemon that has accepted nothing is an empty register.
LEMMA AbstractInit == Init => Abstract!Init
BY DEF Init, ClientInit, Abstract!Init, NoFrame

\* A step is one of the abstract register, or does not change it.
LEMMA AbstractStep ==
  ASSUME IInv, [Next]_vars PROVE [Abstract!Next]_(Abstract!vars)
<1> USE DEF IInv
<1>1. CASE Accept
  BY <1>1 DEF Accept, clientVars, Abstract!Accept, Abstract!Next
<1>2. CASE BleStep
  <2>1. UNCHANGED <<received, accepted>>
    BY <1>2 DEF BleStep, queueVars, ClientStep, ConnectOk, CachedConnectFails,
       ScanFinds, NoSession, SubscribeOk, SubscribeFails, FrameArrives,
       WriteOk, WriteFails, Disconnected, Wake
  <2>2. lost' = accepted \/ lost' = lost
    BY <1>2 DEF BleStep
  <2> QED
    BY <2>1, <2>2 DEF Abstract!Die, Abstract!Next, Abstract!vars
<1>3. CASE Radio
  <2>1. UNCHANGED <<accepted, lost>>
    BY <1>3 DEF Radio
  <2>2. CASE LinkDrop
    BY <2>1, <2>2 DEF LinkDrop, Abstract!vars
  <2>3. CASE Deliver
    <3>1. received' = frame /\ frame # NoFrame /\ Alive
      BY <2>3 DEF Deliver, WriteShape, Alive
    <3>2. /\ frame \in Nat /\ received \in Nat /\ accepted \in Nat
          /\ lost \in Nat
      BY DEF TypeOK
    <3>3. received <= frame /\ frame <= Forwarded /\ lost < frame
      BY <3>1 DEF PipelineOrder, Held
    <3>4. frame \in 1..accepted
      BY <3>2, <3>3, ForwardedType
    <3>5. CASE received = frame
      BY <3>1, <3>5, <2>1 DEF Abstract!vars
    <3>6. CASE received # frame
      <4>1. frame > received /\ frame > lost
        BY <3>2, <3>3, <3>6
      <4>2. Abstract!Deliver
        BY <3>1, <3>4, <4>1, <2>1 DEF Abstract!Deliver
      <4> QED
        BY <4>2 DEF Abstract!Next
    <3> QED
      BY <3>5, <3>6
  <2> QED
    BY <1>3, <2>2, <2>3 DEF Radio, RadioStep
<1>4. CASE Stop
  BY <1>4 DEF Stop, Abstract!Die, Abstract!Next
<1>5. CASE UNCHANGED <<accepted, received, lost>>
  BY <1>5 DEF Abstract!vars
<1> QED
  BY <1>1, <1>2, <1>3, <1>4, <1>5
  DEF Next, Forward, OnNotify, HandleIncoming, Launch, ClientRestart, vars,
      clientVars

\* What reaches the Flipper over the whole life of the daemon, restarts
\* included, is what a latest-wins register may deliver: never an older
\* notification after a newer one, never one of a process that has ended.
THEOREM Implements == Spec => ImplementsLatestWins
<1>1. Init => Abstract!Init
  BY AbstractInit
<1>2. IInv /\ [Next]_vars => [Abstract!Next]_(Abstract!vars)
  BY AbstractStep
<1> QED
  BY <1>1, <1>2, Inductive, PTL DEF Spec, ImplementsLatestWins, Abstract!Spec
=============================================================================
