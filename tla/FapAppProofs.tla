---------------------------- MODULE FapAppProofs ----------------------------
(***************************************************************************)
(* Proofs about FapApp, for all agents, queue lengths and numbers of       *)
(* frames and keys: the inductive invariant AppInv, the properties of      *)
(* screen and LED, and the refinement of LatestWins.                       *)
(***************************************************************************)
EXTENDS FapApp, SequenceTheorems, TLAPS

\* What a slot of frame_queue may hold.
Frames == Notifications \union {OtherFrame}

\* A notification says what it is, and OtherFrame is none of them.
LEMMA NotificationFields ==
  ASSUME NEW f \in Frames, f # OtherFrame
  PROVE  f \in Notifications /\ f.n \in Nat
BY DEF Frames, Notifications

\* The empty sequences of Init and of a dismissal.
LEMMA Empty ==
  /\ <<>> \in Seq(Frames)
  /\ <<>> \in Seq(KeyEvents)
  /\ <<>> \in Seq(Notifications)
  /\ <<>> \in Seq(Dismissals)
  /\ Len(<<>>) = 0
BY EmptySeq

\* A sequence of one notification.
LEMMA One ==
  ASSUME NEW f \in Notifications
  PROVE  <<f>> \in Seq(Notifications) /\ Len(<<f>>) = 1 /\ <<f>> # <<>> /\ <<f>>[1] = f
BY DEF Notifications

\* A queue from which something is taken, and one to which something is put.
LEMMA Taken ==
  ASSUME NEW S, NEW queue \in Seq(S), queue # <<>>, NEW n \in Nat, Len(queue) <= n
  PROVE  Head(queue) \in S /\ Tail(queue) \in Seq(S) /\ Len(Tail(queue)) <= n
<1>1. Len(queue) \in Nat /\ Len(Tail(queue)) = Len(queue) - 1
  BY HeadTailProperties, LenProperties
<1> QED
  BY <1>1, HeadTailProperties

LEMMA Put ==
  ASSUME NEW S, NEW queue \in Seq(S), NEW e \in S, NEW n \in Nat, Len(queue) < n
  PROVE  Append(queue, e) \in Seq(S) /\ Len(Append(queue, e)) <= n
<1>1. Len(queue) \in Nat /\ Len(Append(queue, e)) = Len(queue) + 1
  BY AppendProperties, LenProperties
<1> QED
  BY <1>1, AppendProperties

-----------------------------------------------------------------------------
(* Types.                                                                  *)

LEMMA InitType == Init => TypeOK
<1> SUFFICES ASSUME Init PROVE TypeOK
  OBVIOUS
<1>1. redraw \in BOOLEAN
  BY DEF Init
<1> QED
  BY <1>1, Empty, FapAssumption DEF Init, TypeOK, Frames, FapAssumption

\* The queues: what the other threads put in fits, what is taken out leaves
\* the rest.
LEMMA QueueTypes ==
  ASSUME TypeOK, [Next]_vars
  PROVE  /\ frame_queue' \in Seq(Frames) /\ Len(frame_queue') <= FAI_QUEUE_LEN
         /\ input_queue' \in Seq(KeyEvents) /\ Len(input_queue') <= FAI_QUEUE_LEN
<1>1. /\ frame_queue \in Seq(Frames) /\ Len(frame_queue) <= FAI_QUEUE_LEN
      /\ input_queue \in Seq(KeyEvents) /\ Len(input_queue) <= FAI_QUEUE_LEN
      /\ FAI_QUEUE_LEN \in Nat
      /\ screen \in Seq(Notifications)
      /\ arrived \in Nat
  BY FapAssumption DEF TypeOK, Frames, FapAssumption
<1>2. ASSUME NEW agent \in Agents, NEW state \in FaiStates, FrameArrives(agent, state)
      PROVE  /\ frame_queue' \in Seq(Frames) /\ Len(frame_queue') <= FAI_QUEUE_LEN
             /\ input_queue' = input_queue
  <2>1. [n |-> arrived + 1, agent |-> agent, state |-> state] \in Frames
    BY <1>1 DEF Frames, Notifications
  <2> QED
    BY <1>1, <1>2, <2>1, Put DEF FrameArrives
<1>3. CASE OtherFrameArrives
  <2>1. OtherFrame \in Frames
    BY DEF Frames
  <2> QED
    BY <1>1, <1>3, <2>1, Put DEF OtherFrameArrives
<1>4. ASSUME NEW key \in Keys, KeyEvent(key)
      PROVE  /\ input_queue' \in Seq(KeyEvents) /\ Len(input_queue') <= FAI_QUEUE_LEN
             /\ frame_queue' = frame_queue
  <2>1. [key |-> key, seen |-> screen] \in KeyEvents
    BY <1>1 DEF KeyEvents
  <2> QED
    BY <1>1, <1>4, <2>1, Put DEF KeyEvent
<1>5. CASE HandleFrame \/ HandleOther
  BY <1>1, <1>5, Taken DEF HandleFrame, HandleOther
<1>6. CASE IgnoreInput \/ Dismiss \/ Back
  BY <1>1, <1>6, Taken DEF IgnoreInput, Dismiss, Back
<1>7. CASE Exit
  BY <1>1, <1>7, Empty DEF Exit
<1>8. CASE UNCHANGED <<frame_queue, input_queue>>
  BY <1>1, <1>8
<1> QED
  BY <1>1, <1>2, <1>3, <1>4, <1>5, <1>6, <1>7, <1>8
  DEF Next, AppStep, Draw, EffectsApplied, NoFrame, NoInput, SendAck, vars

\* The current notification and the dismissals.
LEMMA CurrentTypes ==
  ASSUME TypeOK, [Next]_vars
  PROVE  /\ ui' \in Seq(Notifications) /\ Len(ui') <= 1
         /\ screen' \in Seq(Notifications) /\ Len(screen') <= 1
         /\ handled' \in Nat
         /\ acks' \in Seq(Dismissals)
<1>1. /\ ui \in Seq(Notifications) /\ Len(ui) <= 1
      /\ screen \in Seq(Notifications) /\ Len(screen) <= 1
      /\ handled \in Nat
      /\ acks \in Seq(Dismissals)
      /\ frame_queue \in Seq(Frames)
      /\ input_queue \in Seq(KeyEvents)
  BY DEF TypeOK, Frames
<1>2. CASE HandleFrame
  <2>1. Head(frame_queue) \in Frames
    BY <1>1, <1>2, HeadTailProperties DEF HandleFrame
  <2>2. Head(frame_queue) \in Notifications /\ Head(frame_queue).n \in Nat
    BY <1>2, <2>1, NotificationFields DEF HandleFrame
  <2> QED
    BY <1>1, <1>2, <2>2, One DEF HandleFrame
<1>3. CASE Dismiss
  <2>1. Head(input_queue) \in KeyEvents
    BY <1>1, <1>3, HeadTailProperties DEF Dismiss
  <2>2. [dismissed |-> ui, seen |-> Head(input_queue).seen] \in Dismissals
    BY <1>1, <2>1 DEF KeyEvents, Dismissals
  <2> QED
    BY <1>1, <1>3, <2>2, AppendProperties, Empty DEF Dismiss
<1>4. CASE Draw
  BY <1>1, <1>4 DEF Draw
<1>5. CASE UNCHANGED <<ui, screen, handled, acks>>
  BY <1>1, <1>5
<1> QED
  BY <1>2, <1>3, <1>4, <1>5
  DEF Next, AppStep, FrameArrives, OtherFrameArrives, KeyEvent, HandleOther,
      EffectsApplied, NoFrame, NoInput, IgnoreInput, SendAck, Back, Exit, vars

\* The flag, apart from arithmetic.
LEMMA RedrawType ==
  ASSUME redraw \in BOOLEAN, [Next]_vars PROVE redraw' \in BOOLEAN
BY DEF Next, AppStep, FrameArrives, OtherFrameArrives, KeyEvent, Draw,
   HandleFrame, HandleOther, EffectsApplied, NoFrame, NoInput, IgnoreInput,
   Dismiss, SendAck, Back, Exit, vars

\* The LED shows the colour of an agent, or none.
LEMMA LedType ==
  ASSUME TypeOK, [Next]_vars PROVE led' \in Agents \union {"off"}
<1>1. led \in Agents \union {"off"} /\ SolidAgents \subseteq Agents
  BY FapAssumption DEF TypeOK, FapAssumption
<1>2. CASE EffectsApplied
  BY <1>1, <1>2 DEF EffectsApplied, effects_apply, LedAfter
<1>3. CASE SendAck \/ Exit
  BY <1>3 DEF SendAck, Exit, effects_clear
<1>4. CASE UNCHANGED led
  BY <1>1, <1>4
<1> QED
  BY <1>2, <1>3, <1>4
  DEF Next, AppStep, FrameArrives, OtherFrameArrives, KeyEvent, Draw,
      HandleFrame, HandleOther, NoFrame, NoInput, IgnoreInput, Dismiss, Back,
      vars

LEMMA TypeStep ==
  ASSUME TypeOK, [Next]_vars PROVE TypeOK'
<1>1. pc' \in {"frame", "effects", "input", "ack", "exit", "gone"}
  BY DEF TypeOK, Next, AppStep, FrameArrives, OtherFrameArrives, KeyEvent,
     Draw, HandleFrame, HandleOther, EffectsApplied, NoFrame, NoInput,
     IgnoreInput, Dismiss, SendAck, Back, Exit, vars
<1>2. arrived' \in Nat
  <2>1. arrived' = arrived + 1 \/ arrived' = arrived
    BY DEF Next, AppStep, FrameArrives, OtherFrameArrives, KeyEvent, Draw,
       HandleFrame, HandleOther, EffectsApplied, NoFrame, NoInput,
       IgnoreInput, Dismiss, SendAck, Back, Exit, vars
  <2> QED
    BY <2>1 DEF TypeOK
<1>3. redraw' \in BOOLEAN
  BY RedrawType DEF TypeOK
<1> QED
  BY <1>1, <1>2, <1>3, QueueTypes, CurrentTypes, LedType DEF TypeOK, Frames

\* The types hold in every reachable state; a queue never holds more than its
\* slots (message_queue_alloc of flipper_agent_indicator.c).
THEOREM AppTypeCorrect == Spec => []TypeOK
<1>1. TypeOK /\ [Next]_vars => TypeOK'
  BY TypeStep
<1> QED
  BY <1>1, InitType, PTL DEF Spec

-----------------------------------------------------------------------------
(* Screen and LED.                                                         *)

\* Every step of the loop that changes what is current, and the dismissal,
\* ends with a redraw: the screen is never left with what it showed before
\* (fai_handle_frame, fai_handle_input).
THEOREM ScreenStaysFresh == Spec => []ScreenFresh
<1>1. Init => ScreenFresh
  BY DEF Init, ScreenFresh
<1>2. ScreenFresh /\ [Next]_vars => ScreenFresh'
  BY DEF ScreenFresh, Next, AppStep, FrameArrives, OtherFrameArrives, KeyEvent,
     Draw, HandleFrame, HandleOther, EffectsApplied, NoFrame, NoInput,
     IgnoreInput, Dismiss, SendAck, Back, Exit, vars
<1> QED
  BY <1>1, <1>2, PTL DEF Spec

\* The LED is dark, and effects_apply runs for a notification only.
DarkInv ==
  /\ DarkWhenIdle
  /\ pc = "effects" => ui # <<>>

\* A notification that is gone, by OK or with the application, leaves no LED
\* lit (effects_clear, effects_deinit).
THEOREM StaysDark == Spec => []DarkWhenIdle
<1>1. Init => DarkInv
  BY DEF Init, DarkInv, DarkWhenIdle
<1>2. DarkInv /\ [Next]_vars => DarkInv'
  <2> SUFFICES ASSUME DarkInv, [Next]_vars PROVE DarkInv'
    OBVIOUS
  <2> USE DEF DarkInv, DarkWhenIdle
  <2>1. CASE HandleFrame
    BY <2>1 DEF HandleFrame
  <2>2. CASE EffectsApplied \/ SendAck \/ Exit \/ Dismiss
    BY <2>2 DEF EffectsApplied, SendAck, effects_clear, Exit, Dismiss
  <2>3. CASE UNCHANGED <<pc, ui, led>>
    BY <2>3
  <2>4. CASE HandleOther \/ NoFrame \/ NoInput \/ IgnoreInput \/ Back
    BY <2>4 DEF HandleOther, NoFrame, NoInput, IgnoreInput, Back
  <2> QED
    BY <2>1, <2>2, <2>3, <2>4
    DEF Next, AppStep, FrameArrives, OtherFrameArrives, KeyEvent, Draw, vars
<1>3. DarkInv => DarkWhenIdle
  BY DEF DarkInv
<1> QED
  BY <1>1, <1>2, <1>3, PTL DEF Spec

-----------------------------------------------------------------------------
(* Order.                                                                  *)

LEMMA InitInv == Init => AppInv
<1> SUFFICES ASSUME Init PROVE AppInv
  OBVIOUS
<1>1. QueueInOrder /\ CurrentIsNewest /\ AcksInOrder
  BY Empty DEF Init, QueueInOrder, CurrentIsNewest, AcksInOrder
<1> QED
  BY <1>1, InitType DEF AppInv

\* A step that moves no notification keeps their order.
LEMMA SameOrder ==
  ASSUME AppInv, UNCHANGED <<frame_queue, ui, handled, arrived, acks>>,
         pc' = "effects" => pc = "effects"
  PROVE  QueueInOrder' /\ CurrentIsNewest' /\ AcksInOrder'
BY DEF AppInv, QueueInOrder, CurrentIsNewest, AcksInOrder

\* A dismissal is of one notification.
LEMMA DismissedOne ==
  ASSUME AppInv, NEW k \in 1..Len(acks)
  PROVE  Len(acks[k].dismissed) = 1 /\ acks[k].dismissed[1].n \in Nat
<1>1. acks[k] \in Dismissals
  BY ElementOfSeq DEF AppInv, TypeOK
<1>2. acks[k].dismissed \in Seq(Notifications) /\ Len(acks[k].dismissed) = 1
  BY <1>1 DEF Dismissals, AppInv, AcksInOrder
<1>3. 1 \in 1..Len(acks[k].dismissed)
  BY <1>2
<1>4. acks[k].dismissed[1] \in Notifications
  BY <1>2, <1>3, ElementOfSeq
<1> QED
  BY <1>2, <1>4 DEF Notifications

\* A frame that arrives is newer than all before.
LEMMA ArrivalOrder ==
  ASSUME AppInv, NEW agent \in Agents, NEW state \in FaiStates,
         FrameArrives(agent, state)
  PROVE  QueueInOrder' /\ CurrentIsNewest' /\ AcksInOrder'
<1> DEFINE new == [n |-> arrived + 1, agent |-> agent, state |-> state]
<1>1. /\ frame_queue \in Seq(Frames)
      /\ Len(frame_queue) \in Nat
      /\ arrived \in Nat /\ handled \in Nat
      /\ handled <= arrived
      /\ \A i \in 1..Len(frame_queue) : frame_queue[i] \in Frames
  BY LenProperties, ElementOfSeq DEF AppInv, TypeOK, CurrentIsNewest, Frames
<1>2. /\ arrived' = arrived + 1
      /\ UNCHANGED <<pc, ui, handled, acks>>
      /\ frame_queue' = Append(frame_queue, new) \/ frame_queue' = frame_queue
  BY DEF FrameArrives
<1>3. CurrentIsNewest' /\ AcksInOrder'
  BY <1>1, <1>2 DEF AppInv, CurrentIsNewest, AcksInOrder
<1>4. ASSUME NEW i \in 1..Len(frame_queue), frame_queue[i] # OtherFrame
      PROVE  /\ handled < frame_queue[i].n
             /\ frame_queue[i].n < arrived + 1 /\ frame_queue[i].n <= arrived + 1
             /\ \A j \in 1..(i - 1) :
                  frame_queue[j] # OtherFrame => frame_queue[j].n < frame_queue[i].n
  <2>1. frame_queue[i].n \in Nat
    BY <1>1, <1>4, NotificationFields
  <2>2. handled < frame_queue[i].n /\ frame_queue[i].n <= arrived
    BY <1>4 DEF AppInv, QueueInOrder
  <2> QED
    BY <1>1, <1>4, <2>1, <2>2 DEF AppInv, QueueInOrder
<1>5. CASE frame_queue' = frame_queue
  <2> SUFFICES ASSUME NEW i \in 1..Len(frame_queue), frame_queue[i] # OtherFrame
               PROVE  /\ handled < frame_queue[i].n
                      /\ frame_queue[i].n <= arrived + 1
                      /\ \A j \in 1..(i - 1) :
                           frame_queue[j] # OtherFrame =>
                             frame_queue[j].n < frame_queue[i].n
    BY <1>2, <1>3, <1>5 DEF QueueInOrder
  <2> QED
    BY <1>4
<1>6. CASE frame_queue' = Append(frame_queue, new)
  <2>1. new \in Frames /\ new.n = arrived + 1
    BY <1>1 DEF Frames, Notifications
  <2>2. /\ Len(frame_queue') = Len(frame_queue) + 1
        /\ \A i \in 1..Len(frame_queue) : frame_queue'[i] = frame_queue[i]
        /\ frame_queue'[Len(frame_queue) + 1] = new
    BY <1>1, <1>6, <2>1, AppendProperties
  <2> HIDE DEF new
  <2> SUFFICES ASSUME NEW i \in 1..Len(frame_queue'), frame_queue'[i] # OtherFrame
               PROVE  /\ handled < frame_queue'[i].n
                      /\ frame_queue'[i].n <= arrived + 1
                      /\ \A j \in 1..(i - 1) :
                           frame_queue'[j] # OtherFrame =>
                             frame_queue'[j].n < frame_queue'[i].n
    BY <1>2, <1>3 DEF QueueInOrder
  <2>3. \A j \in 1..(i - 1) :
          j \in 1..Len(frame_queue) /\ frame_queue'[j] = frame_queue[j]
    BY <1>1, <2>2
  <2>4. CASE i \in 1..Len(frame_queue)
    <3>1. frame_queue'[i] = frame_queue[i]
      BY <2>2, <2>4
    <3> QED
      BY <1>4, <2>3, <2>4, <3>1
  <2>5. CASE i = Len(frame_queue) + 1
    <3>1. frame_queue'[i].n = arrived + 1
      BY <2>1, <2>2, <2>5
    <3>2. handled < arrived + 1
      BY <1>1
    <3> QED
      BY <1>1, <1>4, <2>3, <3>1, <3>2
  <2> QED
    BY <1>1, <2>2, <2>4, <2>5
<1> QED
  BY <1>2, <1>5, <1>6

\* Taking a frame leaves newer ones, and makes it the current one if it is a
\* notification.
LEMMA TakeOrder ==
  ASSUME AppInv, HandleFrame \/ HandleOther
  PROVE  QueueInOrder' /\ CurrentIsNewest' /\ AcksInOrder'
<1>1. /\ frame_queue \in Seq(Frames) /\ frame_queue # <<>>
      /\ Len(frame_queue) \in Nat
      /\ arrived \in Nat /\ handled \in Nat
      /\ \A i \in 1..Len(frame_queue) : frame_queue[i] \in Frames
      /\ ui \in Seq(Notifications)
  BY LenProperties, ElementOfSeq
  DEF AppInv, TypeOK, Frames, HandleFrame, HandleOther
<1>2. /\ Head(frame_queue) = frame_queue[1] /\ 1 \in 1..Len(frame_queue)
      /\ Len(Tail(frame_queue)) = Len(frame_queue) - 1
      /\ \A i \in 1..Len(Tail(frame_queue)) :
           Tail(frame_queue)[i] = frame_queue[i + 1]
  BY <1>1, HeadTailProperties, EmptySeq, LenProperties
<1>3. /\ frame_queue' = Tail(frame_queue)
      /\ UNCHANGED <<arrived, acks>>
  BY DEF HandleFrame, HandleOther
<1>4. \A i \in 1..Len(frame_queue) :
        frame_queue[i] # OtherFrame =>
          /\ handled < frame_queue[i].n /\ frame_queue[i].n <= arrived
          /\ frame_queue[i].n \in Nat
          /\ \A j \in 1..(i - 1) :
               frame_queue[j] # OtherFrame => frame_queue[j].n < frame_queue[i].n
  BY <1>1, NotificationFields DEF AppInv, QueueInOrder
<1>5. \A i \in 1..Len(frame_queue') :
        frame_queue'[i] = frame_queue[i + 1] /\ i + 1 \in 1..Len(frame_queue)
  BY <1>1, <1>2, <1>3
<1>6. CASE HandleFrame
  <2>1. /\ frame_queue[1] # OtherFrame
        /\ handled' = frame_queue[1].n
        /\ ui' = <<frame_queue[1]>>
        /\ frame_queue[1] \in Notifications
    BY <1>1, <1>2, <1>6, NotificationFields DEF HandleFrame
  <2>2. handled < handled' /\ handled' <= arrived /\ handled' \in Nat
    BY <1>2, <1>4, <2>1
  <2>3. ui' # <<>> /\ ui'[1].n = handled'
    BY <2>1, One
  <2>4. QueueInOrder'
    <3> SUFFICES ASSUME NEW i \in 1..Len(frame_queue'), frame_queue'[i] # OtherFrame
                 PROVE  /\ handled' < frame_queue'[i].n
                        /\ frame_queue'[i].n <= arrived'
                        /\ \A j \in 1..(i - 1) :
                             frame_queue'[j] # OtherFrame =>
                               frame_queue'[j].n < frame_queue'[i].n
      BY DEF QueueInOrder
    <3>1. /\ frame_queue[i + 1].n <= arrived
          /\ frame_queue[i + 1].n \in Nat
          /\ \A j \in 1..i :
               frame_queue[j] # OtherFrame =>
                 frame_queue[j].n < frame_queue[i + 1].n
      BY <1>4, <1>5
    <3>2. \A j \in 1..(i - 1) : j \in 1..Len(frame_queue') /\ j + 1 \in 1..i
      BY <1>1, <1>2, <1>3
    <3> QED
      BY <1>1, <1>3, <1>5, <2>1, <3>1, <3>2
  <2>5. CurrentIsNewest'
    BY <1>3, <2>2, <2>3 DEF CurrentIsNewest
  <2>6. AcksInOrder'
    <3> SUFFICES ASSUME NEW k \in 1..Len(acks)
                 PROVE  /\ Len(acks[k].dismissed) = 1
                        /\ acks[k].dismissed[1].n < handled'
                        /\ acks[k].dismissed[1].n <= handled'
                        /\ \A l \in 1..(k - 1) :
                             acks[l].dismissed[1].n < acks[k].dismissed[1].n
      BY <1>3 DEF AcksInOrder
    <3>1. Len(acks[k].dismissed) = 1
      BY DismissedOne
    <3>2. acks[k].dismissed[1].n \in Nat
      BY DismissedOne
    <3>3. acks[k].dismissed[1].n <= handled
      BY DEF AppInv, AcksInOrder
    <3> QED
      BY <1>1, <2>2, <3>1, <3>2, <3>3 DEF AppInv, AcksInOrder
  <2> QED
    BY <2>4, <2>5, <2>6
<1>7. CASE HandleOther
  <2>1. UNCHANGED <<ui, handled>> /\ pc' = "input"
    BY <1>7 DEF HandleOther
  <2>2. QueueInOrder'
    <3> SUFFICES ASSUME NEW i \in 1..Len(frame_queue'), frame_queue'[i] # OtherFrame
                 PROVE  /\ handled < frame_queue'[i].n
                        /\ frame_queue'[i].n <= arrived
                        /\ \A j \in 1..(i - 1) :
                             frame_queue'[j] # OtherFrame =>
                               frame_queue'[j].n < frame_queue'[i].n
      BY <1>3, <2>1 DEF QueueInOrder
    <3>1. /\ handled < frame_queue[i + 1].n
          /\ frame_queue[i + 1].n <= arrived
          /\ \A j \in 1..i :
               frame_queue[j] # OtherFrame =>
                 frame_queue[j].n < frame_queue[i + 1].n
      BY <1>4, <1>5
    <3>2. \A j \in 1..(i - 1) : j \in 1..Len(frame_queue') /\ j + 1 \in 1..i
      BY <1>1, <1>2, <1>3
    <3> QED
      BY <1>1, <1>5, <3>1, <3>2
  <2> QED
    BY <1>3, <2>1, <2>2 DEF AppInv, CurrentIsNewest, AcksInOrder
<1> QED
  BY <1>6, <1>7

\* What a dismissal finds.
LEMMA CurrentOne ==
  ASSUME AppInv, ui # <<>>
  PROVE  /\ Len(ui) = 1 /\ ui[1].n = handled
         /\ ui \in Seq(Notifications)
         /\ handled \in Nat
         /\ acks \in Seq(Dismissals) /\ Len(acks) \in Nat
<1>1. /\ ui \in Seq(Notifications) /\ Len(ui) <= 1
      /\ handled \in Nat
      /\ acks \in Seq(Dismissals)
  BY DEF AppInv, TypeOK
<1>2. Len(ui) \in Nat /\ Len(ui) # 0 /\ Len(acks) \in Nat
  BY <1>1, EmptySeq, LenProperties
<1>3. ui[1].n = handled
  BY DEF AppInv, CurrentIsNewest
<1>4. \A n \in Nat : n # 0 /\ n <= 1 => n = 1
  OBVIOUS
<1>5. Len(ui) = 1
  BY <1>1, <1>2, <1>4
<1> QED
  BY <1>1, <1>2, <1>3, <1>5

\* What is dismissed was current, and newer than what was dismissed before.
LEMMA DismissOrder ==
  ASSUME AppInv, Dismiss
  PROVE  QueueInOrder' /\ CurrentIsNewest' /\ AcksInOrder'
<1> DEFINE ack == [dismissed |-> ui, seen |-> Head(input_queue).seen]
<1>1. /\ UNCHANGED <<frame_queue, handled, arrived>>
      /\ ui' = <<>> /\ ui # <<>> /\ pc' = "ack"
      /\ acks' = Append(acks, ack)
  BY DEF Dismiss
<1>2. QueueInOrder' /\ CurrentIsNewest'
  BY <1>1 DEF AppInv, QueueInOrder, CurrentIsNewest
<1>3. /\ Len(ui) = 1 /\ ui[1].n = handled
      /\ ui \in Seq(Notifications)
      /\ handled \in Nat
      /\ acks \in Seq(Dismissals) /\ Len(acks) \in Nat
  BY <1>1, CurrentOne
<1>4. /\ Len(acks') = Len(acks) + 1
      /\ \A k \in 1..Len(acks) : acks'[k] = acks[k]
      /\ acks'[Len(acks) + 1] = ack
  <2>1. Head(input_queue) \in KeyEvents
    BY HeadTailProperties DEF AppInv, TypeOK, Dismiss
  <2>2. ack \in Dismissals
    BY <1>3, <2>1 DEF Dismissals, KeyEvents
  <2> HIDE DEF ack
  <2> QED
    BY <1>1, <1>3, <2>2, AppendProperties
<1>5. ack.dismissed = ui
  OBVIOUS
<1> HIDE DEF ack
<1>6. AcksInOrder'
  <2> SUFFICES ASSUME NEW k \in 1..Len(acks')
               PROVE  /\ Len(acks'[k].dismissed) = 1
                      /\ acks'[k].dismissed[1].n <= handled
                      /\ \A l \in 1..(k - 1) :
                           acks'[l].dismissed[1].n < acks'[k].dismissed[1].n
    BY <1>1 DEF AcksInOrder
  <2>1. CASE k \in 1..Len(acks)
    <3>1. \A l \in 1..(k - 1) : acks'[l] = acks[l]
      BY <1>3, <1>4, <2>1
    <3> QED
      BY <1>4, <2>1, <3>1 DEF AppInv, AcksInOrder
  <2>2. CASE k = Len(acks) + 1
    <3>1. \A l \in 1..(k - 1) : l \in 1..Len(acks) /\ acks'[l] = acks[l]
      BY <1>3, <1>4, <2>2
    <3>2. \A l \in 1..Len(acks) : acks[l].dismissed[1].n < handled
      BY <1>1 DEF AppInv, AcksInOrder
    <3> QED
      BY <1>3, <1>4, <1>5, <2>2, <3>1, <3>2
  <2> QED
    BY <1>3, <1>4, <2>1, <2>2
<1> QED
  BY <1>2, <1>6

\* A foreign frame has no number, and the end empties the queue.
LEMMA OtherOrder ==
  ASSUME AppInv, OtherFrameArrives \/ Exit
  PROVE  QueueInOrder' /\ CurrentIsNewest' /\ AcksInOrder'
<1>1. UNCHANGED <<ui, handled, arrived, acks>> /\ (pc' = "effects" => pc = "effects")
  BY DEF OtherFrameArrives, Exit
<1>2. CurrentIsNewest' /\ AcksInOrder'
  BY <1>1 DEF AppInv, CurrentIsNewest, AcksInOrder
<1>3. CASE Exit
  <2>1. Len(frame_queue') = 0
    BY <1>3, Empty DEF Exit
  <2> QED
    BY <1>2, <2>1 DEF QueueInOrder
<1>4. CASE OtherFrameArrives
  <2>1. frame_queue \in Seq(Frames) /\ OtherFrame \in Frames /\ Len(frame_queue) \in Nat
    BY LenProperties DEF AppInv, TypeOK, Frames
  <2>2. /\ Len(frame_queue') = Len(frame_queue) + 1
        /\ \A i \in 1..Len(frame_queue) : frame_queue'[i] = frame_queue[i]
        /\ frame_queue'[Len(frame_queue) + 1] = OtherFrame
    BY <1>4, <2>1, AppendProperties DEF OtherFrameArrives
  <2> SUFFICES ASSUME NEW i \in 1..Len(frame_queue'), frame_queue'[i] # OtherFrame
               PROVE  /\ handled < frame_queue'[i].n /\ frame_queue'[i].n <= arrived
                      /\ \A j \in 1..(i - 1) :
                           frame_queue'[j] # OtherFrame =>
                             frame_queue'[j].n < frame_queue'[i].n
    BY <1>1, <1>2 DEF QueueInOrder
  <2>3. i \in 1..Len(frame_queue) /\ \A j \in 1..(i - 1) : j \in 1..Len(frame_queue)
    BY <2>1, <2>2
  <2> QED
    BY <2>2, <2>3 DEF AppInv, QueueInOrder
<1> QED
  BY <1>2, <1>3, <1>4

\* Notifications are handled and dismissed in the order of their arrival.
THEOREM AppInductive == Spec => []AppInv
<1>1. AppInv /\ [Next]_vars => AppInv'
  <2> SUFFICES ASSUME AppInv, [Next]_vars PROVE AppInv'
    OBVIOUS
  <2>1. TypeOK'
    BY TypeStep DEF AppInv
  <2>2. QueueInOrder' /\ CurrentIsNewest' /\ AcksInOrder'
    <3>1. CASE UNCHANGED <<frame_queue, ui, handled, arrived, acks>>
               /\ (pc' = "effects" => pc = "effects")
      BY <3>1, SameOrder
    <3> QED
      BY <3>1, ArrivalOrder, TakeOrder, DismissOrder, OtherOrder
      DEF Next, AppStep, KeyEvent, Draw, EffectsApplied, NoFrame, NoInput,
          IgnoreInput, SendAck, Back, vars
  <2> QED
    BY <2>1, <2>2 DEF AppInv
<1> QED
  BY <1>1, InitInv, PTL DEF Spec

\* However OK presses and frames interleave, the host gets at most one ACK
\* for a notification (fai_handle_input).
THEOREM AckedAtMostOnce == Spec => []AckedOnce
<1>1. AppInv => AckedOnce
  <2> SUFFICES ASSUME AppInv, NEW i \in DOMAIN acks, NEW j \in DOMAIN acks,
                      acks[i].dismissed = acks[j].dismissed
               PROVE  i = j
    BY DEF AckedOnce
  <2>1. /\ acks \in Seq(Dismissals)
        /\ i \in 1..Len(acks) /\ j \in 1..Len(acks) /\ Len(acks) \in Nat
    BY LenProperties DEF AppInv, TypeOK
  <2>2. \A k \in 1..Len(acks) : acks[k].dismissed[1].n \in Nat
    BY DismissedOne
  <2>3. i < j => acks[i].dismissed[1].n < acks[j].dismissed[1].n
    BY <2>1 DEF AppInv, AcksInOrder
  <2>4. j < i => acks[j].dismissed[1].n < acks[i].dismissed[1].n
    BY <2>1 DEF AppInv, AcksInOrder
  <2> QED
    BY <2>1, <2>2, <2>3, <2>4
<1> QED
  BY <1>1, AppInductive, PTL

-----------------------------------------------------------------------------
(* The application implements the abstract latest-wins register.           *)

\* A step of the application is one of the register, or does not change it.
LEMMA DisplayStep ==
  ASSUME AppInv, [Next]_vars PROVE [Display!Next]_(Display!vars)
<1>1. ASSUME NEW agent \in Agents, NEW state \in FaiStates, FrameArrives(agent, state)
      PROVE  Display!Next
  BY <1>1 DEF FrameArrives, Display!Next, Display!Accept
<1>2. CASE HandleFrame
  <2>1. frame_queue \in Seq(Frames) /\ frame_queue # <<>>
    BY <1>2 DEF AppInv, TypeOK, Frames, HandleFrame
  <2>2. /\ Head(frame_queue) = frame_queue[1] /\ 1 \in 1..Len(frame_queue)
        /\ frame_queue[1] \in Frames
    BY <2>1, EmptySeq, LenProperties, ElementOfSeq
  <2>3. /\ frame_queue[1].n \in Nat
        /\ handled < frame_queue[1].n /\ frame_queue[1].n <= arrived
    BY <1>2, <2>2, NotificationFields DEF AppInv, QueueInOrder, HandleFrame
  <2>4. handled' = frame_queue[1].n /\ arrived' = arrived
    BY <1>2, <2>2 DEF HandleFrame
  <2>5. arrived \in Nat /\ handled \in Nat
    BY DEF AppInv, TypeOK
  <2>6. frame_queue[1].n \in 1..arrived /\ frame_queue[1].n > 0
    BY <2>3, <2>5
  <2>7. Display!Deliver
    BY <2>3, <2>4, <2>5, <2>6 DEF Display!Deliver
  <2> QED
    BY <2>7 DEF Display!Next
<1>3. CASE UNCHANGED <<arrived, handled>>
  BY <1>3 DEF Display!vars
<1> QED
  BY <1>1, <1>2, <1>3
  DEF Next, AppStep, OtherFrameArrives, KeyEvent, Draw, HandleOther,
      EffectsApplied, NoFrame, NoInput, IgnoreInput, Dismiss, SendAck, Back,
      Exit, vars

\* What the application displays only gets newer, and is something that
\* arrived, whatever its queue dropped.
THEOREM DisplayImplements == Spec => DisplayLatestWins
<1>1. Init => Display!Init
  BY DEF Init, Display!Init
<1>2. AppInv /\ [Next]_vars => [Display!Next]_(Display!vars)
  BY DisplayStep
<1> QED
  BY <1>1, <1>2, AppInductive, PTL DEF Spec, DisplayLatestWins, Display!Spec
=============================================================================
