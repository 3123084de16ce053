------------------------------- MODULE FapApp -------------------------------
(***************************************************************************)
(* The Flipper application: flipper_agent_indicator.c and effects.c.       *)
(*                                                                         *)
(* Three threads meet at two message queues.  The BLE thread puts frames   *)
(* on one (BleSerial.tla), the GUI thread puts key events on the other and *)
(* draws the screen, and the application thread takes from both in turn:   *)
(* `pc` is where it stands,                                                *)
(*                                                                         *)
(*   frame    at the head of its loop, taking from frame_queue             *)
(*   effects  in effects_apply; the notification service may block it      *)
(*   input    taking from input_queue                                      *)
(*   ack      after the dismissal, before fai_send_ack                     *)
(*   exit     out of the loop; gone: the application has ended             *)
(*                                                                         *)
(* Each of the other steps holds the UI mutex or needs none, so they are   *)
(* atomic.  A notification is numbered in the order of arrival.            *)
(***************************************************************************)
EXTENDS Naturals, Sequences

CONSTANTS
  Agents,         \* agents a frame may name
  SolidAgents,    \* those whose "done" leaves the LED lit (agent_solid_done)
  FAI_QUEUE_LEN,  \* slots of each message queue
  TornWrites,     \* the parser may make frames of the rests of torn writes
  MaxFrames,      \* bound: frames that arrive in a behaviour
  MaxKeys         \* bound: key events in a behaviour

ASSUME FapAssumption ==
  /\ SolidAgents \subseteq Agents
  /\ "off" \notin Agents
  /\ FAI_QUEUE_LEN \in Nat \ {0}
  /\ TornWrites \in BOOLEAN
  /\ MaxFrames \in Nat
  /\ MaxKeys \in Nat

VARIABLES
  pc,           \* where the application thread stands
  frame_queue,  \* notifications decoded and not yet handled
  input_queue,  \* key events not yet handled
  ui,           \* ui.current while ui.mode is FaiUiNotification, else empty
  led,          \* the agent whose colour the LED shows, or "off"
  redraw,       \* view_port_update asked for a redraw
  screen,       \* what the screen shows: as ui (GUI thread)
  arrived,      \* number of the newest notification that has arrived
  handled,      \* number of the newest notification handled
  keys,         \* key events so far
  acks          \* dismissals, oldest first: what was dismissed, what was seen

vars == <<pc, frame_queue, input_queue, ui, led, redraw, screen, arrived,
          handled, keys, acks>>

FaiStates == {"off", "running", "needs-input", "done"}

Notifications == [n : Nat, agent : Agents, state : FaiStates]

\* A PING, PONG or ACK frame.  (The daemon sends none, but what the parser
\* makes of a torn write may be one.)
OtherFrame == [n |-> 0, agent |-> "none", state |-> "none"]

\* "other" stands for the other keys, and for the press, release and repeat
\* events of these two.
Keys == {"ok", "back", "other"}

Init ==
  /\ pc = "frame"
  /\ frame_queue = <<>>
  /\ input_queue = <<>>
  /\ ui = <<>>
  /\ led = "off"
  /\ redraw = FALSE
  /\ screen = <<>>
  /\ arrived = 0
  /\ handled = 0
  /\ keys = 0
  /\ acks = <<>>

-----------------------------------------------------------------------------
(* Other threads.                                                          *)

\* (Mutant: a full queue takes one more.)
FrameArrivesUnbounded(agent, state) ==
  /\ pc # "gone"
  /\ arrived < MaxFrames
  /\ arrived' = arrived + 1
  /\ frame_queue' = Append(frame_queue,
                           [n |-> arrived + 1, agent |-> agent, state |-> state])
  /\ UNCHANGED <<pc, input_queue, ui, led, redraw, screen, handled, keys, acks>>

\* fai_ble_try_parse puts a NOTIFY frame without waiting: a full queue drops
\* it.  (After ble_serial_deinit no frame comes any more.)
FrameArrives(agent, state) ==
  /\ pc # "gone"
  /\ arrived < MaxFrames
  /\ arrived' = arrived + 1
  /\ frame_queue' =
       IF Len(frame_queue) < FAI_QUEUE_LEN
       THEN Append(frame_queue,
                   [n |-> arrived + 1, agent |-> agent, state |-> state])
       ELSE frame_queue
  /\ UNCHANGED <<pc, input_queue, ui, led, redraw, screen, handled, keys, acks>>

OtherFrameArrives ==
  /\ TornWrites
  /\ pc # "gone"
  /\ Len(frame_queue) < FAI_QUEUE_LEN
  /\ frame_queue' = Append(frame_queue, OtherFrame)
  /\ UNCHANGED <<pc, input_queue, ui, led, redraw, screen, arrived, handled,
                 keys, acks>>

\* fai_input_cb, likewise.  The event remembers what the user saw.
KeyEvent(key) ==
  /\ pc # "gone"
  /\ keys < MaxKeys
  /\ keys' = keys + 1
  /\ input_queue' =
       IF Len(input_queue) < FAI_QUEUE_LEN
       THEN Append(input_queue, [key |-> key, seen |-> screen])
       ELSE input_queue
  /\ UNCHANGED <<pc, frame_queue, ui, led, redraw, screen, arrived, handled,
                 acks>>

\* fai_draw_cb
Draw ==
  /\ redraw
  /\ redraw' = FALSE
  /\ screen' = ui
  /\ UNCHANGED <<pc, frame_queue, input_queue, ui, led, arrived, handled, keys,
                 acks>>

-----------------------------------------------------------------------------
(* The application thread.                                                 *)

\* (Mutant: the newest frame is taken first.)
HandleFrameLifo ==
  LET n == Len(frame_queue)
  IN  /\ pc = "frame"
      /\ frame_queue # <<>>
      /\ frame_queue[n] # OtherFrame
      /\ pc' = "effects"
      /\ frame_queue' = SubSeq(frame_queue, 1, n - 1)
      /\ ui' = <<frame_queue[n]>>
      /\ handled' = frame_queue[n].n
      /\ UNCHANGED <<input_queue, led, redraw, screen, arrived, keys, acks>>

\* fai_handle_frame of a NOTIFY, up to effects_apply.
HandleFrame ==
  /\ pc = "frame"
  /\ frame_queue # <<>>
  /\ Head(frame_queue) # OtherFrame
  /\ pc' = "effects"
  /\ frame_queue' = Tail(frame_queue)
  /\ ui' = <<Head(frame_queue)>>
  /\ handled' = Head(frame_queue).n
  /\ UNCHANGED <<input_queue, led, redraw, screen, arrived, keys, acks>>

\* A PING is answered, the others are ignored.
HandleOther ==
  /\ pc = "frame"
  /\ frame_queue # <<>>
  /\ Head(frame_queue) = OtherFrame
  /\ pc' = "input"
  /\ frame_queue' = Tail(frame_queue)
  /\ UNCHANGED <<input_queue, ui, led, redraw, screen, arrived, handled, keys,
                 acks>>

\* The LED after the sequences of effects_apply: those of "needs-input" and
\* of "done" for the other agents end dark, "running" plays none.
LedAfter(f) ==
  CASE f.state = "running" -> led
    [] f.state = "done" /\ f.agent \in SolidAgents -> f.agent
    [] OTHER -> "off"

effects_apply(f) == led' = LedAfter(f)

\* effects_clear, and the same in effects_deinit.
effects_clear == led' = "off"

\* (Mutant: no redraw.)
EffectsAppliedUnseen ==
  /\ pc = "effects"
  /\ pc' = "input"
  /\ effects_apply(ui[1])
  /\ UNCHANGED <<frame_queue, input_queue, ui, redraw, screen, arrived, handled,
                 keys, acks>>

\* effects_apply returns, and the handler asks for a redraw.
EffectsApplied ==
  /\ pc = "effects"
  /\ pc' = "input"
  /\ effects_apply(ui[1])
  /\ redraw' = TRUE
  /\ UNCHANGED <<frame_queue, input_queue, ui, screen, arrived, handled, keys,
                 acks>>

\* 50 ms without a frame.
NoFrame ==
  /\ pc = "frame"
  /\ frame_queue = <<>>
  /\ pc' = "input"
  /\ UNCHANGED <<frame_queue, input_queue, ui, led, redraw, screen, arrived,
                 handled, keys, acks>>

NoInput ==
  /\ pc = "input"
  /\ input_queue = <<>>
  /\ pc' = "frame"
  /\ UNCHANGED <<frame_queue, input_queue, ui, led, redraw, screen, arrived,
                 handled, keys, acks>>

\* fai_handle_input of an event that does nothing.
IgnoreInput ==
  /\ pc = "input"
  /\ input_queue # <<>>
  /\ \/ Head(input_queue).key = "other"
     \/ Head(input_queue).key = "ok" /\ ui = <<>>
  /\ pc' = "frame"
  /\ input_queue' = Tail(input_queue)
  /\ UNCHANGED <<frame_queue, ui, led, redraw, screen, arrived, handled, keys,
                 acks>>

\* (Mutant: ui.mode is not reset.)
DismissKeepsMode ==
  /\ pc = "input"
  /\ input_queue # <<>>
  /\ Head(input_queue).key = "ok"
  /\ ui # <<>>
  /\ pc' = "ack"
  /\ input_queue' = Tail(input_queue)
  /\ acks' = Append(acks, [dismissed |-> ui, seen |-> Head(input_queue).seen])
  /\ UNCHANGED <<frame_queue, ui, led, redraw, screen, arrived, handled, keys>>

\* OK: whatever notification is current goes.
Dismiss ==
  /\ pc = "input"
  /\ input_queue # <<>>
  /\ Head(input_queue).key = "ok"
  /\ ui # <<>>
  /\ pc' = "ack"
  /\ input_queue' = Tail(input_queue)
  /\ ui' = <<>>
  /\ acks' = Append(acks, [dismissed |-> ui, seen |-> Head(input_queue).seen])
  /\ UNCHANGED <<frame_queue, led, redraw, screen, arrived, handled, keys>>

\* (Mutant: no view_port_update.)
SendAckUnseen ==
  /\ pc = "ack"
  /\ pc' = "frame"
  /\ effects_clear
  /\ UNCHANGED <<frame_queue, input_queue, ui, redraw, screen, arrived, handled,
                 keys, acks>>

\* (Mutant: no effects_clear.)
SendAckLit ==
  /\ pc = "ack"
  /\ pc' = "frame"
  /\ redraw' = TRUE
  /\ UNCHANGED <<frame_queue, input_queue, ui, led, screen, arrived, handled,
                 keys, acks>>

\* fai_send_ack, whose result nobody looks at, effects_clear and the redraw.
SendAck ==
  /\ pc = "ack"
  /\ pc' = "frame"
  /\ effects_clear
  /\ redraw' = TRUE
  /\ UNCHANGED <<frame_queue, input_queue, ui, screen, arrived, handled, keys,
                 acks>>

\* Back leaves the loop.
Back ==
  /\ pc = "input"
  /\ input_queue # <<>>
  /\ Head(input_queue).key = "back"
  /\ pc' = "exit"
  /\ input_queue' = Tail(input_queue)
  /\ UNCHANGED <<frame_queue, ui, led, redraw, screen, arrived, handled, keys,
                 acks>>

\* The teardown: ble_serial_deinit, effects_deinit, and the queues are freed.
Exit ==
  /\ pc = "exit"
  /\ pc' = "gone"
  /\ effects_clear
  /\ frame_queue' = <<>>
  /\ input_queue' = <<>>
  /\ redraw' = FALSE
  /\ UNCHANGED <<ui, screen, arrived, handled, keys, acks>>

AppStep ==
  \/ HandleFrame \/ HandleOther \/ EffectsApplied \/ NoFrame
  \/ NoInput \/ IgnoreInput \/ Dismiss \/ SendAck \/ Back \/ Exit

Next ==
  \/ \E agent \in Agents, state \in FaiStates : FrameArrives(agent, state)
  \/ OtherFrameArrives
  \/ \E key \in Keys : KeyEvent(key)
  \/ Draw
  \/ AppStep

Spec == Init /\ [][Next]_vars

\* The scheduler runs the application thread and the GUI thread, and the
\* notification service takes its messages in the end.
FairSpec == Spec /\ WF_vars(AppStep) /\ WF_vars(Draw)

-----------------------------------------------------------------------------
(* Properties.                                                             *)

KeyEvents == [key : Keys, seen : Seq(Notifications)]
Dismissals == [dismissed : Seq(Notifications), seen : Seq(Notifications)]

TypeOK ==
  /\ pc \in {"frame", "effects", "input", "ack", "exit", "gone"}
  /\ frame_queue \in Seq(Notifications \union {OtherFrame})
  /\ Len(frame_queue) <= FAI_QUEUE_LEN
  /\ input_queue \in Seq(KeyEvents)
  /\ Len(input_queue) <= FAI_QUEUE_LEN
  /\ ui \in Seq(Notifications) /\ Len(ui) <= 1
  /\ screen \in Seq(Notifications) /\ Len(screen) <= 1
  /\ led \in Agents \union {"off"}
  /\ redraw \in BOOLEAN
  /\ arrived \in Nat
  /\ handled \in Nat
  /\ acks \in Seq(Dismissals)

\* Between two steps of the loop that change it, the screen shows what the
\* application holds, or a redraw has been asked for: no path through the
\* handlers forgets view_port_update.
ScreenFresh ==
  pc \in {"frame", "input"} /\ ~redraw => screen = ui

\* With no notification on the screen the LED is dark, and it is dark when
\* the application has gone: a dismissed "done" does not stay lit.
DarkWhenIdle ==
  (pc \in {"frame", "input"} /\ ui = <<>>) \/ pc = "gone" => led = "off"

\* However OK presses and frames interleave, a notification is dismissed, and
\* acknowledged to the host, at most once.
AckedOnce ==
  \A i, j \in DOMAIN acks :
    acks[i].dismissed = acks[j].dismissed => i = j

\* Why: notifications are handled in the order of their numbers.  What is
\* queued is newer than what was handled last, which is what is current
\* unless it was dismissed; what was dismissed is older than that.
QueueInOrder ==
  \A i \in 1..Len(frame_queue) :
    frame_queue[i] # OtherFrame =>
      /\ handled < frame_queue[i].n /\ frame_queue[i].n <= arrived
      /\ \A j \in 1..(i - 1) :
           frame_queue[j] # OtherFrame => frame_queue[j].n < frame_queue[i].n

CurrentIsNewest ==
  /\ handled <= arrived
  /\ pc = "effects" => ui # <<>>
  /\ ui # <<>> => ui[1].n = handled

AcksInOrder ==
  \A k \in 1..Len(acks) :
    /\ Len(acks[k].dismissed) = 1
    /\ acks[k].dismissed[1].n <= handled
    /\ ui # <<>> => acks[k].dismissed[1].n < handled
    /\ \A l \in 1..(k - 1) : acks[l].dismissed[1].n < acks[k].dismissed[1].n

AppInv == TypeOK /\ QueueInOrder /\ CurrentIsNewest /\ AcksInOrder

\* What it displays only gets newer, and is something that arrived, as in a
\* latest-wins register.  It need not get to the latest: a full queue drops that
\* one and keeps the older ones.
Display == INSTANCE LatestWins
             WITH accepted <- arrived, received <- handled, lost <- 0
DisplayLatestWins == Display!Spec

\* A notification that found room in the queue comes on the screen in the
\* end, unless a newer one does, or the user is faster.
EventuallyShown ==
  \A n \in 1..MaxFrames :
    (\E i \in DOMAIN frame_queue :
       frame_queue[i] # OtherFrame /\ frame_queue[i].n = n)
    ~> \/ screen # <<>> /\ screen[1].n >= n
       \/ \E i \in DOMAIN acks : acks[i].dismissed[1].n >= n
       \/ pc = "gone"

\* What OK dismisses, and acknowledges, is what was on the screen when it was
\* pressed ("sent when user presses OK on the notification screen",
\* PLAN.md:81).
DismissesWhatWasSeen ==
  \A i \in DOMAIN acks : acks[i].dismissed = acks[i].seen
=============================================================================
