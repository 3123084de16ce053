------------------------------- MODULE Daemon -------------------------------
(***************************************************************************)
(* The daemon process: daemon.py with its three queues, its forwarder and  *)
(* its handler of incoming bytes, composed with the FlipperClient that     *)
(* empties `outgoing`.  The tasks run on one asyncio loop: an action is    *)
(* what one task does between two suspensions.                             *)
(*                                                                         *)
(* Notifications are numbered in the order in which the socket server puts *)
(* them on notify_queue; `accepted` is the last number given, and a frame  *)
(* carries the number of its notification.  Their agent, state and text    *)
(* play no part in the daemon's control flow.                              *)
(***************************************************************************)
EXTENDS FlipperClient

CONSTANTS
  Agents,         \* the agents an ACK frame may name
  BridgeEnabled,  \* tmux_bridge_enabled of the configuration
  MaxNotify,      \* bound: notifications accepted in a behaviour
  MaxRx           \* bound: ACKs, and queued incoming frames, in a behaviour

\* What _handle_incoming drops: "free RX buffer" notices, frames that are
\* not an ACK, and bytes that do not decode.
Noise == {"flow_ctrl", "frame", "decode_failed"}

ASSUME DaemonAssumption ==
  /\ BridgeEnabled \in BOOLEAN
  /\ MaxNotify \in Nat
  /\ MaxRx \in Nat
  /\ Agents \intersect Noise = {}

VARIABLES
  notifyQueue,  \* asyncio.Queue[Notify] from the socket server
  incoming,     \* asyncio.Queue[bytes] from on_notify: an agent is its ACK
  accepted,     \* number of the newest notification accepted so far
  lost,         \* newest notification when a process last ended
  ackLog,       \* agents of the ACKs this process has got, oldest first
  cleared       \* agents bridge.clear was called for, oldest first

queueVars == <<notifyQueue, incoming, ackLog, cleared>>
vars == <<clientVars, queueVars, accepted, lost>>

\* The newest notification the forwarder has turned into a frame.
Forwarded == accepted - Len(notifyQueue)

Init ==
  /\ ClientInit
  /\ notifyQueue = <<>>
  /\ incoming = <<>>
  /\ ackLog = <<>>
  /\ cleared = <<>>
  /\ accepted = 0
  /\ lost = 0

-----------------------------------------------------------------------------
(* The tasks.                                                              *)

\* SocketServer._handle puts a parsed notification on the queue.
Accept ==
  /\ Alive
  /\ accepted < MaxNotify
  /\ accepted' = accepted + 1
  /\ notifyQueue' = Append(notifyQueue, accepted + 1)
  /\ UNCHANGED <<clientVars, incoming, ackLog, cleared, lost>>

\* (Mutants: the forwarder hands on what `put` makes of the notify queue.)
ForwardWith(put, left) ==
  /\ Alive
  /\ notifyQueue # <<>>
  /\ outgoing' = put
  /\ notifyQueue' = left
  /\ UNCHANGED <<phase, pending, frame, delivered, link, hadSuccess, failures,
                 backoff, received, incoming, ackLog, cleared, accepted, lost>>

\* (Mutant: it does not drain `outgoing` first.)
ForwardUndrained == ForwardWith(outgoing \o notifyQueue, <<>>)

\* (Mutant: it keeps the first frame of a burst.)
ForwardOldest == ForwardWith(<<Head(notifyQueue)>>, <<>>)

\* (Mutant: a LifoQueue in place of the Queue.)
ForwardLifo == ForwardWith(<<notifyQueue[Len(notifyQueue)]>>,
                           SubSeq(notifyQueue, 1, Len(notifyQueue) - 1))

\* _forward_notifies.  Neither get() on a nonempty queue nor put() on one
\* just drained suspends, so the task runs through all it finds, each frame
\* replacing the one before: only the last is left for the client.
Forward ==
  /\ Alive
  /\ notifyQueue # <<>>
  /\ outgoing' = <<notifyQueue[Len(notifyQueue)]>>
  /\ notifyQueue' = <<>>
  /\ UNCHANGED <<phase, pending, frame, delivered, link, hadSuccess, failures,
                 backoff, received, incoming, ackLog, cleared, accepted, lost>>

\* on_notify: the Flipper's bytes arrive while the session is open.
OnNotify(raw) ==
  /\ InSession
  /\ link
  /\ Len(incoming) < MaxRx
  /\ raw \in Agents => Len(ackLog) < MaxRx
  /\ incoming' = Append(incoming, raw)
  /\ ackLog' = IF raw \in Agents THEN Append(ackLog, raw) ELSE ackLog
  /\ UNCHANGED <<clientVars, notifyQueue, cleared, accepted, lost>>

\* TmuxBridge.clear: start the script that clears the agent, unless disabled.
Clear(agent) == IF BridgeEnabled THEN Append(cleared, agent) ELSE cleared

\* (Mutant: it drains the queue, as the forwarder does.)
HandleIncomingNewest ==
  /\ Alive
  /\ incoming # <<>>
  /\ incoming' = <<>>
  /\ cleared' = IF incoming[Len(incoming)] \in Agents
                THEN Clear(incoming[Len(incoming)]) ELSE cleared
  /\ UNCHANGED <<clientVars, notifyQueue, ackLog, accepted, lost>>

\* (Mutant: the ValueError of decode ends the task.)
HandleIncomingRaises ==
  /\ Alive
  /\ incoming # <<>>
  /\ Head(incoming) # "decode_failed"
  /\ incoming' = Tail(incoming)
  /\ cleared' = IF Head(incoming) \in Agents
                THEN Clear(Head(incoming)) ELSE cleared
  /\ UNCHANGED <<clientVars, notifyQueue, ackLog, accepted, lost>>

\* _handle_incoming, one queued item, with the call of bridge.clear.
HandleIncoming ==
  /\ Alive
  /\ incoming # <<>>
  /\ incoming' = Tail(incoming)
  /\ cleared' = IF Head(incoming) \in Agents
                THEN Clear(Head(incoming)) ELSE cleared
  /\ UNCHANGED <<clientVars, notifyQueue, ackLog, accepted, lost>>

\* The BLE task; when it ends the process, all that is queued dies with it.
BleStep ==
  /\ ClientStep
  /\ lost' = IF phase' = "exited" THEN accepted ELSE lost
  /\ UNCHANGED <<queueVars, accepted>>

Radio ==
  /\ RadioStep
  /\ UNCHANGED <<queueVars, accepted, lost>>

-----------------------------------------------------------------------------
(* The process.                                                            *)

\* SIGINT or SIGTERM: run() cancels the tasks, which closes the session, and
\* returns.  A notification that still gets in while it does is lost too.
Stop ==
  /\ Alive
  /\ phase' = "stopped"
  /\ link' = FALSE
  /\ lost' = accepted
  /\ UNCHANGED <<outgoing, pending, frame, delivered, hadSuccess, failures,
                 backoff, received, queueVars, accepted>>

\* launchd, after exit status 1, or the user starts the daemon again.
Launch ==
  /\ ~Alive
  /\ ClientRestart
  /\ notifyQueue' = <<>>
  /\ incoming' = <<>>
  /\ ackLog' = <<>>
  /\ cleared' = <<>>
  /\ UNCHANGED <<accepted, lost>>

Next ==
  \/ Accept
  \/ Forward
  \/ \E raw \in Agents \union Noise : OnNotify(raw)
  \/ HandleIncoming
  \/ BleStep
  \/ Radio
  \/ Stop
  \/ Launch

Spec == Init /\ [][Next]_vars

\* The loop runs every task that is ready, and every call of bleak ends: those
\* that connect or scan have a timeout, the others end when the link drops.
\* What the agents, the Flipper and the user do is not fair: they may never
\* act, and nobody need start a process again that has ended.
Fairness ==
  /\ WF_vars(Forward)
  /\ WF_vars(HandleIncoming)
  /\ WF_vars(BleStep)

\* The Flipper is not out of range for ever: a daemon that keeps trying
\* connects.  (Without it a cold daemon may retry without end.)
Reachable == SF_vars(BleStep /\ ConnectOk)

FairSpec == Spec /\ Fairness /\ Reachable

-----------------------------------------------------------------------------
(* Properties.                                                             *)

\* Every variable has its type; the frame queue never holds more than one.
TypeOK ==
  /\ phase \in Phases
  /\ outgoing \in Seq(Nat)
  /\ Len(outgoing) <= 1
  /\ pending \in Nat
  /\ frame \in Nat
  /\ delivered \in BOOLEAN
  /\ link \in BOOLEAN
  /\ hadSuccess \in BOOLEAN
  /\ failures \in Nat
  /\ backoff \in Nat
  /\ received \in Nat
  /\ notifyQueue \in Seq(Nat)
  /\ incoming \in Seq(Agents \union Noise)
  /\ accepted \in Nat
  /\ lost \in Nat
  /\ ackLog \in Seq(Agents)
  /\ cleared \in Seq(Agents)

\* The newest frame made is never dropped while the process lives: it has
\* reached the Flipper, or it is queued, retained, or being written.  (A
\* frame taken off the queue by _pump_outgoing that meets a dead link or a
\* failing write must come back through _pending_frame, ble.py:138-166.)
LatestHeld ==
  Alive =>
    \/ Forwarded = lost
    \/ Forwarded = received
    \/ Forwarded = pending
    \/ Forwarded = frame
    \/ outgoing = <<Forwarded>>

\* Why LatestHeld holds, and why what reaches the Flipper only gets newer:
\* the notifications lie along the pipeline in the order they came in.

\* Notify queue: its last element is the newest notification.
QueueShape ==
  /\ Len(notifyQueue) <= accepted
  /\ notifyQueue # <<>> => notifyQueue[Len(notifyQueue)] = accepted

\* A frame is being written in phase "writing" only, and not retained too.
WriteShape ==
  /\ phase = "writing" => frame # NoFrame
  /\ Alive /\ frame # NoFrame => phase = "writing"
  /\ frame # NoFrame => pending = NoFrame
  /\ delivered => frame # NoFrame /\ received = frame

\* A frame that left the queue (retained, or being written) is no newer than
\* the last one made, and is that one unless a newer one is queued.
Held(f) ==
  f # NoFrame => /\ received <= f
                 /\ f <= Forwarded
                 /\ Alive => lost < f
                 /\ outgoing = <<>> => f = Forwarded

PipelineOrder ==
  /\ received <= Forwarded
  /\ outgoing # <<>> => outgoing[1] = Forwarded
  /\ Held(pending)
  /\ Held(frame)
  /\ Alive => lost <= Forwarded
  /\ Alive /\ outgoing # <<>> => lost < Forwarded
  /\ ~Alive => lost = accepted

\* The inductive invariant of the daemon.
IInv == TypeOK /\ QueueShape /\ WriteShape /\ PipelineOrder /\ LatestHeld

\* A write always begins with the newest frame made so far, on a reconnect
\* as well: a newer queued frame supersedes the retained one.
WriteStartsWithNewest ==
  [][frame' \notin {frame, NoFrame} => frame' = Forwarded']_vars

\* Increasing positions of `incoming` that hold its ACKs, each one once.
StandAt(at) ==
  /\ \A j, k \in DOMAIN at : j < k => at[j] < at[k]
  /\ {at[k] : k \in DOMAIN at} = {i \in DOMAIN incoming : incoming[i] \in Agents}

\* ACKs are not lost, repeated or reordered between on_notify and the tmux
\* bridge, and nothing but an ACK makes the bridge clear an agent: the bridge
\* was called for the first ACKs of the process, in their order, and those
\* that came later stand in `incoming`, in their order, among what is dropped.
ClearsFollowAcks ==
  BridgeEnabled =>
    /\ Len(cleared) <= Len(ackLog)
    /\ \A k \in DOMAIN cleared : cleared[k] = ackLog[k]
    /\ \E at \in [Len(cleared) + 1 .. Len(ackLog) -> DOMAIN incoming] :
         /\ StandAt(at)
         /\ \A k \in DOMAIN at : ackLog[k] = incoming[at[k]]

\* The process gives up exactly at the failure that makes
\* FAILURES_BEFORE_RESTART of them, never before its first connection (a
\* Flipper out of range must not make it flap, ble.py:20-23), and the delay
\* between two sessions stays between its first value and its cap.
RetryBounds ==
  /\ phase = "exited" <=> failures >= FAILURES_BEFORE_RESTART
  /\ failures > 0 => hadSuccess
  /\ BACKOFF_INITIAL <= backoff /\ backoff <= BACKOFF_MAX

\* The daemon implements the abstract latest-wins register.
Abstract == INSTANCE LatestWins
ImplementsLatestWins == Abstract!Spec

\* Every accepted notification, or a newer one, reaches the Flipper in the
\* end unless the process that held it ends.
EventuallyDelivered ==
  \A n \in 1..MaxNotify :
    accepted = n ~> (received >= n \/ lost >= n)

\* Every ACK that reaches the process makes it call the bridge, unless the
\* process ends first.
EventuallyCleared ==
  \A n \in 1..MaxRx :
    BridgeEnabled /\ Len(ackLog) = n ~> (Len(cleared) >= n \/ ~Alive)

\* A cold start with the Flipper out of range retries until it connects or is
\* stopped, and by itself: it does not count on launchd (ble.py:20-23).
ColdStartKeepsRetrying ==
  []<>(phase = "connecting") \/ <>(hadSuccess \/ phase = "stopped")

\* A lost link is noticed and the daemon reconnects.  ("It reconnects with
\* exponential backoff", README.md:35-36.)
LinkLossNoticed ==
  phase = "waiting" /\ ~link ~> (phase = "connecting" \/ ~Alive)
=============================================================================
