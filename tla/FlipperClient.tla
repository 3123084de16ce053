---------------------------- MODULE FlipperClient ----------------------------
(***************************************************************************)
(* FlipperClient of daemon/flipper_indicator/ble.py: one coroutine that    *)
(* keeps a BLE session with the Flipper and writes to it the frames of the *)
(* queue `outgoing`.                                                       *)
(*                                                                         *)
(* asyncio runs a coroutine without interruption from one suspension to    *)
(* the next, so an action is what happens between two suspensions and      *)
(* `phase` names the await the coroutine is suspended in:                  *)
(*                                                                         *)
(*   connecting    connect() on the cached address                         *)
(*   scanning      the scanner, after that failed                          *)
(*   reconnecting  connect() on the scanned device                         *)
(*   subscribing   start_notify()                                          *)
(*   waiting       outgoing.get() in _next_frame                           *)
(*   writing       write_gatt_char() of `frame`                            *)
(*   disconnecting disconnect() in the finally of _session                 *)
(*   sleeping      the backoff sleep of run_forever                        *)
(*   exited        nowhere: os._exit(1) has ended the process              *)
(*   stopped       nowhere: a signal has ended the daemon (Daemon.tla)     *)
(*                                                                         *)
(* bleak, the radio and the Flipper are external: each call may succeed or *)
(* fail, the link may drop at any time, and a write may reach the Flipper  *)
(* although the call fails, when only the response was lost.               *)
(*                                                                         *)
(* A frame is the number (from 1) of the notification it encodes.          *)
(***************************************************************************)
EXTENDS Naturals, Sequences

CONSTANTS
  BACKOFF_INITIAL,          \* first retry delay, seconds
  BACKOFF_MAX,              \* longest retry delay, seconds
  FAILURES_BEFORE_RESTART   \* failed sessions before the process gives up

ASSUME ClientAssumption ==
  /\ BACKOFF_INITIAL \in Nat \ {0}
  /\ BACKOFF_MAX \in Nat
  /\ BACKOFF_INITIAL <= BACKOFF_MAX
  /\ FAILURES_BEFORE_RESTART \in Nat \ {0}

VARIABLES
  phase,       \* where the coroutine is suspended
  outgoing,    \* the asyncio.Queue(maxsize=1) of frames shared with the daemon
  pending,     \* _pending_frame: taken off the queue but not written
  frame,       \* the frame of the write in progress
  delivered,   \* that write has reached the Flipper (external)
  link,        \* client.is_connected (external)
  hadSuccess,  \* _had_success: this process has connected once
  failures,    \* failures_since_success
  backoff,     \* next retry delay
  received     \* the last frame that reached the Flipper (external)

clientVars == <<phase, outgoing, pending, frame, delivered, link,
                hadSuccess, failures, backoff, received>>

NoFrame == 0

Phases == {"connecting", "scanning", "reconnecting", "subscribing", "waiting",
           "writing", "disconnecting", "sleeping", "exited", "stopped"}

\* The process is running.
Alive == phase \notin {"exited", "stopped"}

\* A BLE session is open: on_notify may be called while the link is up.
InSession == phase \in {"subscribing", "waiting", "writing", "disconnecting"}

\* A new process, before its first connect().
ClientInit ==
  /\ phase = "connecting"
  /\ outgoing = <<>>
  /\ pending = NoFrame
  /\ frame = NoFrame
  /\ delivered = FALSE
  /\ link = FALSE
  /\ hadSuccess = FALSE
  /\ failures = 0
  /\ backoff = BACKOFF_INITIAL
  /\ received = NoFrame

\* The same when a process takes the place of one that has ended.
ClientRestart ==
  /\ phase' = "connecting"
  /\ outgoing' = <<>>
  /\ pending' = NoFrame
  /\ frame' = NoFrame
  /\ delivered' = FALSE
  /\ link' = FALSE
  /\ hadSuccess' = FALSE
  /\ failures' = 0
  /\ backoff' = BACKOFF_INITIAL
  /\ UNCHANGED received

-----------------------------------------------------------------------------
(* Pieces of the coroutine that run up to its next suspension.             *)

\* (Mutant: the retained frame comes first.)
NextFrameRetainedFirst ==
  IF pending # NoFrame \/ outgoing = <<>> THEN pending ELSE outgoing[Len(outgoing)]

\* _next_frame: a queued frame supersedes the retained one.
NextFrame == IF outgoing # <<>> THEN outgoing[Len(outgoing)] ELSE pending

\* One turn of the loop of _pump_outgoing: wait if there is nothing to send,
\* else start the write, or retain the frame when the link is already gone.
Pump ==
  /\ delivered' = FALSE
  /\ \/ /\ outgoing = <<>> /\ pending = NoFrame
        /\ phase' = "waiting"
        /\ frame' = NoFrame
        /\ UNCHANGED <<outgoing, pending>>
     \/ /\ outgoing # <<>> \/ pending # NoFrame
        /\ link
        /\ phase' = "writing"
        /\ frame' = NextFrame
        /\ outgoing' = <<>>
        /\ pending' = NoFrame
     \/ /\ outgoing # <<>> \/ pending # NoFrame
        /\ ~link
        /\ phase' = "disconnecting"
        /\ frame' = NoFrame
        /\ outgoing' = <<>>
        /\ pending' = NextFrame

\* (Mutant: sessions before the first connection count as well.)
SessionFailedColdCounts ==
  /\ failures' = failures + 1
  /\ phase' = IF failures + 1 >= FAILURES_BEFORE_RESTART
              THEN "exited" ELSE "sleeping"

\* The except block of run_forever: an exception has left _session.
SessionFailed ==
  /\ failures' = IF hadSuccess THEN failures + 1 ELSE failures
  /\ phase' = IF hadSuccess /\ failures + 1 >= FAILURES_BEFORE_RESTART
              THEN "exited" ELSE "sleeping"

-----------------------------------------------------------------------------
(* The coroutine.                                                          *)

\* connect() on the cached address, or on the scanned device, succeeds.
ConnectOk ==
  /\ phase \in {"connecting", "reconnecting"}
  /\ phase' = "subscribing"
  /\ link' = TRUE
  /\ hadSuccess' = TRUE
  /\ UNCHANGED <<outgoing, pending, frame, delivered, failures, backoff,
                 received>>

\* The cached address does not answer: fall back to one scan.
CachedConnectFails ==
  /\ phase = "connecting"
  /\ phase' = "scanning"
  /\ UNCHANGED <<outgoing, pending, frame, delivered, link, hadSuccess,
                 failures, backoff, received>>

ScanFinds ==
  /\ phase = "scanning"
  /\ phase' = "reconnecting"
  /\ UNCHANGED <<outgoing, pending, frame, delivered, link, hadSuccess,
                 failures, backoff, received>>

\* Device not found, or connect() fails a second time: no session to close.
NoSession ==
  /\ phase \in {"scanning", "reconnecting"}
  /\ SessionFailed
  /\ UNCHANGED <<outgoing, pending, frame, delivered, link, hadSuccess,
                 backoff, received>>

SubscribeOk ==
  /\ phase = "subscribing"
  /\ Pump
  /\ UNCHANGED <<link, hadSuccess, failures, backoff, received>>

SubscribeFails ==
  /\ phase = "subscribing"
  /\ phase' = "disconnecting"
  /\ UNCHANGED <<outgoing, pending, frame, delivered, link, hadSuccess,
                 failures, backoff, received>>

\* outgoing.get() returns.
FrameArrives ==
  /\ phase = "waiting"
  /\ outgoing # <<>>
  /\ Pump
  /\ UNCHANGED <<link, hadSuccess, failures, backoff, received>>

\* The response of the write arrives; the loop goes on without suspending.
WriteOk ==
  /\ phase = "writing"
  /\ delivered
  /\ Pump
  /\ UNCHANGED <<link, hadSuccess, failures, backoff, received>>

\* (Mutant: the frame is not retained.)
WriteFailsForgetsFrame ==
  /\ phase = "writing"
  /\ phase' = "disconnecting"
  /\ frame' = NoFrame
  /\ delivered' = FALSE
  /\ UNCHANGED <<outgoing, pending, link, hadSuccess, failures, backoff,
                 received>>

\* write_gatt_char raises, whether or not the frame reached the Flipper.
WriteFails ==
  /\ phase = "writing"
  /\ phase' = "disconnecting"
  /\ pending' = frame
  /\ frame' = NoFrame
  /\ delivered' = FALSE
  /\ UNCHANGED <<outgoing, link, hadSuccess, failures, backoff, received>>

\* disconnect() returns or raises, and the exception leaves _session.
Disconnected ==
  /\ phase = "disconnecting"
  /\ link' = FALSE
  /\ SessionFailed
  /\ UNCHANGED <<outgoing, pending, frame, delivered, hadSuccess, backoff,
                 received>>

\* The backoff sleep ends and the next session begins.
Wake ==
  /\ phase = "sleeping"
  /\ phase' = "connecting"
  /\ backoff' = IF backoff * 2 <= BACKOFF_MAX THEN backoff * 2 ELSE BACKOFF_MAX
  /\ UNCHANGED <<outgoing, pending, frame, delivered, link, hadSuccess,
                 failures, received>>

\* The steps the coroutine takes once its await is over.
ClientStep ==
  \/ ConnectOk \/ CachedConnectFails \/ ScanFinds \/ NoSession
  \/ SubscribeOk \/ SubscribeFails \/ FrameArrives
  \/ WriteOk \/ WriteFails \/ Disconnected \/ Wake

-----------------------------------------------------------------------------
(* The radio and the Flipper (external).                                   *)

\* The write in progress reaches the Flipper.
Deliver ==
  /\ phase = "writing"
  /\ link
  /\ ~delivered
  /\ delivered' = TRUE
  /\ received' = frame
  /\ UNCHANGED <<phase, outgoing, pending, frame, link, hadSuccess, failures,
                 backoff>>

\* The Flipper goes out of range, reboots or leaves the app.
LinkDrop ==
  /\ link
  /\ link' = FALSE
  /\ UNCHANGED <<phase, outgoing, pending, frame, delivered, hadSuccess,
                 failures, backoff, received>>

RadioStep == Deliver \/ LinkDrop
=============================================================================
