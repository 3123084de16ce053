--------------------------- MODULE OpencodePlugin ---------------------------
(***************************************************************************)
(* The plugin for OpenCode (opencode-flipper-indicator.js).  OpenCode does *)
(* not wait for one event to be dealt with before the next: setState sets  *)
(* lastState and starts `flipper-indicator notify`, and the processes it   *)
(* started run side by side.                                               *)
(***************************************************************************)
EXTENDS Naturals, FiniteSets

CONSTANT
  MaxCalls  \* bound: calls of notify in a behaviour

VARIABLES
  lastState,  \* the state setState was last called for
  recent,     \* idleAt is less than two seconds ago
  calls,      \* the notify processes that run, numbered
  started,    \* how many were started
  shown       \* the state the daemon has accepted last

vars == <<lastState, recent, calls, started, shown>>

PluginStates == {"off", "running", "needs-input", "done"}

Init ==
  /\ lastState = "off"
  /\ recent = FALSE
  /\ calls = {}
  /\ started = 0
  /\ shown = "off"

\* setState, up to its await.
SetState(state) ==
  IF state = lastState THEN UNCHANGED <<lastState, calls, started>>
  ELSE /\ started < MaxCalls
       /\ lastState' = state
       /\ started' = started + 1
       /\ calls' = calls \union {[n |-> started + 1, state |-> state]}

\* session.status busy, unless the session was idle a moment ago.
Busy ==
  /\ ~recent
  /\ SetState("running")
  /\ UNCHANGED <<recent, shown>>

\* permission.updated, permission.asked, permission.ask, and the question tool.
Ask ==
  /\ SetState("needs-input")
  /\ UNCHANGED <<recent, shown>>

\* session.idle and session.error.
Idle ==
  /\ recent' = TRUE
  /\ SetState("done")
  /\ UNCHANGED shown

\* Two seconds have passed since.
TimePasses ==
  /\ recent
  /\ recent' = FALSE
  /\ UNCHANGED <<lastState, calls, started, shown>>

\* The line of a call reaches the daemon.
Accepted(call) ==
  /\ calls' = calls \ {call}
  /\ shown' = call.state
  /\ UNCHANGED <<lastState, recent, started>>

\* The command fails, or meets no daemon; the plugin ignores that.
Missed(call) ==
  /\ calls' = calls \ {call}
  /\ UNCHANGED <<lastState, recent, started, shown>>

Next ==
  \/ Busy \/ Ask \/ Idle \/ TimePasses
  \/ \E call \in calls : Accepted(call) \/ Missed(call)

Spec == Init /\ [][Next]_vars

\* A session that has just become idle is not shown as running: "Guard: don't
\* override done/error if idle fired recently (race)"
\* (opencode-flipper-indicator.js:23).
DoneNotOverridden ==
  [][~(recent /\ shown = "done" /\ shown' = "running")]_vars
=============================================================================
