----------------------------- MODULE MCRelaunch -----------------------------
(***************************************************************************)
(* The daemon with a history of its sessions, to compare the condition     *)
(* under which the code ends the process with the comment that explains it *)
(* (ble.py:20-23).                                                         *)
(***************************************************************************)
EXTENDS Daemon

VARIABLE
  streak  \* failed sessions since the last write the Flipper confirmed

historyVars == <<vars, streak>>

\* run_forever caught an exception of _session in this step.
SessionEnded == phase' \in {"sleeping", "exited"} /\ phase' # phase

HistoryInit == Init /\ streak = 0

HistoryNext ==
  /\ Next
  /\ streak' =
       IF WriteOk THEN 0
       ELSE IF SessionEnded /\ streak < FAILURES_BEFORE_RESTART THEN streak + 1
       ELSE streak

HistorySpec == HistoryInit /\ [][HistoryNext]_historyVars

\* The process exits only "after N consecutive session failures": a session
\* that wrote its frames in between starts the count anew.
ExitsOnlyAfterConsecutiveFailures ==
  phase = "exited" => streak >= FAILURES_BEFORE_RESTART
=============================================================================
