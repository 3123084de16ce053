----------------------------- MODULE LatestWins -----------------------------
(***************************************************************************)
(* What the daemon promises its users: "latest-wins forwarding" of the     *)
(* notify events of the agents to one Flipper (the docstring of daemon.py, *)
(* "single-event overwrite (latest wins)" in README.md).                   *)
(*                                                                         *)
(* Notifications are numbered from 1 in the order the daemon accepts them. *)
(* The Flipper may miss any number of them, and may get one twice, but it  *)
(* never gets an older one after a newer one, never gets one that nobody   *)
(* sent, and never gets one that died with a previous daemon process.      *)
(***************************************************************************)
EXTENDS Naturals

VARIABLES
  accepted,  \* number of the newest notification the daemon has accepted
  received,  \* number of the newest notification the Flipper got (0: none)
  lost       \* every notification up to this one is gone if not received

vars == <<accepted, received, lost>>

Init ==
  /\ accepted = 0
  /\ received = 0
  /\ lost = 0

\* An agent's event reaches the daemon.
Accept ==
  /\ accepted' = accepted + 1
  /\ UNCHANGED <<received, lost>>

\* The Flipper gets a newer notification; those in between are superseded.
\* (A repeated delivery of the newest one is a stuttering step here.)
Deliver ==
  /\ \E n \in 1..accepted :
       /\ n > received
       /\ n > lost
       /\ received' = n
  /\ UNCHANGED <<accepted, lost>>

\* The daemon process ends with whatever it still held.
Die ==
  /\ lost' = accepted
  /\ UNCHANGED <<accepted, received>>

Next == Accept \/ Deliver \/ Die

Spec == Init /\ [][Next]_vars
=============================================================================
