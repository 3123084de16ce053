-------------------------------- MODULE Host --------------------------------
(***************************************************************************)
(* The programs on the computer that share its file system: daemons, the   *)
(* commands of the CLI, and the user who edits the configuration.  `serve` *)
(* and every `notify` and `status` read the configuration when they start; *)
(* the model keeps the socket path of all configurations the same.         *)
(***************************************************************************)
EXTENDS ConfigStore, SocketServer

vars == <<configVars, socketVars>>

Init == ConfigInit /\ SocketInit

\* serve: a configuration that does not parse, has no MAC or a bad pattern
\* ends the process before it touches the socket.
ServeConfigured(d) ==
  /\ Startable(config)
  /\ Serve(d)
  /\ UNCHANGED configVars

\* notify and status load the configuration first.
ConnectConfigured(c) ==
  /\ Loadable(config)
  /\ Connect(c)
  /\ UNCHANGED configVars

Next ==
  \/ \E d \in Daemons : ServeConfigured(d)
  \/ \E c \in Clients : ConnectConfigured(c)
  \/ (\E d \in Daemons : DaemonStep(d)) /\ UNCHANGED configVars
  \/ (\E c \in Clients : ConnectionStep(c)) /\ UNCHANGED configVars
  \/ SocketEvent /\ UNCHANGED configVars
  \/ ConfigNext /\ UNCHANGED socketVars

Spec == Init /\ [][Next]_vars

\* A daemon goes on starting or stopping, and each connection has a task of
\* its own on its loop.  Nobody need start a process, and a client that has
\* connected may never send its line.
Fairness ==
  /\ \A d \in Daemons : WF_vars(DaemonStep(d) /\ UNCHANGED configVars)
  /\ \A c \in Clients : WF_vars(ConnectionStep(c) /\ UNCHANGED configVars)
=============================================================================
