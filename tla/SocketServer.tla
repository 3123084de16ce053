---------------------------- MODULE SocketServer ----------------------------
(***************************************************************************)
(* The life of the daemon's socket file, with more than one daemon process *)
(* on one path (socket_server.py), and of the connections that the CLI     *)
(* makes to it (notify and status of cli.py).  What a notification says is *)
(* left to CommandLine.tla.                                                *)
(*                                                                         *)
(* A daemon process is "down", or at a step of SocketServer.start:         *)
(*                                                                         *)
(*   unlinking  before unlink; it has seen a file                          *)
(*   clearing   before asyncio removes a socket that is in the way         *)
(*   binding    before bind and listen                                     *)
(*   chmod      before chmod; it listens                                   *)
(*                                                                         *)
(* or "serving", or "closing" between the signal and the unlink of stop,   *)
(* or it has "failed": an exception of start ended it.                     *)
(***************************************************************************)
EXTENDS Naturals

CONSTANTS
  Daemons,  \* processes of `flipper-indicator serve`
  Clients   \* processes of `flipper-indicator notify` and `status`

ASSUME SocketAssumption == Daemons \intersect {"none", "stale"} = {}

VARIABLES
  daemon,   \* where each daemon process stands
  file,     \* what the path names: "none", the daemon that listens on the
            \* socket, or "stale", a socket nobody listens on
  conn,     \* the connection of each client, and whether asyncio has taken
            \* it from the backlog of the listening socket
  overlap   \* some daemon alive was not alone all its life

socketVars == <<daemon, file, conn, overlap>>

Starting == {"unlinking", "clearing", "binding", "chmod"}

Up(d) == daemon[d] \in Starting \union {"serving", "closing"}

\* A connection is "open" (nothing sent), "sent" (a line to be read), "eof"
\* (closed by a client that sent nothing) or "cut" (closed by the daemon).
NoConn == [at |-> "idle", to |-> "none", accepted |-> FALSE]
Conn(at, d) == [at |-> at, to |-> d, accepted |-> FALSE]
Conns ==
  {NoConn} \union
  [at : {"open", "sent", "eof", "cut"}, to : Daemons, accepted : BOOLEAN]

Connected(c) == conn[c].at \in {"open", "sent", "eof"}

SocketInit ==
  /\ daemon = [d \in Daemons |-> "down"]
  /\ file = "none"
  /\ conn = [c \in Clients |-> NoConn]
  /\ overlap = FALSE

Move(d, from, to) ==
  /\ daemon[d] = from
  /\ daemon' = [daemon EXCEPT ![d] = to]

\* The connections of `those` to daemon d end: a client that has not sent its
\* line yet will get an error, what the others sent is lost.
Hangup(d, those) ==
  conn' = [c \in Clients |->
             IF conn[c].to # d \/ c \notin those THEN conn[c]
             ELSE IF conn[c].at \in {"open", "cut"} THEN Conn("cut", d)
             ELSE NoConn]

\* The process of daemon d is gone; its socket file stays.
End(d, to) ==
  /\ daemon' = [daemon EXCEPT ![d] = to]
  /\ file' = IF file = d THEN "stale" ELSE file
  /\ Hangup(d, Clients)
  /\ UNCHANGED overlap

-----------------------------------------------------------------------------
(* SocketServer.start.                                                     *)

\* (Mutant: what is at the path is removed without a look whether it is there.)
ServeUnlinks(d) ==
  /\ daemon[d] \in {"down", "failed"}
  /\ daemon' = [daemon EXCEPT ![d] = "unlinking"]
  /\ overlap' = \E e \in Daemons \ {d} : Up(e)
  /\ UNCHANGED <<file, conn>>

\* A daemon process begins: self._path.exists()
Serve(d) ==
  /\ daemon[d] \in {"down", "failed"}
  /\ daemon' = [daemon EXCEPT ![d] =
                  IF file = "none" THEN "clearing" ELSE "unlinking"]
  /\ overlap' = \E e \in Daemons \ {d} : Up(e)
  /\ UNCHANGED <<file, conn>>

\* self._path.unlink()
Unlink(d) ==
  /\ file # "none"
  /\ Move(d, "unlinking", "clearing")
  /\ file' = "none"
  /\ UNCHANGED <<conn, overlap>>

\* asyncio.start_unix_server removes a socket it finds at the path.
ClearPath(d) ==
  /\ Move(d, "clearing", "binding")
  /\ file' = "none"
  /\ UNCHANGED <<conn, overlap>>

\* Then it binds the path and listens.
Bind(d) ==
  /\ file = "none"
  /\ Move(d, "binding", "chmod")
  /\ file' = d
  /\ UNCHANGED <<conn, overlap>>

\* (Mutant: what was at the path is unlinked after the bind.)
ChmodUnlinks(d) ==
  /\ file # "none"
  /\ Move(d, "chmod", "serving")
  /\ file' = "none"
  /\ UNCHANGED <<conn, overlap>>

\* os.chmod(self._path, 0o600), of whatever the path names by now.
Chmod(d) ==
  /\ file # "none"
  /\ Move(d, "chmod", "serving")
  /\ UNCHANGED <<file, conn, overlap>>

\* The file to unlink or to chmod is gone, or the path to bind is taken.
StartFails(d) ==
  /\ \/ daemon[d] \in {"unlinking", "chmod"} /\ file = "none"
     \/ daemon[d] = "binding" /\ file # "none"
  /\ End(d, "failed")

-----------------------------------------------------------------------------
(* The end.                                                                *)

\* (Mutant: the server is not closed.)
StopListening(d) ==
  /\ Move(d, "serving", "closing")
  /\ UNCHANGED <<file, conn, overlap>>

\* A signal: run cancels serve_forever, which closes the server.  asyncio
\* closes the listening socket, and with it the connections still in its
\* backlog; those it has accepted stay.  From Python 3.13 on it then removes
\* the socket file, if it is its own.
Stop(d) ==
  /\ Move(d, "serving", "closing")
  /\ file' \in IF file = d THEN {"stale", "none"} ELSE {file}
  /\ Hangup(d, {c \in Clients : ~conn[c].accepted})
  /\ UNCHANGED overlap

\* stop, when the other tasks have ended: it unlinks what the path names.
\* Then the process ends, with the connections it still has.
UnlinkAtStop(d) ==
  /\ Move(d, "closing", "down")
  /\ file' = "none"
  /\ Hangup(d, Clients)
  /\ UNCHANGED overlap

\* os._exit of the BLE client, or a kill.
Crash(d) ==
  /\ Up(d)
  /\ End(d, "down")

-----------------------------------------------------------------------------
(* Connections.                                                            *)

SetConn(c, new) ==
  /\ conn' = [conn EXCEPT ![c] = new]
  /\ UNCHANGED <<daemon, file, overlap>>

\* (Mutant: a socket that nobody listens on will do.)
NotifyStale(c) ==
  /\ conn[c] = NoConn
  /\ file # "none"
  /\ SetConn(c, Conn("open", file))

\* notify connects; when nobody listens it gives up without a word.
Notify(c) ==
  /\ conn[c] = NoConn
  /\ file \in Daemons
  /\ SetConn(c, Conn("open", file))

\* status connects, and closes at once.
Status(c) ==
  /\ conn[c] = NoConn
  /\ file \in Daemons
  /\ SetConn(c, Conn("eof", file))

\* notify sends its line and closes; an error is silent as well.
Send(c) ==
  \/ conn[c].at = "open" /\ SetConn(c, [conn[c] EXCEPT !.at = "sent"])
  \/ conn[c].at = "cut" /\ SetConn(c, NoConn)

\* The agent kills a hook that takes too long.
KillClient(c) ==
  \/ conn[c].at = "open" /\ SetConn(c, [conn[c] EXCEPT !.at = "eof"])
  \/ conn[c].at = "cut" /\ SetConn(c, NoConn)

\* The loop of a daemon that listens takes a connection from the backlog and
\* makes a task for it.
Accept(c) ==
  /\ Connected(c)
  /\ ~conn[c].accepted
  /\ daemon[conn[c].to] \in {"chmod", "serving"}
  /\ SetConn(c, [conn[c] EXCEPT !.accepted = TRUE])

\* (Mutant: connections are served one at a time, without the time limit.)
HandleInTurn(c) ==
  /\ conn[c].at \in {"sent", "eof"}
  /\ conn[c].accepted
  /\ \A other \in Clients \ {c} :
       conn[other].at = "open" => conn[other].to # conn[c].to
  /\ SetConn(c, NoConn)

\* _handle has its line, which goes to the notify queue, or has the end of
\* the input, which does not parse.  A daemon that is closing still does so,
\* and loses what it read.
Handle(c) ==
  /\ conn[c].at \in {"sent", "eof"}
  /\ conn[c].accepted
  /\ SetConn(c, NoConn)

\* _handle has waited a second for the line.
Timeout(c) ==
  /\ conn[c].at = "open"
  /\ conn[c].accepted
  /\ SetConn(c, Conn("cut", conn[c].to))

Connect(c) == Notify(c) \/ Status(c)

\* What a daemon goes on to do by itself.
DaemonStep(d) ==
  \/ Unlink(d) \/ ClearPath(d) \/ Bind(d) \/ Chmod(d) \/ StartFails(d)
  \/ UnlinkAtStop(d)

\* What the tasks of its connections do.
ConnectionStep(c) == Accept(c) \/ Handle(c)

\* What a signal, the radio, an agent or the clock decides.
SocketEvent ==
  \/ \E d \in Daemons : Stop(d) \/ Crash(d)
  \/ \E c \in Clients : Send(c) \/ KillClient(c) \/ Timeout(c)

SocketNext ==
  \/ \E d \in Daemons : Serve(d) \/ DaemonStep(d)
  \/ \E c \in Clients : Connect(c) \/ ConnectionStep(c)
  \/ SocketEvent

SocketSpec == SocketInit /\ [][SocketNext]_socketVars

-----------------------------------------------------------------------------
(* Properties.                                                             *)

SocketTypeOK ==
  /\ daemon \in [Daemons -> Starting \union {"down", "serving", "closing", "failed"}]
  /\ file \in Daemons \union {"none", "stale"}
  /\ conn \in [Clients -> Conns]
  /\ overlap \in BOOLEAN

\* A daemon that was alone all its life can be reached while it serves,
\* whatever the daemons before it left at the path (socket_server.py:78-84).
AloneReachable ==
  \A d \in Daemons : daemon[d] = "serving" /\ ~overlap => file = d

\* A daemon fails to start only when another one is up: a stale socket, or
\* none, is no obstacle (socket_server.py:80-83).
StartsAlone ==
  [][\A d \in Daemons :
       daemon[d] # "failed" /\ daemon'[d] = "failed" => overlap]_socketVars

\* Nobody waits for a process that is gone: while a connection is in the
\* backlog its daemon listens, and one that was accepted, however late the
\* line and whatever signal came meanwhile, has the process that accepted it
\* (socket_server.py:86-94, 100-115).
ConnectedToLiving ==
  \A c \in Clients :
    Connected(c) =>
      \/ daemon[conn[c].to] \in {"chmod", "serving"}
      \/ daemon[conn[c].to] = "closing" /\ conn[c].accepted

\* Why they hold: a daemon that is alone finds at each step of its start, and
\* while it serves, what it left at the path before; and the path names a
\* daemon only while that one listens.
Alone ==
  ~overlap =>
    \A d \in Daemons :
      /\ \A e \in Daemons : Up(d) /\ Up(e) => d = e
      /\ daemon[d] = "unlinking" => file # "none"
      /\ daemon[d] = "binding" => file = "none"
      /\ daemon[d] \in {"chmod", "serving"} => file = d

FileNamesListener ==
  \A d \in Daemons : file = d => daemon[d] \in {"chmod", "serving"}

SocketInv == SocketTypeOK /\ Alone /\ FileNamesListener /\ ConnectedToLiving

\* A line that was sent is taken, or lost with its daemon, whatever the other
\* clients do: one that connects and is slow holds up nobody but itself
\* (socket_server.py:100-115).
LineTaken ==
  \A c \in Clients : conn[c].at = "sent" ~> conn[c].at = "idle"

\* A daemon that serves can be reached, once nobody starts or stops another
\* ("Check `flipper-indicator status`. If it reports `down`, start the
\* daemon", README.md:140-141).
ServingMeansUp ==
  LET serving == {d \in Daemons : daemon[d] = "serving"}
  IN  serving # {} /\ (\A d \in Daemons \ serving : ~Up(d)) => file \in serving
=============================================================================
