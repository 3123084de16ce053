---------------------------- MODULE SocketProofs ----------------------------
(***************************************************************************)
(* Proofs about SocketServer, for any number of daemons and clients: the   *)
(* inductive invariant SocketInv and what follows from it.                 *)
(***************************************************************************)
EXTENDS SocketServer, TLAPS

\* The path is named by no daemon when it is free or its socket is stale.
LEMMA NotADaemon == "none" \notin Daemons /\ "stale" \notin Daemons
BY SocketAssumption

\* No daemon is up at first, and nobody is connected.
LEMMA InitInv == SocketInit => SocketInv
<1> SUFFICES ASSUME SocketInit PROVE SocketInv
  OBVIOUS
<1>1. overlap \in BOOLEAN
  BY DEF SocketInit
<1>2. SocketTypeOK
  BY <1>1 DEF SocketInit, SocketTypeOK, Starting, Conns
<1>3. Alone /\ FileNamesListener
  BY NotADaemon DEF SocketInit, Alone, FileNamesListener, Up, Starting
<1>4. ConnectedToLiving
  BY DEF SocketInit, ConnectedToLiving, Connected, NoConn
<1> QED
  BY <1>2, <1>3, <1>4 DEF SocketInv

\* What Hangup does to each connection: one that is left is as it was, and
\* not one of those to be ended.
LEMMA HangupConn ==
  ASSUME SocketTypeOK, NEW d \in Daemons, NEW those, Hangup(d, those)
  PROVE  /\ conn' \in [Clients -> Conns]
         /\ \A c \in Clients :
              Connected(c)' =>
                /\ Connected(c)
                /\ conn'[c] = conn[c]
                /\ conn[c].to # d \/ c \notin those
<1>1. conn \in [Clients -> Conns]
  BY DEF SocketTypeOK
<1> SUFFICES ASSUME NEW c \in Clients
             PROVE  /\ conn'[c] \in Conns
                    /\ Connected(c)' =>
                         /\ Connected(c)
                         /\ conn'[c] = conn[c]
                         /\ conn[c].to # d \/ c \notin those
  BY DEF Hangup
<1>2. conn[c] \in Conns
  BY <1>1
<1>3. CASE conn[c].to # d \/ c \notin those
  BY <1>2, <1>3 DEF Hangup, Connected
<1>4. CASE conn[c].to = d /\ c \in those /\ conn[c].at \in {"open", "cut"}
  BY <1>4 DEF Hangup, Conns, Conn, Connected
<1>5. CASE conn[c].to = d /\ c \in those /\ conn[c].at \notin {"open", "cut"}
  BY <1>5 DEF Hangup, Conns, NoConn, Connected
<1> QED
  BY <1>3, <1>4, <1>5

\* A step of one daemon that starts, goes on starting, or ends.
LEMMA DaemonInv ==
  ASSUME SocketInv, NEW d \in Daemons,
         Serve(d) \/ Unlink(d) \/ ClearPath(d) \/ Bind(d) \/ Chmod(d)
  PROVE  SocketInv'
<1> USE NotADaemon DEF Move, Starting
<1>1. /\ daemon \in [Daemons -> Starting \union {"down", "serving", "closing", "failed"}]
      /\ file \in Daemons \union {"none", "stale"}
      /\ overlap \in BOOLEAN
      /\ conn \in [Clients -> Conns]
  BY DEF SocketInv, SocketTypeOK
<1>2. conn' = conn
  BY DEF Serve, Unlink, ClearPath, Bind, Chmod
<1>3. \A e \in Daemons \ {d} : daemon'[e] = daemon[e]
  BY <1>1 DEF Serve, Unlink, ClearPath, Bind, Chmod
<1>4. daemon[d] = "serving" => FALSE
  BY DEF Serve, Unlink, ClearPath, Bind, Chmod
<1>5. daemon[d] = "chmod" => daemon'[d] = "serving"
  BY <1>1 DEF Serve, Unlink, ClearPath, Bind, Chmod
<1>6. SocketTypeOK'
  BY <1>1, <1>2
  DEF Serve, Unlink, ClearPath, Bind, Chmod, SocketTypeOK
<1>7. Alone'
  <2>1. CASE Serve(d)
    BY <1>1, <1>3, <2>1 DEF Serve, Alone, Up
  <2>2. CASE ~Serve(d)
    <3>1. overlap' = overlap
      BY <2>2 DEF Unlink, ClearPath, Bind, Chmod
    <3>2. \A e \in Daemons : Up(e)' => Up(e)
      BY <1>1, <1>3, <2>2 DEF Unlink, ClearPath, Bind, Chmod, Up
    <3>3. Up(d)
      BY <2>2 DEF Unlink, ClearPath, Bind, Chmod, Up
    <3>4. /\ daemon'[d] = "unlinking" => FALSE
          /\ daemon'[d] = "binding" => file' = "none"
          /\ daemon'[d] = "chmod" => file' = d
          /\ daemon'[d] = "serving" => daemon[d] = "chmod" /\ file' = file
      BY <1>1, <2>2 DEF Unlink, ClearPath, Bind, Chmod
    <3> SUFFICES ASSUME ~overlap', NEW e \in Daemons
                 PROVE  /\ \A f \in Daemons : Up(e)' /\ Up(f)' => e = f
                        /\ daemon'[e] = "unlinking" => file' # "none"
                        /\ daemon'[e] = "binding" => file' = "none"
                        /\ daemon'[e] \in {"chmod", "serving"} => file' = e
      BY DEF Alone
    <3>5. \A f, g \in Daemons : Up(f) /\ Up(g) => f = g
      BY <3>1 DEF SocketInv, Alone
    <3>6. CASE e = d
      BY <3>1, <3>2, <3>4, <3>5, <3>6 DEF SocketInv, Alone
    <3>7. CASE e # d
      <4>1. ~Up(e)
        BY <3>3, <3>5, <3>7
      <4>2. ~Up(e)'
        BY <3>2, <4>1
      <4> QED
        BY <4>2 DEF Up
    <3> QED
      BY <3>6, <3>7
  <2> QED
    BY <2>1, <2>2
<1>8. FileNamesListener'
  BY <1>1, <1>3, <1>5
  DEF SocketInv, FileNamesListener, Serve, Unlink, ClearPath, Bind, Chmod
<1>9. ConnectedToLiving'
  <2> SUFFICES ASSUME NEW c \in Clients, Connected(c)
               PROVE  \/ daemon'[conn[c].to] \in {"chmod", "serving"}
                      \/ daemon'[conn[c].to] = "closing" /\ conn[c].accepted
    BY <1>2 DEF ConnectedToLiving, Connected
  <2>1. conn[c].to \in Daemons
    BY <1>1 DEF Conns, NoConn, Connected
  <2>2. \/ daemon[conn[c].to] \in {"chmod", "serving"}
        \/ daemon[conn[c].to] = "closing" /\ conn[c].accepted
    BY DEF SocketInv, ConnectedToLiving
  <2>3. daemon[d] = "closing" => FALSE
    BY DEF Serve, Unlink, ClearPath, Bind, Chmod
  <2> QED
    BY <1>3, <1>4, <1>5, <2>1, <2>2, <2>3
<1> QED
  BY <1>6, <1>7, <1>8, <1>9 DEF SocketInv

\* A daemon that ends drops its clients with it; one that closes its server
\* drops those it has not accepted.
LEMMA EndInv ==
  ASSUME SocketInv, NEW d \in Daemons, 
         StartFails(d) \/ Stop(d) \/ UnlinkAtStop(d) \/ Crash(d)
  PROVE  SocketInv'
<1> USE NotADaemon DEF Move, Starting
<1>1. /\ daemon \in [Daemons -> Starting \union {"down", "serving", "closing", "failed"}]
      /\ file \in Daemons \union {"none", "stale"}
      /\ overlap \in BOOLEAN
      /\ conn \in [Clients -> Conns]
  BY DEF SocketInv, SocketTypeOK
<1>2. /\ overlap' = overlap
      /\ daemon' = [daemon EXCEPT ![d] = daemon'[d]]
      /\ daemon'[d] \in {"down", "failed", "closing"}
      /\ file' # d
      /\ file' \in {file, "stale", "none"}
  BY <1>1 DEF StartFails, Stop, UnlinkAtStop, Crash, End
<1>10. PICK those :
         /\ Hangup(d, those)
         /\ \/ those = Clients
            \/ /\ those = {c \in Clients : ~conn[c].accepted}
               /\ daemon'[d] = "closing"
  BY <1>1 DEF StartFails, Stop, UnlinkAtStop, Crash, End
<1>3. \A e \in Daemons \ {d} : daemon'[e] = daemon[e]
  BY <1>1, <1>2
<1>4. SocketTypeOK'
  BY <1>1, <1>2, <1>10, HangupConn DEF SocketInv, SocketTypeOK
<1>5. Up(d)
  BY DEF StartFails, Stop, UnlinkAtStop, Crash, End, Up
<1>6. \A e \in Daemons : Up(e)' => Up(e)
  BY <1>2, <1>3, <1>5 DEF Up
<1>7. Alone'
  <2> SUFFICES ASSUME ~overlap', NEW e \in Daemons
               PROVE  /\ \A f \in Daemons : Up(e)' /\ Up(f)' => e = f
                      /\ daemon'[e] = "unlinking" => file' # "none"
                      /\ daemon'[e] = "binding" => file' = "none"
                      /\ daemon'[e] \in {"chmod", "serving"} => file' = e
    BY DEF Alone
  <2>1. \A f, g \in Daemons : Up(f) /\ Up(g) => f = g
    BY <1>2 DEF SocketInv, Alone
  <2>2. CASE e = d
    BY <1>2, <1>6, <2>1, <2>2
  <2>3. CASE e # d
    <3>1. ~Up(e)'
      BY <1>5, <1>6, <2>1, <2>3
    <3> QED
      BY <3>1 DEF Up
  <2> QED
    BY <2>2, <2>3
<1>8. FileNamesListener'
  BY <1>1, <1>2, <1>3 DEF SocketInv, FileNamesListener
<1>9. ConnectedToLiving'
  <2> SUFFICES ASSUME NEW c \in Clients, Connected(c)'
               PROVE  \/ daemon'[conn'[c].to] \in {"chmod", "serving"}
                      \/ daemon'[conn'[c].to] = "closing" /\ conn'[c].accepted
    BY DEF ConnectedToLiving
  <2>1. /\ Connected(c)
        /\ conn'[c] = conn[c]
        /\ conn[c].to # d \/ c \notin those
    BY <1>10, HangupConn DEF SocketInv
  <2>2. conn[c] \in Conns
    BY <1>1
  <2>3. conn[c].to \in Daemons
    BY <2>1, <2>2 DEF Conns, NoConn, Connected
  <2>4. \/ daemon[conn[c].to] \in {"chmod", "serving"}
        \/ daemon[conn[c].to] = "closing" /\ conn[c].accepted
    BY <2>1 DEF SocketInv, ConnectedToLiving
  <2>5. CASE conn[c].to # d
    BY <1>3, <2>1, <2>3, <2>4, <2>5
  <2>6. CASE conn[c].to = d
    <3>1. those # Clients
      BY <2>1, <2>6
    <3>2. daemon'[d] = "closing" /\ conn[c].accepted
      BY <1>10, <2>1, <2>6, <3>1
    <3> QED
      BY <2>1, <2>6, <3>2
  <2> QED
    BY <2>5, <2>6
<1> QED
  BY <1>4, <1>7, <1>8, <1>9 DEF SocketInv

\* A step of a client, or of the task that reads from it.
LEMMA ClientInv ==
  ASSUME SocketInv, NEW c \in Clients,
         \/ Connect(c) \/ Send(c) \/ KillClient(c)
         \/ Accept(c) \/ Handle(c) \/ Timeout(c)
  PROVE  SocketInv'
<1> USE DEF SetConn
<1>1. conn \in [Clients -> Conns]
  BY DEF SocketInv, SocketTypeOK
<1>2. UNCHANGED <<daemon, file, overlap>>
  BY DEF Connect, Notify, Status, Send, KillClient, Accept, Handle, Timeout
<1>3. \A other \in Clients \ {c} : conn'[other] = conn[other]
  BY <1>1 DEF Connect, Notify, Status, Send, KillClient, Accept, Handle, Timeout
<1>4. /\ conn' = [conn EXCEPT ![c] = conn'[c]]
      /\ conn'[c] \in Conns
      /\ Connected(c)' =>
           \/ conn'[c].to = file /\ file \in Daemons
           \/ /\ Connected(c)
              /\ conn'[c].to = conn[c].to
              /\ conn[c].accepted => conn'[c].accepted
  <2>1. conn[c] \in Conns
    BY <1>1
  <2>2. CASE Connect(c)
    <3>1. conn'[c] \in {Conn("open", file), Conn("eof", file)} /\ file \in Daemons
      <4>1. CASE Notify(c)
        BY <1>1, <4>1 DEF Notify
      <4>2. CASE Status(c)
        BY <1>1, <4>2 DEF Status
      <4> QED
        BY <2>2, <4>1, <4>2 DEF Connect
    <3>2. conn'[c] \in Conns /\ conn'[c].to = file
      <4>1. \A at \in {"open", "eof"}, e \in Daemons :
              Conn(at, e) \in Conns /\ Conn(at, e).to = e
        BY DEF Conns, Conn
      <4> QED
        BY <3>1, <4>1
    <3>3. conn' = [conn EXCEPT ![c] = conn'[c]]
      <4>1. ASSUME NEW new, SetConn(c, new)
            PROVE  conn' = [conn EXCEPT ![c] = conn'[c]]
        BY <1>1, <4>1
      <4>2. SetConn(c, Conn("open", file)) \/ SetConn(c, Conn("eof", file))
        BY <2>2 DEF Connect, Notify, Status
      <4> QED
        BY <4>1, <4>2
    <3> QED
      BY <3>1, <3>2, <3>3
  <2>3. CASE Handle(c)
    BY <1>1, <2>3 DEF Handle, Conns, NoConn, Connected
  <2>4. CASE Send(c) \/ KillClient(c) \/ Accept(c) \/ Timeout(c)
    <3>1. CASE Connected(c)
      <4>1. conn[c] \in [at : {"open", "sent", "eof", "cut"}, to : Daemons,
                         accepted : BOOLEAN]
        BY <2>1, <3>1 DEF Conns, NoConn, Connected
      <4>2. CASE Send(c) \/ KillClient(c)
        BY <1>1, <3>1, <4>1, <4>2 DEF Send, KillClient, Conns, Connected
      <4>3. CASE Accept(c)
        BY <1>1, <3>1, <4>1, <4>3 DEF Accept, Conns, Connected
      <4>4. CASE Timeout(c)
        BY <1>1, <3>1, <4>1, <4>4 DEF Timeout, Conns, Conn, Connected
      <4> QED
        BY <2>4, <4>2, <4>3, <4>4
    <3>2. CASE conn[c].at = "cut"
      BY <1>1, <2>4, <3>2
      DEF Send, KillClient, Accept, Timeout, Conns, NoConn, Connected
    <3> QED
      BY <2>4, <3>1, <3>2 DEF Send, KillClient, Accept, Timeout, Connected
  <2> QED
    BY <2>2, <2>3, <2>4
<1>5. SocketTypeOK'
  BY <1>1, <1>2, <1>4 DEF SocketInv, SocketTypeOK
<1>6. Alone' /\ FileNamesListener'
  BY <1>2 DEF SocketInv, Alone, FileNamesListener, Up
<1>7. ConnectedToLiving'
  <2> SUFFICES ASSUME NEW other \in Clients, Connected(other)'
               PROVE  \/ daemon[conn'[other].to] \in {"chmod", "serving"}
                      \/ /\ daemon[conn'[other].to] = "closing"
                         /\ conn'[other].accepted
    BY <1>2 DEF ConnectedToLiving
  <2>1. CASE other = c
    BY <1>4, <2>1 DEF SocketInv, ConnectedToLiving, FileNamesListener
  <2>2. CASE other # c
    BY <1>3, <2>2 DEF SocketInv, ConnectedToLiving, Connected
  <2> QED
    BY <2>1, <2>2
<1> QED
  BY <1>5, <1>6, <1>7 DEF SocketInv

\* The variables of the socket server keep their types, a daemon that is
\* alone finds the path as it left it, the path names only daemons that
\* listen, and a connection is with one that listens or has accepted it: in
\* every reachable state.
THEOREM SocketInductive == SocketSpec => []SocketInv
<1>1. SocketInv /\ [SocketNext]_socketVars => SocketInv'
  <2> SUFFICES ASSUME SocketInv, [SocketNext]_socketVars PROVE SocketInv'
    OBVIOUS
  <2>1. CASE UNCHANGED socketVars
    BY <2>1
    DEF socketVars, SocketInv, SocketTypeOK, Alone, Up, FileNamesListener,
        ConnectedToLiving, Connected
  <2>2. ASSUME NEW d \in Daemons, Serve(d) \/ DaemonStep(d) \/ Stop(d) \/ Crash(d)
        PROVE  SocketInv'
    BY <2>2, DaemonInv, EndInv DEF DaemonStep
  <2>3. ASSUME NEW c \in Clients,
               \/ Connect(c) \/ Accept(c) \/ Handle(c)
               \/ Send(c) \/ KillClient(c) \/ Timeout(c)
        PROVE  SocketInv'
    BY <2>3, ClientInv
  <2> QED
    BY <2>1, <2>2, <2>3 DEF SocketNext, SocketEvent, ConnectionStep
<1> QED
  BY <1>1, InitInv, PTL DEF SocketSpec

\* However many daemons were started, stopped or killed before it, one that
\* has been alone all its life is reachable at the socket path while it serves.
THEOREM ReachableAlone == SocketSpec => []AloneReachable
<1>1. SocketInv => AloneReachable
  BY DEF SocketInv, Alone, AloneReachable
<1> QED
  BY <1>1, SocketInductive, PTL

\* No connection outlives the process of its daemon, and one that was not
\* accepted not even its listening socket.
THEOREM ConnectionsLive == SocketSpec => []ConnectedToLiving
<1>1. SocketInv => ConnectedToLiving
  BY DEF SocketInv
<1> QED
  BY <1>1, SocketInductive, PTL

\* What crashed or stopped daemons leave at the path never makes the start of
\* the next one fail: it takes another daemon that is up.
THEOREM StartsWhenAlone == SocketSpec => StartsAlone
<1>1. SocketInv /\ [SocketNext]_socketVars =>
        [\A d \in Daemons :
           daemon[d] # "failed" /\ daemon'[d] = "failed" => overlap]_socketVars
  <2> SUFFICES ASSUME SocketInv, SocketNext, NEW d \in Daemons,
                      daemon[d] # "failed", daemon'[d] = "failed"
               PROVE  overlap
    OBVIOUS
  <2>1. daemon \in [Daemons -> Starting \union {"down", "serving", "closing", "failed"}]
    BY DEF SocketInv, SocketTypeOK
  <2>2. PICK e \in Daemons :
          Serve(e) \/ DaemonStep(e) \/ Stop(e) \/ Crash(e)
    BY DEF SocketNext, SocketEvent, Connect, Notify, Status, Send, KillClient,
       ConnectionStep, Accept, Handle, Timeout, SetConn
  <2>3. StartFails(e) /\ e = d
    BY <2>1, <2>2
    DEF Serve, DaemonStep, Unlink, ClearPath, Bind, Chmod, StartFails,
        UnlinkAtStop, Stop, Crash, Move, End
  <2> QED
    BY <2>3, NotADaemon DEF SocketInv, Alone, StartFails
<1> QED
  BY <1>1, SocketInductive, PTL DEF SocketSpec, StartsAlone
=============================================================================
