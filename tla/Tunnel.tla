------------------------------- MODULE Tunnel -------------------------------
(***************************************************************************)
(* internal/tunnel: the manager's map of port forwardings (tunnel.go) and  *)
(* the three kinds of tunnel, local, remote and dynamic (SOCKS5), which    *)
(* share one life: listen, accept, a goroutine and a watcher for each      *)
(* connection, and a Stop that waits for the goroutines.                   *)
(*                                                                         *)
(* Tunnels are known by the order in which Open made them.  The provider   *)
(* of SSH clients, the dialled peers and the bytes they exchange are       *)
(* outside: every answer they may give is possible, and so is none.        *)
(***************************************************************************)
EXTENDS Naturals, Sequences, FiniteSets

CONSTANTS
  TunnelIDs,   \* Spec.ID
  Modes,       \* subset of {"local", "remote", "dynamic"}
  Conns,       \* the connections clients will make
  MaxTunnels   \* bound: tunnels ever made

ASSUME TunnelAssumption ==
  MaxTunnels \in Nat /\ Modes \subseteq {"local", "remote", "dynamic"}

VARIABLES
  tunnelOf,  \* m.tunnels: the tunnel registered under an ID, NoTunnel if none
  tunnels,   \* every tunnel made
  conns      \* every connection: its tunnel, where its goroutine is, its two ends, the two
             \* goroutines that copy between them, and whether its watcher runs

tunnelVars == <<tunnelOf, tunnels, conns>>

NoTunnel == 0
TunnelNumbers == DOMAIN tunnels
Running == {"accepted", "handling", "handshake", "dialing", "copying"}

\* What t.wg counts: the accept loop (which may hold an accepted connection) and
\* the goroutines of connections.
Counted(t) ==
  {c \in Conns : conns[c].of = t /\ conns[c].at \in Running \ {"accepted"}}
    \union (IF tunnels[t].loop THEN {"acceptLoop"} ELSE {})

Held(t) == \E c \in Conns : conns[c].of = t /\ conns[c].at = "accepted"

\* The ends of a connection: near is what was accepted, far what was dialled; one is a TCP
\* connection and the other a channel of the SSH connection.  A closed TCP connection is gone
\* at once; what blocks in a channel is let go when the server has answered the close.
NoConn == [of |-> NoTunnel, at |-> "none", near |-> "none", far |-> "none",
           up |-> "over", down |-> "over", watched |-> FALSE]
Mode(c) == tunnels[conns[c].of].mode
NearClosed(c) ==
  IF conns[c].near # "open" THEN conns[c].near ELSE IF Mode(c) = "remote" THEN "closed" ELSE "gone"
FarClosed(c) ==
  IF conns[c].far # "open" THEN conns[c].far ELSE IF Mode(c) = "remote" THEN "gone" ELSE "closed"

TunInit ==
  /\ tunnelOf = [id \in TunnelIDs |-> NoTunnel]
  /\ tunnels = <<>>
  /\ conns = [c \in Conns |-> NoConn]

-----------------------------------------------------------------------------
\* The tunnels other calls of Open are making under an ID.
Rivals(id) == {t \in TunnelNumbers : tunnels[t].id = id /\ tunnels[t].opening \in {"starting", "started"}}

\* The construction of a tunnel; `raced' is history: Opens of one ID overlapped.
NewTunnel(id, m) ==
  /\ Len(tunnels) < MaxTunnels
  /\ tunnels' = Append(
       [t \in TunnelNumbers |-> IF t \in Rivals(id) THEN [tunnels[t] EXCEPT !.raced = TRUE] ELSE tunnels[t]],
       [id |-> id, mode |-> m, state |-> "new", opening |-> "starting", raced |-> Rivals(id) # {},
        listener |-> "none", loop |-> FALSE, stop |-> "no"])
  /\ UNCHANGED <<tunnelOf, conns>>

\* Mutant of TunOpen: no look for a duplicate.
OpenUnchecked(id, m) == NewTunnel(id, m)

\* MemoryManager.Open up to the construction: the requirements are met and the ID
\* is free when it looks.
TunOpen(id, m) == tunnelOf[id] = NoTunnel /\ NewTunnel(id, m)

\* Start: the listener is up, the state Active, the accept loop runs.
TunListen(t) ==
  /\ tunnels[t].opening = "starting"
  /\ tunnels' = [tunnels EXCEPT ![t].opening = "started", ![t].state = "active",
                                ![t].listener = "open", ![t].loop = TRUE]
  /\ UNCHANGED <<tunnelOf, conns>>

\* Start fails (address in use; for remote, no client or no permission), and Open
\* calls Stop, which has nothing to close or to wait for.
TunListenFails(t) ==
  /\ tunnels[t].opening = "starting"
  /\ tunnels' = [tunnels EXCEPT ![t].opening = "refused", ![t].state = "stopped",
                                ![t].stop = "returned"]
  /\ UNCHANGED <<tunnelOf, conns>>

\* Open's last critical section, whatever the map holds by now.
TunRegister(t) ==
  /\ tunnels[t].opening = "started"
  /\ tunnelOf' = [tunnelOf EXCEPT ![tunnels[t].id] = t]
  /\ tunnels' = [tunnels EXCEPT ![t].opening = "registered"]
  /\ UNCHANGED conns

\* MemoryManager.Close: out of the map, then Stop begins by closing stopCh.
TunClose(id) ==
  /\ tunnelOf[id] # NoTunnel
  /\ tunnelOf' = [tunnelOf EXCEPT ![id] = NoTunnel]
  /\ tunnels' = [tunnels EXCEPT ![tunnelOf[id]].stop = "signalled"]
  /\ UNCHANGED conns

\* Stop closes the listener.  Accept fails from now on; for a remote tunnel Close goes on to
\* ask the server to cancel the forwarding.
StopListener(t) ==
  /\ tunnels[t].stop = "signalled"
  /\ tunnels' = [tunnels EXCEPT ![t].stop = "closing", ![t].listener = "closed"]
  /\ UNCHANGED <<tunnelOf, conns>>

\* listener.Close returns, with an error or not: the state is Stopped.
ListenerClosed(t) ==
  /\ tunnels[t].stop = "closing"
  /\ tunnels' = [tunnels EXCEPT ![t].stop = "waiting", ![t].state = "stopped"]
  /\ UNCHANGED <<tunnelOf, conns>>

\* Mutant of StopReturn: Stop does not wait.
StopReturnAtOnce(t) ==
  /\ tunnels[t].stop = "waiting"
  /\ tunnels' = [tunnels EXCEPT ![t].stop = "returned"]
  /\ UNCHANGED <<tunnelOf, conns>>

\* Stop: wg.Wait is over.
StopReturn(t) ==
  /\ tunnels[t].stop = "waiting"
  /\ Counted(t) = {}
  /\ tunnels' = [tunnels EXCEPT ![t].stop = "returned"]
  /\ UNCHANGED <<tunnelOf, conns>>

-----------------------------------------------------------------------------
\* acceptLoop: Accept returns a connection; a remote listener also one that was announced
\* before it was closed.
Accept(t, c) ==
  /\ tunnels[t].loop /\ ~Held(t)
  /\ tunnels[t].listener = "open" \/ tunnels[t].mode = "remote"
  /\ conns[c].at = "none"
  /\ conns' = [conns EXCEPT ![c].of = t, ![c].at = "accepted", ![c].near = "open"]
  /\ UNCHANGED <<tunnelOf, tunnels>>

\* Accept returns an error: the loop ends and nothing else changes.
LoopOver(t) ==
  /\ tunnels[t].loop /\ ~Held(t)
  /\ tunnels' = [tunnels EXCEPT ![t].loop = FALSE]
  /\ UNCHANGED <<tunnelOf, conns>>

AcceptClosed(t) == tunnels[t].listener = "closed" /\ LoopOver(t)

\* The listener died without Stop: the remote end of a remote tunnel is gone.
AcceptFails(t) == tunnels[t].listener = "open" /\ LoopOver(t)

\* The end of a connection's goroutine: its deferred calls close both ends.
Over(c) == conns' = [conns EXCEPT ![c].at = "over", ![c].near = NearClosed(c), ![c].far = FarClosed(c)]

At(c, where) == conns[c].at = where /\ UNCHANGED <<tunnelOf, tunnels>>

\* acceptLoop: a local tunnel drops the connection when there is no client; else
\* wg.Add and a goroutine.
Dispatch(c) ==
  /\ At(c, "accepted")
  /\ \/ conns' = [conns EXCEPT ![c].at = "handling"]
     \/ Mode(c) = "local" /\ Over(c)

\* handleConn starts the watcher and goes on to the handshake or the dial.
HandleConn(c) ==
  /\ At(c, "handling")
  /\ conns' = [conns EXCEPT ![c].watched = TRUE,
                 ![c].at = IF Mode(c) = "dynamic" THEN "handshake" ELSE "dialing"]

\* handshakeAndResolve and the look-up of the client: what the SOCKS client asks
\* for is accepted, which takes an open connection.
Handshake(c) ==
  /\ At(c, "handshake")
  /\ conns[c].near = "open"
  /\ conns' = [conns EXCEPT ![c].at = "dialing"]

\* A bad version, method, command or address, no SSH client: the reply, if any, and
\* out.
HandshakeFails(c) == At(c, "handshake") /\ Over(c)

\* The dial answers: two goroutines copy, up to the far end and down from it.  A SOCKS
\* client is told first, which fails on a connection closed meanwhile.
DialOk(c) ==
  /\ At(c, "dialing")
  /\ IF Mode(c) = "dynamic" /\ conns[c].near # "open"
       THEN Over(c)
       ELSE conns' = [conns EXCEPT ![c].at = "copying", ![c].far = "open",
                                   ![c].up = "reading", ![c].down = "reading"]

DialFails(c) == At(c, "dialing") /\ Over(c)

\* io.CopyBuffer, by direction: Read returns data, and Write is called, which returns when
\* the other side takes the data: a channel whose window is full, or a TCP peer that does
\* not read, blocks it.
CopyRead(c) ==
  /\ At(c, "copying")
  /\ \/ /\ conns[c].up = "reading" /\ conns[c].near # "gone"
        /\ conns' = [conns EXCEPT ![c].up = "writing"]
     \/ /\ conns[c].down = "reading" /\ conns[c].far # "gone"
        /\ conns' = [conns EXCEPT ![c].down = "writing"]

CopyWritten(c) ==
  /\ At(c, "copying")
  /\ \/ /\ conns[c].up = "writing" /\ conns[c].far = "open"
        /\ conns' = [conns EXCEPT ![c].up = "reading"]
     \/ /\ conns[c].down = "writing" /\ conns[c].near = "open"
        /\ conns' = [conns EXCEPT ![c].down = "reading"]

\* A direction that ends calls closeBoth.
UpOver(c) ==
  /\ At(c, "copying") /\ conns[c].up # "over"
  /\ conns' = [conns EXCEPT ![c].up = "over", ![c].near = NearClosed(c), ![c].far = FarClosed(c)]
DownOver(c) ==
  /\ At(c, "copying") /\ conns[c].down # "over"
  /\ conns' = [conns EXCEPT ![c].down = "over", ![c].near = NearClosed(c), ![c].far = FarClosed(c)]

\* At the end of the data or for an error, which a peer may cause at any time ...
CopyEnds(c) == UpOver(c) \/ DownOver(c)

\* ... and must once what the direction reads from or writes to is gone.
CopyCut(c) ==
  \/ UpOver(c) /\ (IF conns[c].up = "reading" THEN conns[c].near ELSE conns[c].far) = "gone"
  \/ DownOver(c) /\ (IF conns[c].down = "reading" THEN conns[c].far ELSE conns[c].near) = "gone"

\* The server has answered the close of a channel, or the SSH connection is over.
ChannelGone(c) ==
  /\ At(c, "copying")
  /\ "closed" \in {conns[c].near, conns[c].far}
  /\ conns' = [conns EXCEPT ![c].near = IF @ = "closed" THEN "gone" ELSE @,
                            ![c].far = IF @ = "closed" THEN "gone" ELSE @]

\* copyWg.Wait returns.
CopyDone(c) ==
  /\ At(c, "copying")
  /\ conns[c].up = "over" /\ conns[c].down = "over"
  /\ Over(c)

\* Mutant of Watch: the watcher waits for ctx alone, which is never cancelled.
WatchContext(c) == conns[c].watched /\ FALSE /\ UNCHANGED tunnelVars

\* The watcher: stopCh is closed, so it closes what was accepted, and only that.
Watch(c) ==
  /\ conns[c].watched
  /\ tunnels[conns[c].of].stop # "no"
  /\ conns' = [conns EXCEPT ![c].watched = FALSE, ![c].near = NearClosed(c)]
  /\ UNCHANGED <<tunnelOf, tunnels>>

-----------------------------------------------------------------------------
\* The steps that need nobody but the scheduler.
ConnStep(c) ==
  \/ Dispatch(c) \/ HandleConn(c) \/ Watch(c) \/ CopyCut(c) \/ CopyDone(c)
  \/ conns[c].near = "gone" /\ HandshakeFails(c)

TunStep(t) ==
  \/ StopListener(t) \/ StopReturn(t) \/ AcceptClosed(t)
  \/ tunnels[t].mode # "remote" /\ ListenerClosed(t)

TunNext ==
  \/ \E id \in TunnelIDs : TunClose(id) \/ \E m \in Modes : TunOpen(id, m)
  \/ \E t \in TunnelNumbers :
       \/ TunListen(t) \/ TunListenFails(t) \/ TunRegister(t) \/ AcceptFails(t)
       \/ TunStep(t) \/ ListenerClosed(t)
       \/ \E c \in Conns : Accept(t, c)
  \/ \E c \in Conns :
       \/ ConnStep(c) \/ Handshake(c) \/ HandshakeFails(c) \/ DialOk(c) \/ DialFails(c)
       \/ CopyRead(c) \/ CopyWritten(c) \/ CopyEnds(c) \/ ChannelGone(c)

TunSpec == TunInit /\ [][TunNext]_tunnelVars

-----------------------------------------------------------------------------
EndStates == {"none", "open", "closed", "gone"}
CopyStates == {"reading", "writing", "over"}

TunTypeOK ==
  /\ tunnelOf \in [TunnelIDs -> TunnelNumbers \union {NoTunnel}]
  /\ \A t \in TunnelNumbers : tunnels[t] \in
       [id : TunnelIDs, mode : Modes, state : {"new", "active", "stopped"},
        opening : {"starting", "started", "registered", "refused"}, raced : BOOLEAN,
        listener : {"none", "open", "closed"}, loop : BOOLEAN,
        stop : {"no", "signalled", "closing", "waiting", "returned"}]
  /\ conns \in [Conns ->
       [of : TunnelNumbers \union {NoTunnel}, at : Running \union {"none", "over"},
        near : EndStates, far : EndStates, up : CopyStates, down : CopyStates, watched : BOOLEAN]]

\* When Stop has returned nothing of the tunnel goes on: no listener, no accept
\* loop, no goroutine of a connection and no end still open, also of those
\* accepted while Stop was under way (local.go: "avoid goroutines still running
\* after Stop").
StopIsQuiet ==
  \A t \in TunnelNumbers : tunnels[t].stop = "returned" =>
    /\ tunnels[t].listener # "open" /\ ~tunnels[t].loop
    /\ \A c \in Conns : conns[c].of = t =>
         conns[c].at = "over" /\ conns[c].near # "open" /\ conns[c].far # "open"

\* What of a tunnel waits for an answer from outside: a dial, a Write to the far end that the
\* watcher does not close, a channel whose close is not answered, and the cancellation of a
\* remote forwarding.
OnPeer(t) ==
  \/ tunnels[t].stop = "closing" /\ tunnels[t].mode = "remote"
  \/ \E c \in Conns : conns[c].of = t /\
       \/ conns[c].at = "dialing"
       \/ conns[c].at = "copying" /\ (conns[c].up = "writing" \/ "closed" \in {conns[c].near, conns[c].far})

\* Stop returns unless something of the tunnel waits for a peer again and again: silent
\* clients, idle streams, clients that do not read and connections accepted meanwhile do not
\* hold it (the watcher of v0.6.1).
StopEnds(t) ==
  \/ []<>(t \in TunnelNumbers /\ OnPeer(t))
  \/ (t \in TunnelNumbers /\ tunnels[t].stop = "signalled")
       ~> (t \in TunnelNumbers /\ tunnels[t].stop = "returned")
StopsEnd == \A t \in 1 .. MaxTunnels : StopEnds(t)

\* A tunnel that was opened stays reachable under its ID until somebody closes it:
\* no later Open takes its place.  (The check for duplicates and the registration
\* are two critical sections with Start in between, so two Opens of one ID that
\* overlap may both register; those are set aside.)
OpenedIsReachable ==
  \A t \in TunnelNumbers :
    tunnels[t].opening = "registered" /\ tunnels[t].stop = "no" /\ ~tunnels[t].raced =>
      tunnelOf[tunnels[t].id] = t
=============================================================================
