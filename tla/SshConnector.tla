---------------------------- MODULE SshConnector ----------------------------
(***************************************************************************)
(* internal/sshclient: the Connector a session dials with.  Dial makes a   *)
(* TCP connection, an SSH client over it and a keepalive goroutine;        *)
(* OpenSession makes a shell on the client.  The session (module Session)  *)
(* sees both as steps that succeed or fail; here is what they leave behind *)
(* when they fail half way.                                                *)
(***************************************************************************)
EXTENDS KeepAlive

VARIABLES
  sshAt,     \* how far Dial, then OpenSession, are
  tcp,       \* rawConn is open
  rawClient, \* c.client: none, open or closed
  shell,     \* the *ssh.Session is open
  sshKeep,   \* the keepalive goroutine
  sshDone    \* c.done is closed

sshVars == <<sshAt, tcp, rawClient, shell, sshKeep, sshDone>>

SshGo(from, to) == sshAt = from /\ sshAt' = to

SshInit ==
  /\ sshAt = "dial" /\ tcp = FALSE /\ rawClient = "none" /\ shell = FALSE
  /\ sshKeep = "none" /\ sshDone = FALSE

-----------------------------------------------------------------------------
\* Dial: the parameters and authentication methods are in order, TCP is up.
SshTcp ==
  /\ SshGo("dial", "handshake")
  /\ tcp' = TRUE
  /\ UNCHANGED <<rawClient, shell, sshKeep, sshDone>>

\* A missing host or user, a bad port, no usable credential, or TCP fails.
SshTcpFails == SshGo("dial", "refused") /\ UNCHANGED <<tcp, rawClient, shell, sshKeep, sshDone>>

\* NewClientConn, then the client is stored and the keepalive started.
SshHandshake ==
  /\ SshGo("handshake", "dialed") /\ tcp
  /\ rawClient' = "open"
  /\ sshKeep' = "waiting"
  /\ UNCHANGED <<tcp, shell, sshDone>>

SshHandshakeFails ==
  /\ SshGo("handshake", "refused")
  /\ tcp' = FALSE
  /\ UNCHANGED <<rawClient, shell, sshKeep, sshDone>>

\* OpenSession: NewSession opens a channel, which every later error must close.
SshNewSession ==
  /\ SshGo("dialed", "pty") /\ rawClient = "open"
  /\ shell' = TRUE
  /\ UNCHANGED <<tcp, rawClient, sshKeep, sshDone>>

SshNewSessionFails == SshGo("dialed", "noshell") /\ UNCHANGED <<tcp, rawClient, shell, sshKeep, sshDone>>

\* RequestPty and the environment, then the pipes, then Shell; the pipes are not to
\* be had once Shell has started.
SshPrepare ==
  /\ SshGo("pty", "pipes") \/ SshGo("pipes", "shell") \/ SshGo("shell", "open")
  /\ rawClient = "open"
  /\ UNCHANGED <<tcp, rawClient, shell, sshKeep, sshDone>>

\* Mutant of SshPrepareFails: `closed' is set before Shell.
SshPrepareFailsLate ==
  /\ SshGo("pty", "noshell") \/ SshGo("pipes", "noshell") \/ SshGo("shell", "noshell")
  /\ shell' = (sshAt = "shell")
  /\ UNCHANGED <<tcp, rawClient, sshKeep, sshDone>>

\* One of them fails: the deferred function closes the session.
SshPrepareFails ==
  /\ SshGo("pty", "noshell") \/ SshGo("pipes", "noshell") \/ SshGo("shell", "noshell")
  /\ shell' = FALSE
  /\ UNCHANGED <<tcp, rawClient, sshKeep, sshDone>>

-----------------------------------------------------------------------------
\* sshSession.Close.
SshShellClose ==
  /\ SshGo("open", "noshell")
  /\ shell' = FALSE
  /\ UNCHANGED <<tcp, rawClient, sshKeep, sshDone>>

\* sshConn.Close: the client, then the TCP connection.
SshConnClose ==
  /\ SshGo("noshell", "closed")
  /\ rawClient' = "closed" /\ tcp' = FALSE
  /\ UNCHANGED <<shell, sshKeep, sshDone>>

\* The connection breaks; handles stay, their use fails.
SshBreaks ==
  /\ tcp /\ rawClient # "closed"
  /\ tcp' = FALSE /\ rawClient' = IF rawClient = "none" THEN "none" ELSE "closed"
  /\ UNCHANGED <<sshAt, shell, sshKeep, sshDone>>

\* Connector.Close, which nobody calls today.
ConnectorClose ==
  /\ ~sshDone /\ sshDone' = TRUE
  /\ UNCHANGED <<sshAt, tcp, rawClient, shell, sshKeep>>

SshKeepWith(next) ==
  /\ KeepRuns(sshKeep)
  /\ sshKeep' \in next
  /\ UNCHANGED <<sshAt, tcp, rawClient, shell, sshDone>>

SshKeepStep == SshKeepWith(KeepNext(sshKeep, sshDone, rawClient = "open"))
SshKeepTimeout == SshKeepWith(KeepTimeout(sshKeep))

SshNext ==
  \/ SshTcp \/ SshTcpFails \/ SshHandshake \/ SshHandshakeFails
  \/ SshNewSession \/ SshNewSessionFails \/ SshPrepare \/ SshPrepareFails
  \/ SshShellClose \/ SshConnClose \/ SshBreaks \/ ConnectorClose
  \/ SshKeepStep \/ SshKeepTimeout

SshSpec == SshInit /\ [][SshNext]_sshVars

-----------------------------------------------------------------------------
SshTypeOK ==
  /\ sshAt \in {"dial", "handshake", "dialed", "pty", "pipes", "shell", "open",
                "noshell", "refused", "closed"}
  /\ {tcp, shell, sshDone} \subseteq BOOLEAN
  /\ rawClient \in {"none", "open", "closed"} /\ sshKeep \in KeepStates

\* What the session relies on when it takes a failed Dial or OpenSession for one that
\* never was: no TCP connection and no client after the first, no channel after the
\* second, at whichever of its steps it failed.
FailureLeavesNothing ==
  /\ sshAt = "refused" => ~tcp /\ rawClient # "open"
  /\ sshAt = "noshell" => ~shell

\* The keepalive goroutine ends once the client is closed or its connection broken,
\* although nobody closes the connector.
SshKeepEnds == (rawClient = "closed") ~> (sshKeep = "over")
=============================================================================
