------------------------------ MODULE MCRemote ------------------------------
(***************************************************************************)
(* The parts that work over a session's connection, side by side for TLC:  *)
(* one behaviour follows one part, named by `part', and leaves the others  *)
(* in their initial states.  The parts share no state.                     *)
(***************************************************************************)
EXTENDS TransferManager, Tunnel, SftpCache, PageCache, HopChain, SshConnector

CONSTANT Parts  \* the parts a run follows

VARIABLE part

vars == <<part, jobVars, tunnelVars, sftpVars, pageVars, hopVars, sshVars>>

OneSession == CHOOSE s \in SftpSessions : TRUE

Init ==
  /\ part \in Parts
  /\ JobInit /\ TunInit /\ SftpInit /\ PageInit /\ HopInit /\ SshInit
  /\ \A p \in SftpCallers : sftpArg[p] = OneSession
  /\ \A p \in Paths : remote[p].size = CHOOSE n \in Sizes : TRUE
  /\ part # "hops" => chain.strategy = "direct" /\ chain.hops = 0

OnJobs(A) == part = "jobs" /\ A /\ UNCHANGED <<part, tunnelVars, sftpVars, pageVars, hopVars, sshVars>>
\* Two bounds on tunnels: many connections of one, or many Opens without connections.
OnTunnels(A) ==
  /\ part \in {"tunnels", "opens"} /\ A
  /\ part = "tunnels" => Len(tunnels') <= 1
  /\ part = "opens" => UNCHANGED conns
  /\ UNCHANGED <<part, jobVars, sftpVars, pageVars, hopVars, sshVars>>
\* Two bounds on SFTP: many clients of one session, or one client and all sessions.
OnSftp(A) ==
  /\ part \in {"sftp", "closing"} /\ A
  /\ part = "sftp" => managed' \subseteq {OneSession} /\ \A p \in SftpCallers : sftpArg'[p] = OneSession
  /\ part = "closing" => Len(clients') <= 1
  /\ UNCHANGED <<part, jobVars, tunnelVars, pageVars, hopVars, sshVars>>
OnPages(A) == part = "pages" /\ A /\ UNCHANGED <<part, jobVars, tunnelVars, sftpVars, hopVars, sshVars>>
OnHops(A) == part = "hops" /\ A /\ UNCHANGED <<part, jobVars, tunnelVars, sftpVars, pageVars, sshVars>>
OnSsh(A) == part = "ssh" /\ A /\ UNCHANGED <<part, jobVars, tunnelVars, sftpVars, pageVars, hopVars>>

Next ==
  \/ OnJobs(JobNext) \/ OnTunnels(TunNext) \/ OnSftp(SftpNext)
  \/ OnPages(PageNext) \/ OnHops(HopNext) \/ OnSsh(SshNext)

Spec == Init /\ [][Next]_vars

\* Goroutines run on: those of jobs, of a Stop that was called, of accept loops and
\* connections that need no peer, and of keepalives.
Fairness ==
  /\ \A e \in 1 .. MaxJobs : WF_vars(OnJobs(e \in JobNumbers /\ JobStep(e)))
  /\ \A t \in 1 .. MaxTunnels : WF_vars(OnTunnels(t \in TunnelNumbers /\ TunStep(t)))
  /\ \A c \in Conns : WF_vars(OnTunnels(ConnStep(c)))
  /\ WF_vars(OnHops(HopKeepStep)) /\ WF_vars(OnSsh(SshKeepStep))

LiveSpec == Spec /\ Fairness

TypeOK == JobTypeOK /\ TunTypeOK /\ SftpTypeOK /\ PageTypeOK /\ HopTypeOK /\ SshTypeOK
=============================================================================
