------------------------------ MODULE HopChain ------------------------------
(***************************************************************************)
(* internal/agent/strategy.go: an SSH client reached through a chain of    *)
(* hops, each client's transport being a channel of the client before it,  *)
(* and app/agent_dialer.go, the Dialer that makes the first client of the  *)
(* chain and keeps it alive.                                               *)
(*                                                                         *)
(* links is the chain in the order of dialling: the hops, then the target. *)
(***************************************************************************)
EXTENDS Naturals, Sequences, KeepAlive

CONSTANT MaxHops  \* bound: hops of a request

ASSUME HopAssumption == MaxHops \in Nat

VARIABLES
  chain,    \* the build: strategy, number of hops, where it is
  links,    \* the clients made, as far as they are open
  channel,  \* forwardedConn: the direct-tcpip channel not yet a client
  keep,     \* the keepalive goroutine of the first client
  doneChan, \* its done channel: not yet in doneChans, in it, or closed
  ctxDone   \* the caller's context is cancelled

hopVars == <<chain, links, channel, keep, doneChan, ctxDone>>

\* The numbers of hops a strategy accepts.
Accepts(strategy) ==
  CASE strategy = "direct" -> {0}
    [] strategy = "single-jump" -> {1} \intersect 0 .. MaxHops
    [] strategy = "multi-hop" -> 0 .. MaxHops
Strategies == {"direct", "single-jump", "multi-hop"}

Last == Len(links)
ChainGo(from, to) == chain.at = from /\ chain' = [chain EXCEPT !.at = to]

HopInit ==
  /\ chain \in {[strategy |-> s, hops |-> n, at |-> "dial"] : s \in Strategies, n \in 0 .. MaxHops}
  /\ chain.hops \in Accepts(chain.strategy)
  /\ links = <<>> /\ channel = FALSE
  /\ keep = "none" /\ doneChan = "none" /\ ctxDone = FALSE

\* Closing a client, or losing it, ends the transport of the clients behind it.
Cut(k) == [i \in DOMAIN links |-> IF i >= k THEN FALSE ELSE links[i]]

-----------------------------------------------------------------------------
\* SSHDialer.Dial, to the start of the keepalive goroutine.
HopDial ==
  /\ ChainGo("dial", "register") /\ ~ctxDone
  /\ links' = <<TRUE>>
  /\ keep' = "waiting" /\ doneChan' = "unlisted"
  /\ UNCHANGED <<channel, ctxDone>>

\* No such profile, no authentication, the TCP dial or the handshake fails.
HopDialFails ==
  /\ ChainGo("dial", "failed")
  /\ UNCHANGED <<links, channel, keep, doneChan, ctxDone>>

\* SSHDialer.Dial: the done channel goes on the list.
HopRegister ==
  /\ ChainGo("register", IF chain.hops = 0 THEN "built" ELSE "forward")
  /\ doneChan' = "listed"
  /\ UNCHANGED <<links, channel, keep, ctxDone>>

\* forwardDial: a channel through the last client.
HopOpenChannel ==
  /\ ChainGo("forward", "handshake")
  /\ ~ctxDone /\ links[Last]
  /\ channel' = TRUE
  /\ UNCHANGED <<links, keep, doneChan, ctxDone>>

\* forwardDial: the handshake over it makes the next client, which has no keepalive.
HopHandshake ==
  /\ ChainGo("handshake", IF Last = chain.hops THEN "built" ELSE "forward")
  /\ links[Last]
  /\ links' = Append(links, TRUE)
  /\ channel' = FALSE
  /\ UNCHANGED <<keep, doneChan, ctxDone>>

\* Mutant of CloseChain: only the client in hand is closed.
CloseLast == Cut(Last)

\* closeHopChain (of one, for single-jump).
CloseChain == Cut(1)

\* A hop that cannot be resolved, dialled or authenticated: forwardDial closes its
\* channel, the strategy the clients made so far.
HopForwardFails ==
  /\ ChainGo("forward", "failed") \/ ChainGo("handshake", "failed")
  /\ channel' = FALSE
  /\ links' = CloseChain
  /\ UNCHANGED <<keep, doneChan, ctxDone>>

\* The owner closes the client it was given; attachHopLifetime and
\* attachHopChainLifetime have attached nothing.
OwnerClose ==
  /\ ChainGo("built", "closed")
  /\ links' = Cut(Last)
  /\ UNCHANGED <<channel, keep, doneChan, ctxDone>>

-----------------------------------------------------------------------------
\* A connection breaks.
LinkDies ==
  /\ \E k \in DOMAIN links : links[k] /\ links' = Cut(k)
  /\ UNCHANGED <<chain, channel, keep, doneChan, ctxDone>>

CancelContext ==
  /\ ~ctxDone /\ ctxDone' = TRUE
  /\ UNCHANGED <<chain, links, channel, keep, doneChan>>

\* SSHDialer.Close: closes the channels on the list.
DialerClose ==
  /\ doneChan = "listed" /\ doneChan' = "closed"
  /\ UNCHANGED <<chain, links, channel, keep, ctxDone>>

KeepWith(next) ==
  /\ KeepRuns(keep)
  /\ keep' \in next
  /\ UNCHANGED <<chain, links, channel, doneChan, ctxDone>>

HopKeepStep == KeepWith(KeepNext(keep, doneChan = "closed", links[1]))
HopKeepTimeout == KeepWith(KeepTimeout(keep))

HopNext ==
  \/ HopDial \/ HopDialFails \/ HopRegister \/ HopOpenChannel \/ HopHandshake \/ HopForwardFails
  \/ OwnerClose \/ LinkDies \/ CancelContext \/ DialerClose
  \/ HopKeepStep \/ HopKeepTimeout

HopSpec == HopInit /\ [][HopNext]_hopVars

-----------------------------------------------------------------------------
HopTypeOK ==
  /\ chain.at \in {"dial", "register", "forward", "handshake", "built", "failed", "closed"}
  /\ links \in Seq(BOOLEAN) /\ Len(links) <= chain.hops + 1
  /\ channel \in BOOLEAN /\ ctxDone \in BOOLEAN
  /\ keep \in KeepStates /\ doneChan \in {"none", "unlisted", "listed", "closed"}

\* strategy.go:83 says that a step that fails releases what the ones before it
\* allocated: a build that returned an error has left no client and no channel open,
\* wherever in the chain it failed.
FailedBuildReleases ==
  chain.at = "failed" => ~channel /\ \A k \in DOMAIN links : ~links[k]

\* Once the first client is closed or broken its keepalive goroutine ends, whether
\* or not anybody calls SSHDialer.Close, and whether that call came before the done
\* channel was on its list.
HopKeepEnds == (links # <<>> /\ ~links[1]) ~> (keep = "over")
=============================================================================
