------------------------------ MODULE SessionInv ------------------------------
(***************************************************************************)
(* The inductive invariant behind the safety properties of Session.        *)
(***************************************************************************)
EXTENDS Session

(* The accumulator is at its limit only on the way to a flush.             *)
AccumInv == accum < MaxAccum \/ readPC = "flush"

(* publishMu is held exactly between a change of state and its publication, *)
(* and Close has not got past it while the dialer holds it.                *)
Publishing == {"pubAuth", "pubEstab", "pubFailed"}
NotClosing == closePC \in {"idle", "setClosing"}

LockInv ==
  /\ publishMu = "dialer" <=> dialPC \in Publishing
  /\ publishMu = "dialer" => NotClosing
  /\ publishMu = "closer" <=> closePC \in {"pubClosing", "pubClosed"}

(* The dialer runs once Open has spawned it.                               *)
OpenInv == dialPC = "off" <=> openPC # "returned"

(* How far Close has got fixes the final states...                         *)
CloseInv ==
  /\ NotClosing <=> state \notin {Closing, Closed}
  /\ state = Closed <=> closePC \in {"pubClosed", "closeSubs", "finished"}

(* ...and how far the dialer has got, unless Close was first, the others.  *)
DialerState == [off |-> Connecting, dial |-> Connecting, casAuth |-> Connecting,
                pubAuth |-> Authenticating, openSession |-> Authenticating,
                install |-> Authenticating, casEstab |-> Authenticating,
                pubEstab |-> Established, pubFailed |-> Failed, signalDone |-> Failed]

DialInv ==
  /\ NotClosing =>
       /\ dialPC # "closeConn"
       /\ dialPC \in DOMAIN DialerState => state = DialerState[dialPC]
       /\ dialPC = "casFailed" => state = BeforeFailure
       /\ dialPC = "exit" => state \in {Established, Failed}
  /\ dialPC \in {"off", "dial"} => conn = "none"
  /\ dialPC \in {"off", "dial", "casAuth", "pubAuth", "closeConn", "openSession",
                 "casFailed", "pubFailed", "signalDone"} => sshSess = "none"
  /\ dialPC \in {"casEstab", "pubEstab"} => conn # "none" /\ sshSess # "none"

(* The references: both or none; where the Close body drops them; whether  *)
(* they are still where SetDialedSess put them when the session is in use. *)
RefInv ==
  /\ dialed = sess
  /\ dialed => dialPC \in {"casEstab", "pubEstab", "exit"}
  /\ taken.dialed => closePC \in {"closeSess", "closeDialed"}
  /\ taken.sess => closePC = "closeSess"
  /\ dialPC \in {"casEstab", "pubEstab"} /\ NotClosing => sess

LifeInv == OpenInv /\ LockInv /\ CloseInv /\ DialInv /\ RefInv /\ OneOwner /\ EstablishedIsUsable

-----------------------------------------------------------------------------
(* While the state just set is not yet published, every state event under  *)
(* way and every badge is of an earlier state.                             *)
Earlier(A) == \A t \in A : state \in Later[t]

AnnounceInv == publishMu # "free" =>
  /\ Earlier(StatesIn(events) \cup InFlight)
  /\ \A s \in Subscribers : Earlier(StatesIn(subCh[s]) \cup {badge[s]})

OrderInv == AnnounceInv /\ StateEventsInOrder

(* A drop that readLoop has counted is flagged; fanoutLoop has cleared the *)
(* flag only where it goes on to swap the counter.                         *)
IInv == TypeOK /\ AccumInv /\ LifeInv /\ OrderInv /\ DropsFlagged

-----------------------------------------------------------------------------
(* Before anybody closes it, a session without a protocol session has only *)
(* the dialer to talk: the loops wait, nothing was dropped, the channels   *)
(* hold what the dialer announced, and done waits for the dialer's end.    *)
Young == closePC = "idle" /\ ~sess
Announced(q) == \A i \in DOMAIN q : q[i].type = "state" /\ q[i].state \in {Authenticating, Failed}

LoopsWait  == readPC \in {"off", "wait", "stopped"} /\ writePC \in {"off", "wait", "stopped"}
NoDrops    == overflowBytes = 0 /\ subDropBytes = 0
OnlyStates == /\ Announced(events) /\ (fanPC = "broadcast" => Announced(<<inHand>>))
              /\ \A s \in Subscribers : Announced(subCh[s])
DoneLast   == (done => dialPC = "exit") /\ (fanPC = "stopped" => done)

YoungInv == Young => LoopsWait /\ NoDrops /\ OnlyStates /\ DoneLast

(* A failed session stays young until it is closed, and nobody is early    *)
(* who has not subscribed.                                                 *)
FailInv ==
  /\ YoungInv
  /\ state = Failed /\ closePC = "idle" => ~sess
  /\ early \subseteq subscribed
  /\ FailureNotLost
=============================================================================
