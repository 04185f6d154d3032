------------------------------- MODULE Session -------------------------------
(***************************************************************************)
(* One terminal session of internal/session from Manager.Open to the exit  *)
(* of its last goroutine:                                                  *)
(*                                                                         *)
(*   Open          the caller of MemoryManager.Open                        *)
(*   dialer        dialInBackground: Dial, OpenSession, SetDialedSess      *)
(*   closer        the one Close body that closeOnce lets run              *)
(*   reader        readLoop's inner goroutine, blocked in sess.Read        *)
(*   readLoop      batches chunks and publishes them                       *)
(*   writeLoop     writes inputCh to the remote                            *)
(*   fanoutLoop    in SessionEvents                                        *)
(*                                                                         *)
(* The remote end and the connector are the environment.  One action is    *)
(* one step between two synchronisation points of the code: a lock region, *)
(* a channel operation or a blocking call.                                 *)
(***************************************************************************)
EXTENDS SessionEvents

CONSTANTS MaxChunks,  (* bound: chunks the remote sends                    *)
          MaxInputs,  (* bound: calls of Input that pass the state check   *)
          DataChCap,  (* capacity of readLoop's dataCh (readDataChSize, 8) *)
          InputCap,   (* capacity of inputCh (inputBufferSize, 64)         *)
          MaxAccum    (* chunks that force a flush (readMaxAccum)          *)

ASSUME SessionAssumption ==
  /\ MaxChunks \in Nat /\ MaxInputs \in Nat
  /\ DataChCap \in Nat \ {0} /\ InputCap \in Nat \ {0} /\ MaxAccum \in Nat \ {0}

VARIABLES
  registered,      (* the session is in MemoryManager.sessions             *)
  openPC,          (* where Open is                                        *)
  state,           (* s.state                                              *)
  publishMu,       (* who holds publishMu: "free", "dialer" or "closer"    *)
  dialPC, closePC, readPC, readerPC, writePC, inputPC,
  conn, sshSess,   (* the net.Conn and connect.Session: "none" before they *)
                   (* exist, then "open", then "closed"                    *)
  dialed, sess,    (* s.dialed and s.sess refer to them                    *)
  taken,           (* what Close took out of s.dialed and s.sess           *)
  remoteUp,        (* the remote has not hung up                           *)
  chunks,          (* chunks read so far                                   *)
  dataCh,          (* chunks in dataCh                                     *)
  accum,           (* chunks in readLoop's accumulator                     *)
  dropped,         (* chunks tryPublish has dropped and not yet counted    *)
  readNext,        (* where readLoop goes after a flush                    *)
  inputCh, inputs, (* messages in inputCh; calls of Input so far           *)
  early            (* history: subscriptions made while the session lived   *)

mgrVars   == <<registered, openPC>>
lifeVars  == <<state, publishMu>>
connVars  == <<conn, sshSess, dialed, sess, taken>>
readVars  == <<readPC, readerPC, chunks, dataCh, accum, dropped, readNext>>
inputVars == <<inputCh, inputs, inputPC>>
pcVars    == <<dialPC, closePC, writePC>>
envVars  == <<remoteUp, early>>
vars == <<eventVars, mgrVars, lifeVars, connVars, readVars, inputVars, pcVars, envVars>>

Alive == {Connecting, Authenticating, Established}

NothingTaken == [dialed |-> FALSE, sess |-> FALSE]

Init ==
  /\ EventsInit
  /\ registered = FALSE /\ openPC = "register"
  /\ state = Connecting /\ publishMu = "free"
  /\ dialPC = "off" /\ closePC = "idle" /\ readPC = "off" /\ readerPC = "off"
  /\ writePC = "off" /\ inputPC = "idle"
  /\ conn = "none" /\ sshSess = "none" /\ dialed = FALSE /\ sess = FALSE
  /\ taken = NothingTaken
  /\ remoteUp = TRUE /\ early = {} /\ chunks = 0 /\ dataCh = 0 /\ accum = 0 /\ dropped = 0
  /\ readNext = "run" /\ inputCh = 0 /\ inputs = 0

-----------------------------------------------------------------------------
(* MemoryManager.Open: register, Start the three loops, spawn the dialer.  *)
Register ==
  /\ openPC = "register"
  /\ registered' = TRUE
  /\ openPC' = "start"
  /\ UNCHANGED <<eventVars, lifeVars, connVars, readVars, inputVars, pcVars, envVars>>

Start ==
  /\ openPC = "start"
  /\ readPC = "off" /\ writePC = "off" /\ fanPC = "off"   (* s.started is not set *)
  /\ openPC' = "spawn"
  /\ readPC' = "wait" /\ writePC' = "wait" /\ fanPC' = "select"
  /\ UNCHANGED <<events, subCh, overflowBytes, overflowPending, subDropBytes,
                 subDropPending, inHand, done, subs, subscribed, badge, registered,
                 lifeVars, connVars, readerPC, chunks, dataCh, accum, dropped,
                 readNext, inputVars, dialPC, closePC, envVars>>

Spawn ==
  /\ openPC = "spawn"
  /\ openPC' = "returned"
  /\ dialPC' = "dial"
  /\ UNCHANGED <<eventVars, registered, lifeVars, connVars, readVars, inputVars,
                 closePC, writePC, envVars>>

-----------------------------------------------------------------------------
(***************************************************************************)
(* The regions of publishMu.  A goroutine takes the lock and sets the      *)
(* state in one step (nobody else can act on the lock in between); it      *)
(* publishes the state it set and gives the lock back in the next.  Input  *)
(* and waitForSess read the state without the lock, between the two.       *)
(***************************************************************************)
(* Mutant: the state is set without waiting for the lock (v0.2.1).         *)
SetUnlocked(who, to) == publishMu' = who /\ state' = to

AcquireAndSet(who, to) ==
  /\ publishMu = "free"
  /\ publishMu' = who
  /\ state' = to

(* Mutant: an early return without the Unlock.                             *)
PublishAndKeep(to) == TryPublishMeta(StateEvent(to)) /\ UNCHANGED lifeVars

PublishAndRelease(to) ==
  /\ TryPublishMeta(StateEvent(to))
  /\ publishMu' = "free"
  /\ state' = state

(* Mutant: Store in place of CompareAndSwap (v0.1).                        *)
SetAnyway(who, expect, to) == AcquireAndSet(who, to)

(* setStateAndPublishIf: the state is expect and becomes to...             *)
CasSet(who, expect, to) == state = expect /\ AcquireAndSet(who, to)

(* ...or is not expect, and nothing happens.                               *)
CasFails(expect) == publishMu = "free" /\ state # expect /\ UNCHANGED lifeVars

(* What the dialer's steps leave alone, apart from eventVars and connVars.  *)
DialerFrame == UNCHANGED <<mgrVars, readVars, inputVars, closePC, writePC, envVars>>

DialGoto(from, to) == dialPC = from /\ dialPC' = to

(* Dial returns a connection, or an error.                                 *)
DialOk ==
  /\ DialGoto("dial", "casAuth")
  /\ conn' = "open"
  /\ UNCHANGED <<eventVars, lifeVars, sshSess, dialed, sess, taken>>
  /\ DialerFrame

DialErr ==
  /\ DialGoto("dial", "casFailed")
  /\ UNCHANGED <<eventVars, lifeVars, connVars>>
  /\ DialerFrame

(* Connecting -> Authenticating; if Close came first, close conn and leave. *)
CasAuthenticating ==
  /\ \/ CasSet("dialer", Connecting, Authenticating) /\ DialGoto("casAuth", "pubAuth")
     \/ CasFails(Connecting) /\ DialGoto("casAuth", "closeConn")
  /\ UNCHANGED <<eventVars, connVars>>
  /\ DialerFrame

CloseConn ==
  /\ DialGoto("closeConn", "exit")
  /\ conn' = "closed"
  /\ UNCHANGED <<eventVars, lifeVars, sshSess, dialed, sess, taken>>
  /\ DialerFrame

(* Mutant: Established is announced before SetDialedSess.                  *)
OpenSessionEarly ==
  /\ DialGoto("openSession", "casEstab")
  /\ sshSess' = "open"
  /\ UNCHANGED <<eventVars, lifeVars, conn, dialed, sess, taken>>
  /\ DialerFrame

OpenSessionOk ==
  /\ DialGoto("openSession", "install")
  /\ sshSess' = "open"
  /\ UNCHANGED <<eventVars, lifeVars, conn, dialed, sess, taken>>
  /\ DialerFrame

(* OpenSession fails: conn.Close, then Authenticating -> Failed.           *)
OpenSessionErr ==
  /\ DialGoto("openSession", "casFailed")
  /\ conn' = "closed"
  /\ UNCHANGED <<eventVars, lifeVars, sshSess, dialed, sess, taken>>
  /\ DialerFrame

(* SetDialedSess, under connMu.                                            *)
SetDialedSess ==
  /\ DialGoto("install", "casEstab")
  /\ dialed' = TRUE /\ sess' = TRUE
  /\ UNCHANGED <<eventVars, lifeVars, conn, sshSess, taken>>
  /\ DialerFrame

(* Authenticating -> Established; if Close came first, just leave.         *)
CasEstablished ==
  /\ \/ CasSet("dialer", Authenticating, Established) /\ DialGoto("casEstab", "pubEstab")
     \/ CasFails(Authenticating) /\ DialGoto("casEstab", "exit")
  /\ UNCHANGED <<eventVars, connVars>>
  /\ DialerFrame

(* The failure paths: from the state the dialer brought the session to.    *)
BeforeFailure == IF conn = "none" THEN Connecting ELSE Authenticating

CasFailed ==
  /\ \/ CasSet("dialer", BeforeFailure, Failed) /\ DialGoto("casFailed", "pubFailed")
     \/ CasFails(BeforeFailure) /\ DialGoto("casFailed", "exit")
  /\ UNCHANGED <<eventVars, connVars>>
  /\ DialerFrame

Announces == [pubAuth |-> Authenticating, pubEstab |-> Established, pubFailed |-> Failed]
AfterPublish == [pubAuth |-> "openSession", pubEstab |-> "exit", pubFailed |-> "signalDone"]

DialPublish ==
  /\ dialPC \in DOMAIN AfterPublish
  /\ PublishAndRelease(Announces[dialPC])
  /\ dialPC' = AfterPublish[dialPC]
  /\ UNCHANGED <<subCh, overflowBytes, overflowPending, subDropBytes, subDropPending,
                 fanPC, inHand, done, subs, subscribed, badge, connVars>>
  /\ DialerFrame

DialSignalDone ==
  /\ DialGoto("signalDone", "exit")
  /\ done' = TRUE
  /\ UNCHANGED <<fanVars, subs, subscribed, badge, lifeVars, connVars>>
  /\ DialerFrame

dialInBackground ==
  \/ DialOk \/ DialErr \/ CasAuthenticating \/ CloseConn \/ OpenSessionOk \/ OpenSessionErr
  \/ SetDialedSess \/ CasEstablished \/ CasFailed \/ DialPublish \/ DialSignalDone

-----------------------------------------------------------------------------
(***************************************************************************)
(* Close.  closeOnce lets one caller run the body, the others wait for it  *)
(* to finish.  The session can only be Closing or Closed through this one  *)
(* body, so its early return and setStateAndPublish's skip never apply.    *)
(***************************************************************************)
EnterOnce == closePC' = IF closePC = "idle" THEN "setClosing" ELSE closePC

CloserFrame == UNCHANGED <<mgrVars, readVars, inputVars, dialPC, writePC, envVars>>

CloseGoto(from, to) == closePC = from /\ closePC' = to

(* MemoryManager.Close and CloseAll: out of the map, then Session.Close.   *)
ManagerClose ==
  /\ registered
  /\ registered' = FALSE
  /\ EnterOnce
  /\ UNCHANGED <<eventVars, openPC, lifeVars, connVars, readVars, inputVars,
                 dialPC, writePC, envVars>>

CloseSetState ==
  /\ \/ CloseGoto("setClosing", "pubClosing") /\ AcquireAndSet("closer", Closing)
     \/ CloseGoto("setClosed", "pubClosed") /\ AcquireAndSet("closer", Closed)
  /\ UNCHANGED <<eventVars, connVars>>
  /\ CloserFrame

ClosePublish ==
  /\ \/ CloseGoto("pubClosing", "take") /\ PublishAndRelease(Closing)
     \/ CloseGoto("pubClosed", "closeSubs") /\ PublishAndRelease(Closed)
  /\ UNCHANGED <<subCh, overflowBytes, overflowPending, subDropBytes, subDropPending,
                 fanPC, inHand, done, subs, subscribed, badge, connVars>>
  /\ CloserFrame

(* Mutant: the references stay in the fields.                              *)
CloseCopy ==
  /\ CloseGoto("take", "closeSess")
  /\ taken' = [dialed |-> dialed, sess |-> sess]
  /\ UNCHANGED <<eventVars, lifeVars, conn, sshSess, dialed, sess>>
  /\ CloserFrame

(* Under connMu: take s.sess and s.dialed, leave nil.                      *)
CloseTake ==
  /\ CloseGoto("take", "closeSess")
  /\ taken' = [dialed |-> dialed, sess |-> sess]
  /\ dialed' = FALSE /\ sess' = FALSE
  /\ UNCHANGED <<eventVars, lifeVars, conn, sshSess>>
  /\ CloserFrame

CloseSess ==
  /\ CloseGoto("closeSess", "closeDialed")
  /\ sshSess' = IF taken.sess THEN "closed" ELSE sshSess
  /\ taken' = [taken EXCEPT !.sess = FALSE]
  /\ UNCHANGED <<eventVars, lifeVars, conn, dialed, sess>>
  /\ CloserFrame

CloseDialed ==
  /\ CloseGoto("closeDialed", "signalDone")
  /\ conn' = IF taken.dialed THEN "closed" ELSE conn
  /\ taken' = [taken EXCEPT !.dialed = FALSE]
  /\ UNCHANGED <<eventVars, lifeVars, sshSess, dialed, sess>>
  /\ CloserFrame

CloseSignalDone ==
  /\ CloseGoto("signalDone", "setClosed")
  /\ done' = TRUE
  /\ UNCHANGED <<fanVars, subs, subscribed, badge, lifeVars, connVars>>
  /\ CloserFrame

CloseSubs ==
  /\ CloseGoto("closeSubs", "finished")
  /\ subs' = {}
  /\ UNCHANGED <<fanVars, done, subscribed, badge, lifeVars, connVars>>
  /\ CloserFrame

Close == CloseSetState \/ ClosePublish \/ CloseTake \/ CloseSess \/ CloseDialed
         \/ CloseSignalDone \/ CloseSubs

-----------------------------------------------------------------------------
(***************************************************************************)
(* waitForSess, polled by readLoop and writeLoop.  One round reads the     *)
(* state, then s.sess, then waits for done or a tick.  A round has no side *)
(* effect, so the loop may be anywhere in it: it may see s.sess although   *)
(* the state has become final since it read that.                          *)
(***************************************************************************)
WaitForSess(pc, next) ==
  /\ pc = "wait"
  /\ \/ state \in {Closed, Failed} /\ next = "stopped"
     \/ sess /\ next = "run"
     \/ ~sess /\ done /\ next = "stopped"

(* The inner reader goroutine: sess.Read, then dataCh or done.             *)
ReadChunk ==
  /\ readerPC = "read" /\ chunks < MaxChunks
  /\ chunks' = chunks + 1
  /\ readerPC' = "push"
  /\ UNCHANGED <<eventVars, mgrVars, lifeVars, connVars, readPC, dataCh, accum,
                 dropped, readNext, inputVars, pcVars, envVars>>

ReadError ==
  /\ readerPC = "read"
  /\ ~remoteUp \/ sshSess = "closed"
  /\ readerPC' = "stopped"
  /\ UNCHANGED <<eventVars, mgrVars, lifeVars, connVars, readPC, chunks, dataCh, accum,
                 dropped, readNext, inputVars, pcVars, envVars>>

PushChunk ==
  /\ readerPC = "push"
  /\ \/ dataCh < DataChCap /\ dataCh' = dataCh + 1 /\ readerPC' = "read"
     \/ done /\ dataCh' = dataCh /\ readerPC' = "stopped"
  /\ UNCHANGED <<eventVars, mgrVars, lifeVars, connVars, readPC, chunks, accum,
                 dropped, readNext, inputVars, pcVars, envVars>>

(* readLoop's frame: what its own steps leave alone.                       *)
LoopFrame == UNCHANGED <<done, subs, subscribed, badge, subCh, subDropBytes, subDropPending,
                         fanPC, inHand, mgrVars, lifeVars, connVars, chunks, readerPC,
                         inputVars, dialPC, writePC, envVars>>

ReadWait ==
  /\ WaitForSess(readPC, readPC')
  /\ readerPC' = IF readPC' = "run" THEN "read" ELSE readerPC
  /\ UNCHANGED <<eventVars, mgrVars, lifeVars, connVars, chunks, dataCh, accum, dropped,
                 readNext, inputVars, pcVars, envVars>>

(* The select of readLoop: done, the ticker, a chunk, or dataCh closed.    *)
ReadSelect ==
  /\ readPC = "run"
  /\ \/ done /\ readPC' = "flush" /\ readNext' = "stopped" /\ UNCHANGED <<dataCh, accum>>
     \/ accum > 0 /\ readPC' = "flush" /\ readNext' = "run" /\ UNCHANGED <<dataCh, accum>>
     \/ /\ dataCh > 0
        /\ dataCh' = dataCh - 1 /\ accum' = accum + 1
        /\ readPC' = IF accum' >= MaxAccum THEN "flush" ELSE "run"
        /\ readNext' = "run"
     \/ /\ dataCh = 0 /\ readerPC = "stopped"
        /\ readPC' = "flush" /\ readNext' = "exitEvent" /\ UNCHANGED <<dataCh, accum>>
  /\ UNCHANGED <<events, counterVars, dropped, closePC>>
  /\ LoopFrame

(* flush: publish the accumulator as one data event and start a new one.   *)
Flush ==
  /\ readPC = "flush"
  /\ accum' = 0
  /\ IF accum = 0
     THEN readPC' = readNext /\ UNCHANGED <<events, dropped>>
     ELSE \/ Enqueue(DataEvent(accum)) /\ readPC' = readNext /\ UNCHANGED dropped
          \/ DropClosed /\ readPC' = readNext /\ UNCHANGED dropped
          \/ Overflows /\ readPC' = "count" /\ dropped' = accum /\ UNCHANGED events
  /\ UNCHANGED <<counterVars, dataCh, readNext, closePC>>
  /\ LoopFrame

(* Mutant: the bytes are counted, the flag is not raised.                  *)
CountUnflagged ==
  /\ readPC = "count"
  /\ overflowBytes' = IF done THEN overflowBytes ELSE overflowBytes + dropped
  /\ readPC' = readNext
  /\ dropped' = 0
  /\ UNCHANGED <<events, overflowPending, dataCh, accum, readNext, closePC>>
  /\ LoopFrame

(* tryPublish's default branch: add to the counter unless done is closed   *)
(* by now, then raise the flag.  fanoutLoop runs in between.               *)
CountDrop ==
  /\ readPC = "count"
  /\ overflowBytes' = IF done THEN overflowBytes ELSE overflowBytes + dropped
  /\ readPC' = IF done THEN readNext ELSE "flag"
  /\ dropped' = 0
  /\ UNCHANGED <<events, overflowPending, dataCh, accum, readNext, closePC>>
  /\ LoopFrame

FlagDrop ==
  /\ readPC = "flag"
  /\ overflowPending' = TRUE
  /\ readPC' = readNext
  /\ UNCHANGED <<events, overflowBytes, dataCh, accum, dropped, readNext, closePC>>
  /\ LoopFrame

(* The remote is gone: publish exit, then Close and wait for its body.     *)
PublishExit ==
  /\ readPC = "exitEvent"
  /\ TryPublishMeta(ExitEvent)
  /\ readPC' = "close"
  /\ UNCHANGED <<counterVars, dataCh, accum, dropped, readNext, closePC>>
  /\ LoopFrame

ReadClose ==
  /\ readPC = "close"
  /\ \/ closePC = "idle" /\ EnterOnce /\ readPC' = readPC
     \/ closePC = "finished" /\ readPC' = "stopped" /\ UNCHANGED closePC
  /\ UNCHANGED <<events, counterVars, dataCh, accum, dropped, readNext>>
  /\ LoopFrame

readLoop == ReadWait \/ ReadSelect \/ Flush \/ CountDrop \/ FlagDrop \/ PublishExit \/ ReadClose

-----------------------------------------------------------------------------
(* writeLoop: one message at a time; a failed Write ends the session.      *)
WriterFrame == UNCHANGED <<done, subs, subscribed, badge, subCh, counterVars, subDropBytes,
                           subDropPending, fanPC, inHand, mgrVars, lifeVars, connVars,
                           readVars, inputs, inputPC, dialPC, envVars>>

WriteWait ==
  /\ WaitForSess(writePC, writePC')
  /\ UNCHANGED <<events, inputCh, closePC>>
  /\ WriterFrame

(* Mutant: the select has no case for done.                                *)
WriteSelectInput ==
  /\ writePC = "run"
  /\ inputCh > 0 /\ inputCh' = inputCh - 1 /\ writePC' = "write"
  /\ UNCHANGED <<events, closePC>>
  /\ WriterFrame

WriteSelect ==
  /\ writePC = "run"
  /\ \/ inputCh > 0 /\ inputCh' = inputCh - 1 /\ writePC' = "write"
     \/ done /\ writePC' = "stopped" /\ UNCHANGED inputCh
  /\ UNCHANGED <<events, closePC>>
  /\ WriterFrame

WriteOk ==
  /\ writePC = "write" /\ sshSess = "open"
  /\ writePC' = "run"
  /\ UNCHANGED <<events, inputCh, closePC>>
  /\ WriterFrame

WriteError ==
  /\ writePC = "write"
  /\ ~remoteUp \/ sshSess = "closed"
  /\ writePC' = "errorEvent"
  /\ UNCHANGED <<events, inputCh, closePC>>
  /\ WriterFrame

PublishError ==
  /\ writePC = "errorEvent"
  /\ TryPublishMeta(ErrorEvent)
  /\ writePC' = "close"
  /\ UNCHANGED <<inputCh, closePC>>
  /\ WriterFrame

WriteClose ==
  /\ writePC = "close"
  /\ \/ closePC = "idle" /\ EnterOnce /\ writePC' = writePC
     \/ closePC = "finished" /\ writePC' = "stopped" /\ UNCHANGED closePC
  /\ UNCHANGED <<events, inputCh>>
  /\ WriterFrame

writeLoop == WriteWait \/ WriteSelect \/ WriteOk \/ WriteError \/ PublishError \/ WriteClose

-----------------------------------------------------------------------------
(* Input: check the state, then send to inputCh or return ErrInputFull.    *)
InputCheck ==
  /\ inputPC = "idle" /\ inputs < MaxInputs
  /\ state = Established
  /\ inputs' = inputs + 1
  /\ inputPC' = "send"
  /\ UNCHANGED <<eventVars, mgrVars, lifeVars, connVars, readVars, inputCh, pcVars, envVars>>

InputSend ==
  /\ inputPC = "send"
  /\ inputCh' = IF inputCh < InputCap THEN inputCh + 1 ELSE inputCh
  /\ inputPC' = "idle"
  /\ UNCHANGED <<eventVars, mgrVars, lifeVars, connVars, readVars, inputs, pcVars, envVars>>

(* The environment: the remote hangs up.                                   *)
RemoteHangsUp ==
  /\ remoteUp /\ sshSess # "none"
  /\ remoteUp' = FALSE /\ early' = early
  /\ UNCHANGED <<eventVars, mgrVars, lifeVars, connVars, readVars, inputVars, pcVars>>

SessionUnchanged == UNCHANGED <<mgrVars, lifeVars, connVars, readVars, inputVars, pcVars,
                                remoteUp>>

FanStep == fanoutLoop /\ SessionUnchanged /\ early' = early
(* Whoever has the session, from Open or from Manager.Get, may subscribe.  *)
SubscriberStep(s) == /\ openPC # "register"
                     /\ Subscribe(s) \/ Cancel(s)
                     /\ early' = IF s \in subs' /\ state \in Alive THEN early \cup {s} ELSE early
                     /\ SessionUnchanged
ReceiveStep(s) == Receive(s) /\ SessionUnchanged /\ early' = early

(* A closed session whose goroutines are gone may stay as it is.           *)
Over == /\ closePC = "finished" /\ dialPC = "exit"
        /\ readPC = "stopped" /\ writePC = "stopped" /\ fanPC = "stopped"
        /\ UNCHANGED vars

Next ==
  \/ Register \/ Start \/ Spawn
  \/ dialInBackground
  \/ ManagerClose \/ Close
  \/ ReadChunk \/ ReadError \/ PushChunk \/ readLoop
  \/ writeLoop
  \/ InputCheck \/ InputSend
  \/ RemoteHangsUp
  \/ FanStep
  \/ \E s \in Subscribers : SubscriberStep(s) \/ ReceiveStep(s)
  \/ Over

(***************************************************************************)
(* Every goroutine that can take a step eventually does.  Nothing is asked *)
(* of the environment: Dial and OpenSession may take for ever, the remote  *)
(* may stay silent, nobody need close the session or cancel.               *)
(***************************************************************************)
Fairness ==
  /\ WF_vars(Start \/ Spawn)
  /\ WF_vars(Close)
  /\ WF_vars(CasAuthenticating \/ CloseConn \/ SetDialedSess \/ CasEstablished
             \/ CasFailed \/ DialPublish \/ DialSignalDone)
  /\ WF_vars(ReadError \/ PushChunk)
  /\ WF_vars(readLoop)
  /\ WF_vars(WriteWait \/ WriteSelect \/ WriteError \/ PublishError \/ WriteClose)
  /\ WF_vars(FanStep)
  /\ \A s \in Subscribers : WF_vars(ReceiveStep(s))

Spec == Init /\ [][Next]_vars /\ Fairness

-----------------------------------------------------------------------------
DialPCs == {"off", "dial", "casAuth", "pubAuth", "closeConn", "openSession", "install",
            "casEstab", "pubEstab", "casFailed", "pubFailed", "signalDone", "exit"}
ClosePCs == {"idle", "setClosing", "pubClosing", "take", "closeSess", "closeDialed",
             "signalDone", "setClosed", "pubClosed", "closeSubs", "finished"}
ReadPCs == {"off", "wait", "run", "flush", "count", "flag", "exitEvent",
            "close", "stopped"}
WritePCs == {"off", "wait", "run", "write", "errorEvent", "close", "stopped"}

(* Every variable keeps its type and every channel its capacity.           *)
MgrTypeOK == registered \in BOOLEAN /\ openPC \in {"register", "start", "spawn", "returned"}

LifeTypeOK == state \in States /\ publishMu \in {"free", "dialer", "closer"}

PcTypeOK == dialPC \in DialPCs /\ closePC \in ClosePCs /\ writePC \in WritePCs

ConnTypeOK == /\ conn \in {"none", "open", "closed"} /\ sshSess \in {"none", "open", "closed"}
              /\ dialed \in BOOLEAN /\ sess \in BOOLEAN
              /\ taken \in [dialed : BOOLEAN, sess : BOOLEAN]

ReadTypeOK == /\ readPC \in ReadPCs /\ readerPC \in {"off", "read", "push", "stopped"}
              /\ chunks \in 0..MaxChunks /\ dataCh \in 0..DataChCap
              /\ accum \in 0..MaxAccum /\ dropped \in Nat
              /\ readNext \in {"run", "exitEvent", "stopped"}

InputTypeOK == inputCh \in 0..InputCap /\ inputs \in 0..MaxInputs /\ inputPC \in {"idle", "send"}

EnvTypeOK == remoteUp \in BOOLEAN /\ early \subseteq Subscribers

TypeOK == EventsTypeOK /\ MgrTypeOK /\ LifeTypeOK /\ PcTypeOK /\ ConnTypeOK /\ ReadTypeOK
          /\ InputTypeOK /\ EnvTypeOK

(***************************************************************************)
(* An open connection has exactly one owner that will close it: the dialer *)
(* until it hands it over, the session field, or the Close body that took  *)
(* it.  A closed one has none, so it is closed once.  The same holds of    *)
(* the SSH session on it.                                                  *)
(***************************************************************************)
DialerOwns == dialPC \in {"casAuth", "pubAuth", "closeConn", "openSession", "install"}
CloserOwns(ref) == ref /\ closePC \in {"closeSess", "closeDialed"}

ExactlyOne(p, q, r) == (p \/ q \/ r) /\ ~(p /\ q) /\ ~(p /\ r) /\ ~(q /\ r)

OneOwner ==
  /\ IF conn = "open" THEN ExactlyOne(DialerOwns, dialed, CloserOwns(taken.dialed))
                      ELSE ~DialerOwns /\ ~dialed /\ ~taken.dialed
  /\ IF sshSess = "open" THEN ExactlyOne(dialPC = "install", sess, CloserOwns(taken.sess))
                         ELSE dialPC # "install" /\ ~sess /\ ~taken.sess

(***************************************************************************)
(* A session reported Established has its protocol session in place, so    *)
(* the Input it now accepts has a writeLoop to go to.                      *)
(***************************************************************************)
EstablishedIsUsable == state = Established => sess /\ dialed

(***************************************************************************)
(* The v0.2.4 promise of publishMu: however the dialer, Close and          *)
(* fanoutLoop interleave, the state events on their way to a subscriber    *)
(* are in the order the session went through them, all later than what the *)
(* subscriber knows, none ahead of the session's own state.                *)
(***************************************************************************)
StatesIn(q) == {q[i].state : i \in {j \in DOMAIN q : q[j].type = "state"}}
Ordered(q) == \A i, j \in DOMAIN q :
    i < j /\ q[i].type = "state" /\ q[j].type = "state" => q[j].state \in Later[q[i].state]
AllLater(A, B) == \A a \in A, b \in B : b \in Later[a]

InFlight == IF fanPC = "broadcast" THEN StatesIn(<<inHand>>) ELSE {}

StateEventsInOrder ==
  /\ Ordered(events)
  /\ AllLater(InFlight, StatesIn(events))
  /\ \A t \in StatesIn(events) \cup InFlight : Reaches(t, state)
  /\ \A s \in Subscribers :
       /\ Ordered(subCh[s])
       /\ AllLater({badge[s]}, StatesIn(subCh[s]))
       /\ \A t \in StatesIn(subCh[s]) \cup {badge[s]} : Reaches(t, state)
       /\ s \in subs \/ s \notin subscribed =>
            AllLater(StatesIn(subCh[s]) \cup {badge[s]}, StatesIn(events) \cup InFlight)

(***************************************************************************)
(* The badges of the subscribers follow the session as SessionBadge        *)
(* allows, and the session itself takes only legal steps: no Closed is     *)
(* overwritten by a dial that finishes late.                               *)
(***************************************************************************)
Contract == INSTANCE SessionBadge WITH phase <- state

BadgeContract == Contract!BadgeSpec

(***************************************************************************)
(* Dropped bytes are never forgotten: while the counter holds some, the    *)
(* flag that makes fanoutLoop report them is up, or is about to be raised, *)
(* or fanoutLoop is about to swap the counter.                             *)
(***************************************************************************)
DropsFlagged == overflowBytes > 0 =>
    overflowPending \/ readPC = "flag" \/ fanPC = "report"

(***************************************************************************)
(* Close, whoever calls it first, runs to its end: no lock it takes is     *)
(* held by somebody who waits for it.                                      *)
(***************************************************************************)
CloseCompletes == closePC # "idle" ~> closePC = "finished"

(* Once done is closed the three loops of the session return, readLoop and *)
(* writeLoop also when they are inside Close behind the one that runs it.  *)
LoopsExit == done /\ openPC # "start" ~>
    readPC = "stopped" /\ writePC = "stopped" /\ fanPC = "stopped"

(***************************************************************************)
(* A failed dial is not lost on anyone: whoever subscribed before the      *)
(* failure has learnt of it or has the event ahead, unless somebody closes *)
(* the session.  dialInBackground publishes Failed before it closes done,  *)
(* and fanoutLoop empties events before it returns; with room for two      *)
(* events in each channel neither of them can drop it.                     *)
(***************************************************************************)
StillToCome == IF fanPC = "stopped" THEN {} ELSE InFlight \cup StatesIn(events)

FailureNotLost ==
  state = Failed /\ dialPC # "pubFailed" /\ closePC = "idle" =>
    \A s \in subs \cap early :
      Failed \in {badge[s]} \cup StatesIn(subCh[s]) \cup StillToCome

(***************************************************************************)
(* Closing a session leaves nothing open once the dialer is gone too       *)
(* (manager.go, Open: "Close during a dial does not leak the conn").       *)
(***************************************************************************)
ReleasedAfterClose ==
  closePC = "finished" /\ dialPC = "exit" => conn # "open" /\ sshSess # "open"

(***************************************************************************)
(* When Close closes the channel of a subscriber that was there while the  *)
(* session lived and has room in it, the subscriber has been told of the   *)
(* close (session_impl.go, fanoutLoop: it drains events on shutdown "so    *)
(* that the sub sees the complete sequence").                              *)
(***************************************************************************)
CloseIsSeen == [][CloseSubs => \A s \in subs \cap early :
    Len(subCh[s]) < SubCap => Closing \in {badge[s]} \cup StatesIn(subCh[s])]_vars
=============================================================================
