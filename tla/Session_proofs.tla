---------------------------- MODULE Session_proofs ----------------------------
(***************************************************************************)
(* Proofs of the safety properties of Session for any number of            *)
(* subscribers, chunks and inputs and any capacity of the channels.        *)
(***************************************************************************)
EXTENDS SessionInv, FiniteSetTheorems, TLAPS

-----------------------------------------------------------------------------
(* Facts about the event plumbing.                                         *)
(* The events the code constructs are events.                              *)
LEMMA EventTypes ==
  /\ \A st \in States : StateEvent(st) \in Event
  /\ ExitEvent \in Event /\ ErrorEvent \in Event /\ NoEvent \in Event
  /\ \A n \in Nat : /\ DataEvent(n) \in Event /\ OverflowEvent(n) \in Event
                    /\ SubOverflowEvent(n) \in Event
BY DEF Event, StateEvent, DataEvent, ExitEvent, ErrorEvent, OverflowEvent,
       SubOverflowEvent, NoEvent, NoState, States, Connecting, Authenticating, Established,
       Closing, Closed, Failed

(* Publishing keeps events a sequence of events within its capacity.       *)
LEMMA EnqueueType ==
  ASSUME events \in Seq(Event), Len(events) <= EventsCap, NEW ev \in Event, Enqueue(ev)
  PROVE  events' \in Seq(Event) /\ Len(events') <= EventsCap
BY EventsAssumption DEF Enqueue

LEMMA PublishType ==
  ASSUME events \in Seq(Event), Len(events) <= EventsCap, NEW ev \in Event, TryPublishMeta(ev)
  PROVE  events' \in Seq(Event) /\ Len(events') <= EventsCap
BY EnqueueType DEF TryPublishMeta, DropClosed

(* Delivering an event keeps every subscriber's channel within SubCap.     *)
SubChOK(ch) == ch \in [Subscribers -> Seq(Event)] /\ \A s \in Subscribers : Len(ch[s]) <= SubCap

LEMMA DeliveredType ==
  ASSUME SubChOK(subCh), NEW ev \in Event
  PROVE  SubChOK(Delivered(ev))
BY EventsAssumption DEF SubChOK, Delivered

LEMMA NatProduct == ASSUME NEW m \in Nat, NEW n \in Nat PROVE m * n \in Nat
OBVIOUS

LEMMA BroadcastType ==
  ASSUME EventsTypeOK, NEW ev \in Event, Broadcast(ev)
  PROVE  SubChOK(subCh') /\ subDropBytes' \in Nat /\ subDropPending' \in BOOLEAN
<1>1. SubChOK(subCh')
  BY DeliveredType DEF EventsTypeOK, Broadcast, SubChOK
<1>2. Cardinality(SlowSubs) \in Nat
  <2>1. SlowSubs \subseteq Subscribers
    BY DEF SlowSubs, EventsTypeOK
  <2> QED
    BY <2>1, EventsAssumption, FS_Subset, FS_CardinalityType
<1>3. ev.bytes * Cardinality(SlowSubs) \in Nat
  BY <1>2, NatProduct DEF Event
<1> DEFINE lost == ev.bytes * Cardinality(SlowSubs)
<1>4. subDropBytes' \in {subDropBytes, subDropBytes + lost}
      /\ subDropPending' \in {subDropPending, TRUE}
  BY DEF Broadcast
<1>5. subDropBytes + lost \in Nat
  <2> HIDE DEF lost
  <2> QED
    BY <1>3 DEF EventsTypeOK, lost
<1> QED
  <2> HIDE DEF lost
  <2> QED
    BY <1>1, <1>4, <1>5 DEF EventsTypeOK

-----------------------------------------------------------------------------
(* What the other goroutines do to the variables of the plumbing: nothing, *)
(* add one event, close done, or count a drop.                             *)
LEMMA EventsKept == EventsTypeOK /\ UNCHANGED eventVars => EventsTypeOK'
BY DEF EventsTypeOK, eventVars, fanVars

LEMMA EventsPublished ==
  ASSUME EventsTypeOK, events' \in Seq(Event), Len(events') <= EventsCap,
         done' \in BOOLEAN, overflowBytes' \in Nat, overflowPending' \in BOOLEAN,
         UNCHANGED <<subs, subscribed, badge, subCh, subDropBytes, subDropPending, fanPC, inHand>>
  PROVE  EventsTypeOK'
BY DEF EventsTypeOK

(* Every operator of the plumbing preserves its type invariant.            *)
LEMMA FanoutType ==
  ASSUME EventsTypeOK, fanoutLoop
  PROVE  EventsTypeOK'
<1>1. CASE FanReceive
  <2>1. Head(events) \in Event /\ Tail(events) \in Seq(Event)
        /\ Len(Tail(events)) <= EventsCap
    BY <1>1, EventsAssumption DEF FanReceive, EventsTypeOK
  <2> QED
    BY <1>1, <2>1 DEF FanReceive, EventsTypeOK, FanPCs
<1>2. CASE FanReturn
  BY <1>2 DEF FanReturn, EventsTypeOK, FanPCs
<1>3. CASE FanBroadcast
  BY <1>3, BroadcastType, EventTypes DEF FanBroadcast, EventsTypeOK, FanPCs, SubChOK
<1>4. CASE ClearOverflowFlag
  BY <1>4 DEF ClearOverflowFlag, EventsTypeOK, FanPCs
<1>5. CASE ReportOverflow
  <2>1. OverflowEvent(overflowBytes) \in Event
    BY EventTypes DEF EventsTypeOK
  <2>2. SubChOK(subCh') /\ subDropBytes' \in Nat /\ subDropPending' \in BOOLEAN
    BY <1>5, <2>1, BroadcastType DEF ReportOverflow, EventsTypeOK, SubChOK
  <2> QED
    BY <1>5, <2>2 DEF ReportOverflow, EventsTypeOK, FanPCs, SubChOK
<1>6. CASE ReportSubOverflow
  <2>1. SubOverflowEvent(subDropBytes) \in Event
    BY EventTypes DEF EventsTypeOK
  <2>2. SubChOK(subCh')
    BY <1>6, <2>1, DeliveredType DEF ReportSubOverflow, EventsTypeOK, SubChOK
  <2> QED
    BY <1>6, <2>2 DEF ReportSubOverflow, EventsTypeOK, FanPCs, SubChOK
<1> QED
  BY <1>1, <1>2, <1>3, <1>4, <1>5, <1>6 DEF fanoutLoop

LEMMA SubscriberType ==
  ASSUME EventsTypeOK, NEW s \in Subscribers, Subscribe(s) \/ Cancel(s) \/ Receive(s)
  PROVE  EventsTypeOK'
<1>1. CASE Subscribe(s)
  BY <1>1 DEF Subscribe, EventsTypeOK, fanVars
<1>2. CASE Cancel(s)
  BY <1>2 DEF Cancel, EventsTypeOK, fanVars
<1>3. CASE Receive(s)
  <2>1. Head(subCh[s]) \in Event /\ Tail(subCh[s]) \in Seq(Event)
        /\ Len(Tail(subCh[s])) <= SubCap
    BY <1>3, EventsAssumption DEF Receive, EventsTypeOK
  <2>2. badge' \in [Subscribers -> States]
    <3>1. Head(subCh[s]).type = "state" => Head(subCh[s]).state \in States
      BY <2>1 DEF Event
    <3> QED
      BY <1>3, <3>1 DEF Receive, EventsTypeOK
  <2> QED
    BY <1>3, <2>1, <2>2 DEF Receive, EventsTypeOK
<1> QED
  BY <1>1, <1>2, <1>3

-----------------------------------------------------------------------------
LEMMA StateNames ==
  /\ Connecting \in States /\ Authenticating \in States /\ Established \in States
  /\ Closing \in States /\ Closed \in States /\ Failed \in States
BY DEF States

-----------------------------------------------------------------------------
(* Type correctness.  ReadOK adds to the types of readLoop's variables what *)
(* keeps the accumulator in bounds.                                        *)
ReadOK == ReadTypeOK /\ AccumInv

LEMMA TypeInit == Init => TypeOK /\ AccumInv
<1> SUFFICES ASSUME Init PROVE TypeOK /\ AccumInv
  OBVIOUS
<1>1. EventsTypeOK
  <2>1. /\ events \in Seq(Event) /\ Len(events) <= EventsCap
        /\ subCh \in [Subscribers -> Seq(Event)]
        /\ \A s \in Subscribers : Len(subCh[s]) <= SubCap
    BY EventsAssumption DEF Init, EventsInit
  <2>2. badge \in [Subscribers -> States]
    BY StateNames DEF Init, EventsInit
  <2>3. inHand \in Event /\ fanPC \in FanPCs
    BY EventTypes DEF Init, EventsInit, FanPCs
  <2> QED
    BY <2>1, <2>2, <2>3 DEF Init, EventsInit, EventsTypeOK
<1>2. MgrTypeOK /\ LifeTypeOK /\ PcTypeOK
  BY StateNames DEF Init, MgrTypeOK, LifeTypeOK, PcTypeOK, DialPCs, ClosePCs, WritePCs
<1>3. ConnTypeOK
  BY DEF Init, ConnTypeOK, NothingTaken
<1>4. ReadTypeOK /\ InputTypeOK /\ EnvTypeOK /\ AccumInv
  BY SessionAssumption DEF Init, ReadTypeOK, InputTypeOK, EnvTypeOK, ReadPCs, AccumInv
<1> QED
  BY <1>1, <1>2, <1>3, <1>4 DEF TypeOK

(* A part of the invariant holds on while its variables do not change.     *)
LEMMA PartsKept ==
  /\ EventsTypeOK /\ UNCHANGED eventVars => EventsTypeOK'
  /\ MgrTypeOK /\ UNCHANGED mgrVars => MgrTypeOK'
  /\ LifeTypeOK /\ UNCHANGED lifeVars => LifeTypeOK'
  /\ PcTypeOK /\ UNCHANGED pcVars => PcTypeOK'
  /\ ConnTypeOK /\ UNCHANGED connVars => ConnTypeOK'
  /\ ReadOK /\ UNCHANGED readVars => ReadOK'
  /\ InputTypeOK /\ UNCHANGED inputVars => InputTypeOK'
  /\ EnvTypeOK /\ UNCHANGED envVars => EnvTypeOK'
<1>1. EventsTypeOK /\ UNCHANGED eventVars => EventsTypeOK'
  BY EventsKept
<1>2. ReadOK /\ UNCHANGED readVars => ReadOK'
  BY DEF ReadOK, ReadTypeOK, AccumInv, readVars
<1> QED
  BY <1>1, <1>2 DEF MgrTypeOK, LifeTypeOK, PcTypeOK, ConnTypeOK, InputTypeOK, EnvTypeOK,
     mgrVars, lifeVars, pcVars, connVars, inputVars, envVars

(* The parts of TypeOK and AccumInv, as the steps below establish them.    *)
Parts == EventsTypeOK /\ MgrTypeOK /\ LifeTypeOK /\ PcTypeOK /\ ConnTypeOK /\ ReadOK
         /\ InputTypeOK /\ EnvTypeOK

LEMMA PartsOfType == (TypeOK /\ AccumInv <=> Parts) /\ (TypeOK' /\ AccumInv' <=> Parts')
BY DEF TypeOK, ReadOK, Parts

(* A state event that is published, with done and the counters unchanged.  *)
LEMMA StatePublished ==
  ASSUME EventsTypeOK, NEW to \in States, PublishAndRelease(to), LifeTypeOK,
         UNCHANGED <<subCh, overflowBytes, overflowPending, subDropBytes, subDropPending,
                     fanPC, inHand, done, subs, subscribed, badge>>
  PROVE  EventsTypeOK' /\ LifeTypeOK'
<1>1. events' \in Seq(Event) /\ Len(events') <= EventsCap
  BY PublishType, EventTypes DEF PublishAndRelease, EventsTypeOK
<1> QED
  BY <1>1, EventsPublished DEF EventsTypeOK, PublishAndRelease, LifeTypeOK

LEMMA TypeOpen == ASSUME Parts, Register \/ Start \/ Spawn PROVE Parts'
<1>1. CASE Register \/ Spawn
  BY <1>1, PartsKept DEF Parts, Register, Spawn, MgrTypeOK, PcTypeOK, DialPCs, pcVars
<1>2. CASE Start
  <2>1. EventsTypeOK'
    BY <1>2 DEF Start, Parts, EventsTypeOK, FanPCs
  <2>2. PcTypeOK' /\ MgrTypeOK'
    BY <1>2 DEF Start, Parts, PcTypeOK, MgrTypeOK, WritePCs
  <2>3. ReadOK'
    BY <1>2, SessionAssumption DEF Start, Parts, ReadOK, ReadTypeOK, AccumInv, ReadPCs
  <2> QED
    BY <1>2, <2>1, <2>2, <2>3, PartsKept DEF Start, Parts
<1> QED
  BY <1>1, <1>2

LEMMA TypeDialer == ASSUME Parts, dialInBackground PROVE Parts'
<1> USE DEF DialerFrame, DialGoto, DialPCs
<1>1. CASE DialPublish
  <2>1. PICK to \in States : PublishAndRelease(to)
    BY <1>1, StateNames DEF DialPublish, AfterPublish, Announces
  <2>2. EventsTypeOK' /\ LifeTypeOK'
    BY <1>1, <2>1, StatePublished DEF DialPublish, Parts
  <2>3. PcTypeOK'
    BY <1>1 DEF DialPublish, AfterPublish, Parts, PcTypeOK
  <2> QED
    BY <1>1, <2>2, <2>3, PartsKept DEF DialPublish, Parts
<1>2. CASE CasAuthenticating \/ CasEstablished \/ CasFailed
  <2>1. LifeTypeOK'
    BY <1>2, StateNames, PartsKept DEF CasAuthenticating, CasEstablished, CasFailed, CasSet,
       CasFails, AcquireAndSet, Parts, LifeTypeOK
  <2>2. PcTypeOK'
    BY <1>2 DEF CasAuthenticating, CasEstablished, CasFailed, Parts, PcTypeOK
  <2> QED
    BY <1>2, <2>1, <2>2, PartsKept DEF CasAuthenticating, CasEstablished, CasFailed, Parts
<1>3. CASE DialOk \/ DialErr \/ CloseConn \/ OpenSessionOk \/ OpenSessionErr \/ SetDialedSess
  <2>1. ConnTypeOK' /\ PcTypeOK'
    BY <1>3, PartsKept DEF DialOk, DialErr, CloseConn, OpenSessionOk, OpenSessionErr,
       SetDialedSess, Parts, ConnTypeOK, PcTypeOK
  <2> QED
    BY <1>3, <2>1, PartsKept DEF DialOk, DialErr, CloseConn, OpenSessionOk, OpenSessionErr,
       SetDialedSess, Parts
<1>4. CASE DialSignalDone
  <2>1. EventsTypeOK'
    BY <1>4 DEF DialSignalDone, Parts, EventsTypeOK, fanVars
  <2>2. PcTypeOK'
    BY <1>4 DEF DialSignalDone, Parts, PcTypeOK
  <2> QED
    BY <1>4, <2>1, <2>2, PartsKept DEF DialSignalDone, Parts
<1> QED
  BY <1>1, <1>2, <1>3, <1>4 DEF dialInBackground

LEMMA TypeCloser == ASSUME Parts, ManagerClose \/ Close PROVE Parts'
<1> USE DEF CloserFrame, CloseGoto, ClosePCs
<1>1. CASE ClosePublish
  <2>1. PICK to \in States : PublishAndRelease(to)
    BY <1>1, StateNames DEF ClosePublish
  <2>2. EventsTypeOK' /\ LifeTypeOK'
    BY <1>1, <2>1, StatePublished DEF ClosePublish, Parts
  <2>3. PcTypeOK'
    BY <1>1 DEF ClosePublish, Parts, PcTypeOK
  <2> QED
    BY <1>1, <2>2, <2>3, PartsKept DEF ClosePublish, Parts
<1>2. CASE CloseSetState
  <2>1. LifeTypeOK' /\ PcTypeOK'
    BY <1>2, StateNames DEF CloseSetState, AcquireAndSet, Parts, LifeTypeOK, PcTypeOK
  <2> QED
    BY <1>2, <2>1, PartsKept DEF CloseSetState, Parts
<1>3. CASE ManagerClose
  <2>1. MgrTypeOK' /\ PcTypeOK'
    BY <1>3 DEF ManagerClose, EnterOnce, Parts, MgrTypeOK, PcTypeOK
  <2> QED
    BY <1>3, <2>1, PartsKept DEF ManagerClose, Parts
<1>4. CASE CloseTake \/ CloseSess \/ CloseDialed
  <2>1. ConnTypeOK'
    <3>1. taken' \in [dialed : BOOLEAN, sess : BOOLEAN]
      <4>1. CASE CloseTake
        BY <4>1 DEF CloseTake, Parts, ConnTypeOK
      <4>2. CASE CloseSess
        BY <4>2 DEF CloseSess, Parts, ConnTypeOK
      <4>3. CASE CloseDialed
        BY <4>3 DEF CloseDialed, Parts, ConnTypeOK
      <4> QED
        BY <1>4, <4>1, <4>2, <4>3
    <3> QED
      BY <1>4, <3>1 DEF CloseTake, CloseSess, CloseDialed, Parts, ConnTypeOK
  <2>2. PcTypeOK'
    BY <1>4 DEF CloseTake, CloseSess, CloseDialed, Parts, PcTypeOK
  <2> QED
    BY <1>4, <2>1, <2>2, PartsKept DEF CloseTake, CloseSess, CloseDialed, Parts
<1>5. CASE CloseSignalDone \/ CloseSubs
  <2>1. EventsTypeOK'
    BY <1>5 DEF CloseSignalDone, CloseSubs, Parts, EventsTypeOK, fanVars
  <2>2. PcTypeOK'
    BY <1>5 DEF CloseSignalDone, CloseSubs, Parts, PcTypeOK
  <2> QED
    BY <1>5, <2>1, <2>2, PartsKept DEF CloseSignalDone, CloseSubs, Parts
<1> QED
  BY <1>1, <1>2, <1>3, <1>4, <1>5 DEF Close

LEMMA TypeReader == ASSUME Parts, ReadChunk \/ ReadError \/ PushChunk \/ readLoop PROVE Parts'
<1> USE SessionAssumption DEF LoopFrame
<1>1. CASE ReadChunk \/ ReadError \/ PushChunk \/ ReadWait
  <2>1. ReadOK'
    BY <1>1 DEF ReadChunk, ReadError, PushChunk, ReadWait, WaitForSess, Parts, ReadOK,
       ReadTypeOK, AccumInv, ReadPCs
  <2> QED
    BY <1>1, <2>1, PartsKept DEF ReadChunk, ReadError, PushChunk, ReadWait, Parts
<1>2. CASE ReadSelect
  <2>1. ReadOK'
    BY <1>2 DEF ReadSelect, Parts, ReadOK, ReadTypeOK, AccumInv, ReadPCs
  <2>2. EventsTypeOK' /\ PcTypeOK'
    BY <1>2 DEF ReadSelect, Parts, EventsTypeOK, counterVars, PcTypeOK
  <2> QED
    BY <1>2, <2>1, <2>2, PartsKept DEF ReadSelect, Parts
<1>3. CASE Flush
  <2>1. EventsTypeOK'
    <3>1. DataEvent(accum) \in Event
      BY EventTypes DEF Parts, ReadOK, ReadTypeOK
    <3>2. events' \in Seq(Event) /\ Len(events') <= EventsCap
      BY <1>3, <3>1, EnqueueType DEF Flush, Parts, EventsTypeOK, DropClosed
    <3> QED
      BY <1>3, <3>2, EventsPublished DEF Flush, Parts, EventsTypeOK, counterVars
  <2>2. ReadOK'
    <3>1. /\ accum' = 0
          /\ readPC' \in {readNext, "count"}
          /\ dropped' \in {dropped, accum}
      BY <1>3 DEF Flush
    <3> QED
      BY <1>3, <3>1 DEF Flush, Parts, ReadOK, ReadTypeOK, AccumInv, ReadPCs
  <2> QED
    BY <1>3, <2>1, <2>2, PartsKept DEF Flush, Parts, PcTypeOK
<1>4. CASE CountDrop \/ FlagDrop
  <2>1. EventsTypeOK'
    <3>1. overflowBytes' \in Nat /\ overflowPending' \in BOOLEAN
      <4>1. overflowBytes + dropped \in Nat
        BY DEF Parts, EventsTypeOK, ReadOK, ReadTypeOK
      <4> QED
        BY <1>4, <4>1 DEF CountDrop, FlagDrop, Parts, EventsTypeOK
    <3> QED
      BY <1>4, <3>1, EventsPublished DEF CountDrop, FlagDrop, Parts, EventsTypeOK
  <2>2. ReadOK'
    BY <1>4 DEF CountDrop, FlagDrop, Parts, ReadOK, ReadTypeOK, AccumInv, ReadPCs
  <2> QED
    BY <1>4, <2>1, <2>2, PartsKept DEF CountDrop, FlagDrop, Parts, PcTypeOK
<1>5. CASE PublishExit
  <2>1. EventsTypeOK'
    <3>1. events' \in Seq(Event) /\ Len(events') <= EventsCap
      BY <1>5, PublishType, EventTypes DEF PublishExit, Parts, EventsTypeOK
    <3> QED
      BY <1>5, <3>1, EventsPublished DEF PublishExit, Parts, EventsTypeOK, counterVars
  <2>2. ReadOK'
    BY <1>5 DEF PublishExit, Parts, ReadOK, ReadTypeOK, AccumInv, ReadPCs
  <2> QED
    BY <1>5, <2>1, <2>2, PartsKept DEF PublishExit, Parts, PcTypeOK
<1>6. CASE ReadClose
  <2>1. EventsTypeOK' /\ PcTypeOK'
    BY <1>6 DEF ReadClose, EnterOnce, Parts, EventsTypeOK, counterVars, PcTypeOK, ClosePCs
  <2>2. ReadOK'
    BY <1>6 DEF ReadClose, Parts, ReadOK, ReadTypeOK, AccumInv, ReadPCs
  <2> QED
    BY <1>6, <2>1, <2>2, PartsKept DEF ReadClose, Parts
<1> QED
  BY <1>1, <1>2, <1>3, <1>4, <1>5, <1>6 DEF readLoop

LEMMA TypeWriter == ASSUME Parts, writeLoop PROVE Parts'
<1> USE SessionAssumption DEF WriterFrame
<1>1. EventsTypeOK'
  <2>1. events' \in Seq(Event) /\ Len(events') <= EventsCap
    BY PublishType, EventTypes DEF writeLoop, WriteWait, WriteSelect, WriteOk, WriteError,
       PublishError, WriteClose, Parts, EventsTypeOK
  <2> QED
    BY <2>1, EventsPublished DEF writeLoop, WriteWait, WriteSelect, WriteOk, WriteError,
       PublishError, WriteClose, Parts, EventsTypeOK, counterVars
<1>2. PcTypeOK'
  BY DEF writeLoop, WriteWait, WaitForSess, WriteSelect, WriteOk, WriteError, PublishError,
     WriteClose, EnterOnce, Parts, PcTypeOK, WritePCs, ClosePCs
<1>3. InputTypeOK'
  BY DEF writeLoop, WriteWait, WriteSelect, WriteOk, WriteError, PublishError, WriteClose,
     Parts, InputTypeOK
<1> QED
  BY <1>1, <1>2, <1>3, PartsKept DEF writeLoop, WriteWait, WriteSelect, WriteOk, WriteError,
     PublishError, WriteClose, Parts

LEMMA TypeInput == ASSUME Parts, InputCheck \/ InputSend \/ RemoteHangsUp PROVE Parts'
<1>1. InputTypeOK'
  BY SessionAssumption
  DEF InputCheck, InputSend, RemoteHangsUp, Parts, InputTypeOK, inputVars
<1>2. EnvTypeOK'
  BY PartsKept DEF InputCheck, InputSend, RemoteHangsUp, Parts, EnvTypeOK
<1> QED
  BY <1>1, <1>2, PartsKept DEF InputCheck, InputSend, RemoteHangsUp, Parts

LEMMA TypeFan == ASSUME Parts, FanStep PROVE Parts'
<1>1. EventsTypeOK'
  BY FanoutType DEF FanStep, Parts
<1> QED
  BY <1>1, PartsKept DEF FanStep, SessionUnchanged, Parts, EnvTypeOK

LEMMA TypeSubscriber ==
  ASSUME Parts, NEW s \in Subscribers, SubscriberStep(s) \/ ReceiveStep(s) PROVE Parts'
<1>1. EventsTypeOK'
  BY SubscriberType DEF SubscriberStep, ReceiveStep, Parts
<1>2. EnvTypeOK'
  BY DEF SubscriberStep, ReceiveStep, SessionUnchanged, Parts, EnvTypeOK
<1> QED
  BY <1>1, <1>2, PartsKept DEF SubscriberStep, ReceiveStep, SessionUnchanged, Parts

LEMMA TypeStep == TypeOK /\ AccumInv /\ [Next]_vars => TypeOK' /\ AccumInv'
<1> SUFFICES ASSUME Parts, [Next]_vars PROVE Parts'
  BY PartsOfType
<1>1. CASE UNCHANGED vars
  BY <1>1, PartsKept DEF vars, Parts
<1>2. CASE Over
  BY <1>2, PartsKept DEF Over, vars, Parts
<1> QED
  BY <1>1, <1>2, TypeOpen, TypeDialer, TypeCloser, TypeReader, TypeWriter, TypeInput, TypeFan,
     TypeSubscriber DEF Next

(* Every variable keeps its type, every channel its capacity.              *)
THEOREM TypeCorrect == Spec => []TypeOK
<1>1. Spec => [](TypeOK /\ AccumInv)
  BY TypeInit, TypeStep, PTL DEF Spec
<1> QED
  BY <1>1, PTL
-----------------------------------------------------------------------------
(* The life of the session and the ownership of its connection.            *)
LEMMA StatesDiffer ==
  /\ Connecting \notin {Authenticating, Established, Closing, Closed, Failed}
  /\ Authenticating \notin {Established, Closing, Closed, Failed}
  /\ Established \notin {Closing, Closed, Failed}
  /\ Closing \notin {Closed, Failed} /\ Closed # Failed
BY DEF Connecting, Authenticating, Established, Closing, Closed, Failed

LEMMA LifeInit == Init => LifeInv
<1> SUFFICES ASSUME Init PROVE LifeInv
  OBVIOUS
<1>1. OpenInv /\ LockInv /\ CloseInv
  BY StatesDiffer DEF Init, OpenInv, LockInv, CloseInv, NotClosing, Publishing
<1>2. DialInv
  BY StatesDiffer DEF Init, DialInv, NotClosing, DialerState, BeforeFailure
<1>3. RefInv /\ OneOwner
  BY DEF Init, RefInv, OneOwner, DialerOwns, CloserOwns, NothingTaken, NotClosing
<1>4. EstablishedIsUsable
  BY StatesDiffer DEF Init, EstablishedIsUsable
<1> QED
  BY <1>1, <1>2, <1>3, <1>4 DEF LifeInv

(* Steps that leave the life of the session alone, or enter Close first.   *)
LEMMA LifeKept ==
  ASSUME LifeInv, UNCHANGED <<dialPC, lifeVars, connVars>>,
         openPC' = "returned" <=> openPC = "returned",
         closePC' = closePC \/ (closePC = "idle" /\ closePC' = "setClosing")
  PROVE  LifeInv'
<1> USE DEF NotClosing, lifeVars, connVars
<1>1. LockInv' /\ OpenInv'
  BY DEF LifeInv, LockInv, Publishing, OpenInv
<1>2. CloseInv'
  BY DEF LifeInv, CloseInv
<1>3. DialInv'
  BY DEF LifeInv, DialInv, DialerState, BeforeFailure
<1>4. RefInv'
  BY DEF LifeInv, RefInv
<1>5. OneOwner' /\ EstablishedIsUsable'
  BY DEF LifeInv, OneOwner, EstablishedIsUsable, DialerOwns, CloserOwns, ExactlyOne
<1> QED
  BY <1>1, <1>2, <1>3, <1>4, <1>5 DEF LifeInv

LEMMA LifeDialer == ASSUME TypeOK, LifeInv, dialInBackground PROVE LifeInv'
<1> USE StatesDiffer DEF DialerFrame, DialGoto, lifeVars, connVars
<1>1. LockInv'
  <2> USE DEF LifeInv, LockInv, Publishing, NotClosing
  <2>1. CASE DialOk \/ DialErr \/ CloseConn \/ OpenSessionOk \/ OpenSessionErr \/ SetDialedSess
             \/ DialSignalDone
    BY <2>1 DEF DialOk, DialErr, CloseConn, OpenSessionOk, OpenSessionErr, SetDialedSess,
       DialSignalDone
  <2>2. CASE CasAuthenticating \/ CasEstablished \/ CasFailed
    BY <2>2 DEF CasAuthenticating, CasEstablished, CasFailed, CasSet, CasFails, AcquireAndSet,
       CloseInv, BeforeFailure
  <2>3. CASE DialPublish
    BY <2>3 DEF DialPublish, PublishAndRelease, AfterPublish
  <2> QED
    BY <2>1, <2>2, <2>3 DEF dialInBackground
<1>0. OpenInv'
  BY DEF dialInBackground, DialOk, DialErr, CasAuthenticating, CloseConn, OpenSessionOk,
     OpenSessionErr, SetDialedSess, CasEstablished, CasFailed, DialPublish, DialSignalDone,
     AfterPublish, mgrVars, LifeInv, OpenInv
<1>2. CloseInv'
  BY DEF dialInBackground, DialOk, DialErr, CasAuthenticating, CloseConn, OpenSessionOk,
     OpenSessionErr, SetDialedSess, CasEstablished, CasFailed, DialPublish, DialSignalDone,
     CasSet, CasFails, AcquireAndSet, PublishAndRelease, BeforeFailure, LifeInv, CloseInv, NotClosing
<1>3. DialInv'
  <2> USE DEF LifeInv, DialInv, CloseInv, NotClosing, DialerState, BeforeFailure
  <2>1. CASE DialOk \/ DialErr \/ CloseConn \/ OpenSessionOk \/ OpenSessionErr \/ SetDialedSess
             \/ DialSignalDone
    BY <2>1 DEF DialOk, DialErr, CloseConn, OpenSessionOk, OpenSessionErr, SetDialedSess,
       DialSignalDone, OneOwner, ExactlyOne, DialerOwns
  <2>2. CASE CasAuthenticating \/ CasEstablished \/ CasFailed
    BY <2>2 DEF CasAuthenticating, CasEstablished, CasFailed, CasSet, CasFails, AcquireAndSet
  <2>3. CASE DialPublish
    <3>1. \/ dialPC = "pubAuth" /\ dialPC' = "openSession"
          \/ dialPC = "pubEstab" /\ dialPC' = "exit"
          \/ dialPC = "pubFailed" /\ dialPC' = "signalDone"
      BY <2>3 DEF DialPublish, AfterPublish
    <3>2. UNCHANGED <<state, closePC, conn, sshSess>>
      BY <2>3 DEF DialPublish, PublishAndRelease
    <3> QED
      BY <3>1, <3>2
  <2> QED
    BY <2>1, <2>2, <2>3 DEF dialInBackground
<1>4. RefInv'
  <2> USE DEF LifeInv, RefInv, NotClosing
  <2>0. CASE SetDialedSess
    <3>1. dialed' /\ sess' /\ dialed' = sess' /\ dialPC' = "casEstab"
      BY <2>0 DEF SetDialedSess
    <3>2. UNCHANGED <<closePC, taken>>
      BY <2>0 DEF SetDialedSess
    <3> QED
      BY <3>1, <3>2
  <2>1. CASE DialOk \/ DialErr \/ CloseConn \/ OpenSessionOk \/ OpenSessionErr \/ DialSignalDone
    BY <2>1 DEF DialOk, DialErr, CloseConn, OpenSessionOk, OpenSessionErr, DialSignalDone
  <2>2. CASE CasAuthenticating \/ CasEstablished \/ CasFailed
    BY <2>2 DEF CasAuthenticating, CasEstablished, CasFailed, CasSet, CasFails, AcquireAndSet
  <2>3. CASE DialPublish
    BY <2>3 DEF DialPublish, PublishAndRelease, AfterPublish
  <2> QED
    BY <2>0, <2>1, <2>2, <2>3 DEF dialInBackground
<1>5. OneOwner'
  <2> USE DEF LifeInv, OneOwner, ExactlyOne, DialerOwns, CloserOwns, RefInv, DialInv
  <2>1. CASE DialOk \/ DialErr \/ CloseConn \/ OpenSessionOk \/ OpenSessionErr \/ SetDialedSess
             \/ DialSignalDone
    BY <2>1 DEF DialOk, DialErr, CloseConn, OpenSessionOk, OpenSessionErr, SetDialedSess,
       DialSignalDone
  <2>2. CASE CasAuthenticating \/ CasEstablished \/ CasFailed
    BY <2>2 DEF CasAuthenticating, CasEstablished, CasFailed, CasSet, CasFails, AcquireAndSet
  <2>3. CASE DialPublish
    BY <2>3 DEF DialPublish, PublishAndRelease, AfterPublish
  <2> QED
    BY <2>1, <2>2, <2>3 DEF dialInBackground
<1>6. EstablishedIsUsable'
  <2> USE DEF LifeInv, EstablishedIsUsable, RefInv, DialInv, CloseInv, NotClosing
  <2>1. CASE DialOk \/ DialErr \/ CloseConn \/ OpenSessionOk \/ OpenSessionErr \/ SetDialedSess
             \/ DialSignalDone
    BY <2>1 DEF DialOk, DialErr, CloseConn, OpenSessionOk, OpenSessionErr, SetDialedSess,
       DialSignalDone
  <2>2. CASE CasAuthenticating \/ CasEstablished \/ CasFailed
    BY <2>2 DEF CasAuthenticating, CasEstablished, CasFailed, CasSet, CasFails, AcquireAndSet
  <2>3. CASE DialPublish
    BY <2>3 DEF DialPublish, PublishAndRelease
  <2> QED
    BY <2>1, <2>2, <2>3 DEF dialInBackground
<1> QED
  BY <1>0, <1>1, <1>2, <1>3, <1>4, <1>5, <1>6 DEF LifeInv

LEMMA LifeCloser == ASSUME TypeOK, LifeInv, Close PROVE LifeInv'
<1> USE StatesDiffer DEF CloserFrame, CloseGoto, lifeVars, connVars, NotClosing
<1>0. OpenInv'
  BY DEF Close, CloseSetState, ClosePublish, CloseTake, CloseSess, CloseDialed,
     CloseSignalDone, CloseSubs, mgrVars, LifeInv, OpenInv
<1>1. LockInv'
  BY DEF Close, CloseSetState, ClosePublish, CloseTake, CloseSess, CloseDialed,
     CloseSignalDone, CloseSubs, AcquireAndSet, PublishAndRelease, LifeInv, LockInv, Publishing
<1>2. CloseInv'
  BY DEF Close, CloseSetState, ClosePublish, CloseTake, CloseSess, CloseDialed,
     CloseSignalDone, CloseSubs, AcquireAndSet, PublishAndRelease, LifeInv, CloseInv
<1>3. DialInv'
  <2> USE DEF LifeInv, DialInv, CloseInv, DialerState, BeforeFailure, RefInv, OneOwner
  <2>1. CASE CloseSetState
    BY <2>1 DEF CloseSetState, AcquireAndSet
  <2>2. CASE ClosePublish
    BY <2>2 DEF ClosePublish, PublishAndRelease
  <2>3. CASE CloseTake \/ CloseSess \/ CloseDialed
    BY <2>3 DEF CloseTake, CloseSess, CloseDialed
  <2>4. CASE CloseSignalDone \/ CloseSubs
    BY <2>4 DEF CloseSignalDone, CloseSubs
  <2> QED
    BY <2>1, <2>2, <2>3, <2>4 DEF Close
<1>4. RefInv' /\ OneOwner'
  <2> USE DEF LifeInv, RefInv, OneOwner, ExactlyOne, DialerOwns, CloserOwns
  <2>1. CASE CloseSetState \/ ClosePublish \/ CloseSignalDone \/ CloseSubs
    BY <2>1 DEF CloseSetState, ClosePublish, CloseSignalDone, CloseSubs
  <2>2. CASE CloseTake
    BY <2>2 DEF CloseTake
  <2>3. CASE CloseSess
    BY <2>3 DEF CloseSess, TypeOK, ConnTypeOK
  <2>4. CASE CloseDialed
    BY <2>4 DEF CloseDialed, TypeOK, ConnTypeOK
  <2> QED
    BY <2>1, <2>2, <2>3, <2>4 DEF Close
<1>5. EstablishedIsUsable'
  BY <1>2 DEF Close, CloseSetState, ClosePublish, CloseTake, CloseSess, CloseDialed,
     CloseSignalDone, CloseSubs, AcquireAndSet, PublishAndRelease, LifeInv, CloseInv,
     EstablishedIsUsable
<1> QED
  BY <1>0, <1>1, <1>2, <1>3, <1>4, <1>5 DEF LifeInv

LEMMA LifeStep == TypeOK /\ LifeInv /\ [Next]_vars => LifeInv'
<1> SUFFICES ASSUME TypeOK, LifeInv, [Next]_vars PROVE LifeInv'
  OBVIOUS
<1>1. CASE dialInBackground
  BY <1>1, LifeDialer
<1>2. CASE Close
  BY <1>2, LifeCloser
<1>3. CASE Register \/ Start \/ InputCheck \/ InputSend \/ RemoteHangsUp \/ FanStep
           \/ UNCHANGED vars \/ Over
  BY <1>3, LifeKept DEF Register, Start, InputCheck, InputSend, RemoteHangsUp, FanStep,
     SessionUnchanged, vars, Over, pcVars, mgrVars
<1>4. CASE \E s \in Subscribers : SubscriberStep(s) \/ ReceiveStep(s)
  BY <1>4, LifeKept DEF SubscriberStep, ReceiveStep, SessionUnchanged, pcVars, mgrVars
<1>5. CASE ManagerClose
  BY <1>5, LifeKept DEF ManagerClose, EnterOnce
<1>6. CASE ReadChunk \/ ReadError \/ PushChunk \/ readLoop
  BY <1>6, LifeKept DEF ReadChunk, ReadError, PushChunk, readLoop, ReadWait, ReadSelect, Flush,
     CountDrop, FlagDrop, PublishExit, ReadClose, EnterOnce, LoopFrame, pcVars, mgrVars
<1>7. CASE writeLoop
  BY <1>7, LifeKept DEF writeLoop, WriteWait, WriteSelect, WriteOk, WriteError, PublishError,
     WriteClose, EnterOnce, WriterFrame, mgrVars
<1>8. CASE Spawn
  <2>1. dialPC = "off" /\ dialPC' = "dial" /\ openPC' = "returned"
    BY <1>8 DEF Spawn, LifeInv, OpenInv
  <2>2. UNCHANGED <<state, publishMu, conn, sshSess, dialed, sess, taken, closePC>>
    BY <1>8 DEF Spawn, lifeVars, connVars
  <2>3. OpenInv' /\ LockInv' /\ CloseInv' /\ DialInv'
    BY <2>1, <2>2 DEF LifeInv, OpenInv, LockInv, CloseInv, DialInv, NotClosing, Publishing,
       DialerState
  <2>4. RefInv' /\ OneOwner' /\ EstablishedIsUsable'
    BY <2>1, <2>2 DEF LifeInv, RefInv, OneOwner, ExactlyOne, EstablishedIsUsable, DialerOwns,
       CloserOwns, NotClosing
  <2> QED
    BY <2>3, <2>4 DEF LifeInv
<1> QED
  BY <1>1, <1>2, <1>3, <1>4, <1>5, <1>6, <1>7, <1>8 DEF Next

(* The connection and the session on it always have exactly one goroutine  *)
(* or field that will close them, and are closed once.                     *)
THEOREM Ownership == Spec => []OneOwner
<1>1. Spec => [](TypeOK /\ AccumInv /\ LifeInv)
  BY TypeInit, TypeStep, LifeInit, LifeStep, PTL DEF Spec
<1>2. LifeInv => OneOwner
  BY DEF LifeInv
<1> QED
  BY <1>1, <1>2, PTL

(* A session that is Established has its connection and its SSH session.   *)
THEOREM Usability == Spec => []EstablishedIsUsable
<1>1. Spec => [](TypeOK /\ AccumInv /\ LifeInv)
  BY TypeInit, TypeStep, LifeInit, LifeStep, PTL DEF Spec
<1>2. LifeInv => EstablishedIsUsable
  BY DEF LifeInv
<1> QED
  BY <1>1, <1>2, PTL
=============================================================================
