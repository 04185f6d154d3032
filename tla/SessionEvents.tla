---------------------------- MODULE SessionEvents ----------------------------
(***************************************************************************)
(* The event plumbing of one session (internal/session/session_impl.go):   *)
(* the bounded channel `events` that every goroutine of the session        *)
(* publishes to without blocking, the fanoutLoop goroutine that hands each *)
(* event to the subscribers' own bounded channels, and the two counters    *)
(* that report dropped bytes ("overflow" and "sub:overflow").              *)
(*                                                                         *)
(* The operators that other goroutines call (TryPublish...) constrain only *)
(* the variables they change; Session.tla composes them into its actions.  *)
(***************************************************************************)
EXTENDS SessionStates, Sequences, FiniteSets

CONSTANTS Subscribers, (* the subscriptions that may be made               *)
          EventsCap,   (* capacity of events     (eventsBufferSize, 64)    *)
          SubCap       (* capacity of a subscriber channel (subBufferSize) *)

ASSUME EventsAssumption == /\ EventsCap \in Nat \ {0}
                           /\ SubCap \in Nat \ {0}
                           /\ IsFiniteSet(Subscribers)

VARIABLES
  events,          (* the central channel, oldest event first              *)
  done,            (* s.done has been closed                               *)
  subs,            (* s.subs: subscriptions not cancelled and not closed   *)
  subscribed,      (* every subscription ever made (s.nextSubID)           *)
  subCh,           (* contents of each subscriber's channel                *)
  badge,           (* last state each subscriber has received              *)
  overflowBytes, overflowPending,
  subDropBytes, subDropPending,
  fanPC,           (* where fanoutLoop is                                  *)
  inHand           (* the event fanoutLoop has received, not yet broadcast *)

fanVars == <<events, subCh, overflowBytes, overflowPending,
             subDropBytes, subDropPending, fanPC, inHand>>
counterVars == <<overflowBytes, overflowPending>>
eventVars == <<fanVars, done, subs, subscribed, badge>>

-----------------------------------------------------------------------------
(* Events carry what Event carries; absent fields have their zero value.   *)
NoState == "none"
Event == {ev \in [type : {"data", "state", "exit", "error", "overflow", "sub:overflow"},
                  state : States \cup {NoState}, bytes : Nat] :
            ev.type = "state" <=> ev.state # NoState}

StateEvent(s) == [type |-> "state", state |-> s, bytes |-> 0]
DataEvent(n)  == [type |-> "data", state |-> NoState, bytes |-> n]
ExitEvent     == [type |-> "exit", state |-> NoState, bytes |-> 0]
ErrorEvent    == [type |-> "error", state |-> NoState, bytes |-> 0]
OverflowEvent(n)    == [type |-> "overflow", state |-> NoState, bytes |-> n]
SubOverflowEvent(n) == [type |-> "sub:overflow", state |-> NoState, bytes |-> n]

NoEvent == ExitEvent (* what inHand holds when fanoutLoop holds nothing     *)

(***************************************************************************)
(* tryPublish: select over "send to events" and "done is closed", with a   *)
(* default.  Both cases ready: Go picks either.  Neither ready: the event  *)
(* is dropped (Overflows), and the caller accounts for its bytes.          *)
(***************************************************************************)
(* Mutant: the event is stored whether or not there is room.               *)
EnqueueAlways(ev) == events' = Append(events, ev)

Enqueue(ev) == /\ Len(events) < EventsCap
               /\ events' = Append(events, ev)

DropClosed == done /\ UNCHANGED events

Overflows == ~done /\ Len(events) = EventsCap

(* tryPublish of an event without Data: a drop is never accounted for.     *)
TryPublishMeta(ev) == Enqueue(ev) \/ DropClosed \/ (Overflows /\ UNCHANGED events)

-----------------------------------------------------------------------------
FanPCs == {"off", "select", "broadcast", "overflow", "report", "subOverflow", "stopped"}

(* The part of the type invariant that concerns the variables above.       *)
EventsTypeOK ==
  /\ events \in Seq(Event) /\ Len(events) <= EventsCap
  /\ done \in BOOLEAN /\ subs \subseteq subscribed /\ subscribed \subseteq Subscribers
  /\ subCh \in [Subscribers -> Seq(Event)]
  /\ \A s \in Subscribers : Len(subCh[s]) <= SubCap
  /\ badge \in [Subscribers -> States]
  /\ overflowBytes \in Nat /\ overflowPending \in BOOLEAN
  /\ subDropBytes \in Nat /\ subDropPending \in BOOLEAN
  /\ fanPC \in FanPCs /\ inHand \in Event

EventsInit ==
  /\ events = <<>> /\ done = FALSE
  /\ subs = {} /\ subscribed = {}
  /\ subCh = [s \in Subscribers |-> <<>>]
  /\ badge = [s \in Subscribers |-> Connecting]
  /\ overflowBytes = 0 /\ overflowPending = FALSE
  /\ subDropBytes = 0 /\ subDropPending = FALSE
  /\ fanPC = "off" /\ inHand = NoEvent

(***************************************************************************)
(* Subscribe registers a fresh channel.  The cancel function it returns    *)
(* removes and closes it, unless Close has done so; receiving goes on      *)
(* until the channel is closed and empty.                                  *)
(***************************************************************************)
Subscribe(s) ==
  /\ s \notin subscribed
  /\ subs' = subs \cup {s}
  /\ subscribed' = subscribed \cup {s}
  /\ UNCHANGED <<fanVars, done, badge>>

Cancel(s) ==
  /\ s \in subs
  /\ subs' = subs \ {s}
  /\ UNCHANGED <<fanVars, done, subscribed, badge>>

Receive(s) ==
  /\ subCh[s] # <<>>
  /\ LET ev == Head(subCh[s])
     IN badge' = [badge EXCEPT ![s] = IF ev.type = "state" THEN ev.state ELSE @]
  /\ subCh' = [subCh EXCEPT ![s] = Tail(@)]
  /\ UNCHANGED <<events, overflowBytes, overflowPending, subDropBytes,
                 subDropPending, fanPC, inHand, done, subs, subscribed>>

-----------------------------------------------------------------------------
(***************************************************************************)
(* fanoutLoop.  It receives an event, broadcasts it under subMu, then      *)
(* reports drops.  After done is closed it goes on until events is empty   *)
(* and returns: its drain loop does the same as its main loop.             *)
(***************************************************************************)
Delivered(ev) == [s \in Subscribers |->
    IF s \in subs /\ Len(subCh[s]) < SubCap THEN Append(subCh[s], ev) ELSE subCh[s]]

SlowSubs == {s \in subs : Len(subCh[s]) = SubCap}

FanReceive ==
  /\ fanPC = "select"
  /\ events # <<>>
  /\ inHand' = Head(events)
  /\ events' = Tail(events)
  /\ fanPC' = "broadcast"
  /\ UNCHANGED <<subCh, overflowBytes, overflowPending, subDropBytes,
                 subDropPending, done, subs, subscribed, badge>>

(* Mutant: fanoutLoop returns on done and leaves events as it is.          *)
FanReturnAtOnce ==
  /\ fanPC = "select"
  /\ done
  /\ fanPC' = "stopped"
  /\ UNCHANGED <<events, subCh, overflowBytes, overflowPending, subDropBytes,
                 subDropPending, inHand, done, subs, subscribed, badge>>

FanReturn ==
  /\ fanPC = "select"
  /\ done /\ events = <<>>
  /\ fanPC' = "stopped"
  /\ UNCHANGED <<events, subCh, overflowBytes, overflowPending, subDropBytes,
                 subDropPending, inHand, done, subs, subscribed, badge>>

(* broadcast: a full subscriber loses the event; bytes of data are counted. *)
Broadcast(ev) ==
  /\ subCh' = Delivered(ev)
  /\ IF ev.type = "data" /\ SlowSubs # {}
     THEN /\ subDropBytes' = subDropBytes + ev.bytes * Cardinality(SlowSubs)
          /\ subDropPending' = TRUE
     ELSE UNCHANGED <<subDropBytes, subDropPending>>

FanBroadcast ==
  /\ fanPC = "broadcast"
  /\ Broadcast(inHand)
  /\ inHand' = NoEvent
  /\ fanPC' = "overflow"
  /\ UNCHANGED <<events, overflowBytes, overflowPending,
                 done, subs, subscribed, badge>>

(***************************************************************************)
(* maybeEmitOverflow: clear the flag, then swap the counter out and        *)
(* broadcast what it held.  readLoop may add to the counter in between.    *)
(***************************************************************************)
ClearOverflowFlag ==
  /\ fanPC = "overflow"
  /\ overflowPending' = FALSE
  /\ fanPC' = IF overflowPending THEN "report" ELSE "subOverflow"
  /\ UNCHANGED <<events, subCh, overflowBytes, subDropBytes, subDropPending,
                 inHand, done, subs, subscribed, badge>>

ReportOverflow ==
  /\ fanPC = "report"
  /\ overflowBytes' = 0
  /\ IF overflowBytes > 0
     THEN Broadcast(OverflowEvent(overflowBytes))
     ELSE UNCHANGED <<subCh, subDropBytes, subDropPending>>
  /\ fanPC' = "subOverflow"
  /\ UNCHANGED <<events, overflowPending, inHand, done, subs, subscribed, badge>>

(* maybeEmitSubOverflow: its counter belongs to fanoutLoop alone.          *)
ReportSubOverflow ==
  /\ fanPC = "subOverflow"
  /\ subDropBytes' = 0 /\ subDropPending' = FALSE
  /\ subCh' = IF subDropPending /\ subDropBytes > 0
              THEN Delivered(SubOverflowEvent(subDropBytes)) ELSE subCh
  /\ fanPC' = "select"
  /\ UNCHANGED <<events, overflowBytes, overflowPending, inHand,
                 done, subs, subscribed, badge>>

fanoutLoop == FanReceive \/ FanReturn \/ FanBroadcast \/ ClearOverflowFlag
              \/ ReportOverflow \/ ReportSubOverflow
=============================================================================
