-------------------------- MODULE SessionOrder_proofs --------------------------
(***************************************************************************)
(* Proofs that state events reach subscribers in order and that Session    *)
(* implements SessionBadge.                                                *)
(***************************************************************************)
EXTENDS Session_proofs

(* Later is a strict order on States that contains the steps of a life.    *)
LEMMA LaterOrder ==
  /\ \A a, b, c \in States : b \in Later[a] /\ c \in Later[b] => c \in Later[a]
  /\ \A a \in States : a \notin Later[a] /\ Later[a] \subseteq States
  /\ \A a \in States : Successors[a] \subseteq Later[a]
  /\ \A a \in States \ {Connecting} : a \in Later[Connecting]
<1>1. /\ Later[Connecting] = States \ {Connecting}
      /\ Later[Authenticating] = {Established, Failed, Closing, Closed}
      /\ Later[Established] = {Closing, Closed}
      /\ Later[Failed] = {Closing, Closed}
      /\ Later[Closing] = {Closed}
      /\ Later[Closed] = {}
  BY StateNames, StatesDiffer DEF Later
<1>2. /\ Successors[Connecting] = {Authenticating, Failed, Closing}
      /\ Successors[Authenticating] = {Established, Failed, Closing}
      /\ Successors[Established] = {Closing}
      /\ Successors[Failed] = {Closing}
      /\ Successors[Closing] = {Closed}
      /\ Successors[Closed] = {}
  BY StateNames, StatesDiffer DEF Successors
<1> QED
  BY <1>1, <1>2, StatesDiffer DEF States

-----------------------------------------------------------------------------
(* The states announced in a channel.                                      *)
LEMMA StatesInOne ==
  /\ StatesIn(<<>>) = {}
  /\ \A ev \in Event : StatesIn(<<ev>>) = IF ev.type = "state" THEN {ev.state} ELSE {}
BY DEF StatesIn

LEMMA StatesInType ==
  ASSUME NEW q \in Seq(Event) PROVE StatesIn(q) \subseteq States
BY DEF StatesIn, Event

LEMMA StatesInAppend ==
  ASSUME NEW q \in Seq(Event), NEW ev \in Event
  PROVE  /\ StatesIn(Append(q, ev)) = StatesIn(q) \cup StatesIn(<<ev>>)
         /\ Ordered(q) /\ AllLater(StatesIn(q), StatesIn(<<ev>>)) => Ordered(Append(q, ev))
<1> DEFINE r == Append(q, ev)
<1>1. /\ DOMAIN r = DOMAIN q \cup {Len(q) + 1}
      /\ \A i \in DOMAIN q : r[i] = q[i] /\ i < Len(q) + 1
      /\ r[Len(q) + 1] = ev
  OBVIOUS
<1>2. StatesIn(<<ev>>) = IF ev.type = "state" THEN {ev.state} ELSE {}
  BY StatesInOne
<1>3. StatesIn(r) = StatesIn(q) \cup StatesIn(<<ev>>)
  BY <1>1, <1>2 DEF StatesIn
<1>4. ASSUME Ordered(q), AllLater(StatesIn(q), StatesIn(<<ev>>)) PROVE Ordered(r)
  <2> SUFFICES ASSUME NEW i \in DOMAIN r, NEW j \in DOMAIN r, i < j,
                      r[i].type = "state", r[j].type = "state"
               PROVE  r[j].state \in Later[r[i].state]
    BY DEF Ordered
  <2>1. CASE j \in DOMAIN q
    BY <1>1, <1>4, <2>1 DEF Ordered
  <2>2. CASE j = Len(q) + 1
    <3>1. i \in DOMAIN q
      BY <1>1, <2>2
    <3>2. r[i].state \in StatesIn(q) /\ r[j].state \in StatesIn(<<ev>>)
      BY <1>1, <1>2, <2>2, <3>1 DEF StatesIn
    <3> QED
      BY <1>4, <3>2 DEF AllLater
  <2> QED
    BY <1>1, <2>1, <2>2
<1> QED
  BY <1>3, <1>4

LEMMA StatesInTail ==
  ASSUME NEW q \in Seq(Event), q # <<>>
  PROVE  /\ StatesIn(q) = StatesIn(<<Head(q)>>) \cup StatesIn(Tail(q))
         /\ Ordered(q) => /\ Ordered(Tail(q))
                          /\ AllLater(StatesIn(<<Head(q)>>), StatesIn(Tail(q)))
<1> DEFINE t == Tail(q)
<1>1. /\ t \in Seq(Event) /\ Head(q) \in Event /\ Head(q) = q[1]
      /\ \A i \in DOMAIN t : t[i] = q[i + 1] /\ i + 1 \in DOMAIN q /\ 1 < i + 1
      /\ \A i \in DOMAIN q : i = 1 \/ (i - 1 \in DOMAIN t /\ t[i - 1] = q[i])
      /\ 1 \in DOMAIN q /\ DOMAIN t \subseteq Nat /\ DOMAIN q \subseteq Nat
  <2>1. Len(q) \in Nat \ {0} /\ DOMAIN q = 1..Len(q)
    OBVIOUS
  <2>2. t \in Seq(Event) /\ Len(t) = Len(q) - 1 /\ DOMAIN t = 1..(Len(q) - 1)
    BY <2>1
  <2>3. \A i \in DOMAIN t : t[i] = q[i + 1]
    BY <2>1, <2>2
  <2>4. Head(q) \in Event /\ Head(q) = q[1]
    BY <2>1
  <2>5. \A i \in DOMAIN q : i = 1 \/ (i - 1 \in DOMAIN t /\ t[i - 1] = q[i])
    <3> HIDE DEF t
    <3> QED
      BY <2>1, <2>2, <2>3
  <2> HIDE DEF t
  <2> QED
    BY <2>1, <2>2, <2>3, <2>4, <2>5
<1>2. StatesIn(<<Head(q)>>) = IF q[1].type = "state" THEN {q[1].state} ELSE {}
  BY <1>1, StatesInOne
<1>3. StatesIn(q) = StatesIn(<<Head(q)>>) \cup StatesIn(t)
  <2> HIDE DEF t
  <2>1. ASSUME NEW x \in StatesIn(q) PROVE x \in StatesIn(<<Head(q)>>) \cup StatesIn(t)
    <3>1. PICK i \in DOMAIN q : q[i].type = "state" /\ x = q[i].state
      BY <2>1 DEF StatesIn
    <3>2. CASE i = 1
      BY <1>2, <3>1, <3>2
    <3>3. CASE i # 1
      <4>1. i - 1 \in DOMAIN t /\ t[i - 1] = q[i]
        BY <1>1, <3>3
      <4> QED
        BY <3>1, <4>1 DEF StatesIn
    <3> QED
      BY <3>2, <3>3
  <2>2. ASSUME NEW x \in StatesIn(t) PROVE x \in StatesIn(q)
    <3>1. PICK i \in DOMAIN t : t[i].type = "state" /\ x = t[i].state
      BY <2>2 DEF StatesIn
    <3> QED
      BY <1>1, <3>1 DEF StatesIn
  <2>3. StatesIn(<<Head(q)>>) \subseteq StatesIn(q)
    BY <1>1, <1>2 DEF StatesIn
  <2> QED
    BY <2>1, <2>2, <2>3
<1>4. ASSUME Ordered(q) PROVE Ordered(t)
  <2> HIDE DEF t
  <2> SUFFICES ASSUME NEW i \in DOMAIN t, NEW j \in DOMAIN t, i < j,
                      t[i].type = "state", t[j].type = "state"
               PROVE  t[j].state \in Later[t[i].state]
    BY DEF Ordered
  <2>1. /\ t[i] = q[i + 1] /\ t[j] = q[j + 1] /\ i + 1 < j + 1
        /\ i + 1 \in DOMAIN q /\ j + 1 \in DOMAIN q
    BY <1>1
  <2> QED
    BY <1>4, <2>1 DEF Ordered
<1>5. ASSUME Ordered(q) PROVE AllLater(StatesIn(<<Head(q)>>), StatesIn(t))
  BY <1>1, <1>2, <1>5 DEF Ordered, AllLater, StatesIn
<1> QED
  BY <1>3, <1>4, <1>5
-----------------------------------------------------------------------------
(* What each kind of step does to the order of the state events.           *)
LEMMA SetsOfStates ==
  ASSUME EventsTypeOK
  PROVE  /\ StatesIn(events) \subseteq States /\ InFlight \subseteq States
         /\ \A s \in Subscribers : StatesIn(subCh[s]) \subseteq States /\ badge[s] \in States
<1>1. InFlight \subseteq States
  BY StatesInOne DEF InFlight, EventsTypeOK, Event
<1> QED
  BY <1>1, StatesInType DEF EventsTypeOK

(* Nothing moves: the subscriptions may shrink, or grow by a new one.      *)
LEMMA OrderKept ==
  ASSUME OrderInv, UNCHANGED <<events, subCh, badge, state, publishMu>>, InFlight' = InFlight,
         \A s \in Subscribers : s \in subs' \/ s \notin subscribed' => s \in subs \/ s \notin subscribed
  PROVE  OrderInv'
<1>1. AnnounceInv'
  BY DEF OrderInv, AnnounceInv, Earlier, StatesIn
<1>2. StateEventsInOrder'
  BY DEF OrderInv, StateEventsInOrder, Ordered, AllLater, StatesIn
<1> QED
  BY <1>1, <1>2 DEF OrderInv

(* An event that announces no state enters events.                         *)
LEMMA OrderOther ==
  ASSUME OrderInv, events \in Seq(Event), NEW ev \in Event, ev.type # "state",
         events' = Append(events, ev),
         UNCHANGED <<subCh, badge, state, publishMu, subs, subscribed>>, InFlight' = InFlight
  PROVE  OrderInv'
<1>1. StatesIn(<<ev>>) = {}
  BY StatesInOne
<1>2. StatesIn(events') = StatesIn(events) /\ (Ordered(events) => Ordered(events'))
  BY <1>1, StatesInAppend DEF AllLater
<1>3. \A s \in Subscribers : StatesIn(subCh'[s]) = StatesIn(subCh[s]) /\ badge'[s] = badge[s]
  OBVIOUS
<1> HIDE DEF StatesIn
<1>4. AnnounceInv'
  BY <1>2, <1>3 DEF OrderInv, AnnounceInv, Earlier
<1>5. StateEventsInOrder'
  BY <1>2, <1>3 DEF OrderInv, StateEventsInOrder, AllLater
<1> QED
  BY <1>4, <1>5 DEF OrderInv

(* A goroutine sets the state: everything announced so far is earlier.     *)
LEMMA OrderSet ==
  ASSUME EventsTypeOK, OrderInv, state \in States, state' \in Successors[state],
         state' \in States, UNCHANGED <<events, subCh, badge, subs, subscribed>>,
         InFlight' = InFlight
  PROVE  OrderInv'
<1>1. \A t \in States : Reaches(t, state) => state' \in Later[t] /\ Reaches(t, state')
  BY LaterOrder DEF Reaches
<1>2. /\ \A t \in StatesIn(events) \cup InFlight : Reaches(t, state) /\ t \in States
      /\ \A s \in Subscribers : \A t \in StatesIn(subCh[s]) \cup {badge[s]} :
            Reaches(t, state) /\ t \in States
  BY SetsOfStates DEF OrderInv, StateEventsInOrder
<1>3. AnnounceInv'
  BY <1>1, <1>2 DEF AnnounceInv, Earlier
<1>4. StateEventsInOrder'
  BY <1>1, <1>2 DEF OrderInv, StateEventsInOrder
<1> QED
  BY <1>3, <1>4 DEF OrderInv

(* ...and announces it: it goes behind all of them.                        *)
LEMMA OrderAnnounced ==
  ASSUME EventsTypeOK, OrderInv, state \in States, publishMu # "free", PublishAndRelease(state),
         UNCHANGED <<subCh, badge, subs, subscribed, fanPC, inHand>>
  PROVE  OrderInv'
<1>1. publishMu' = "free" /\ state' = state
  BY DEF PublishAndRelease
<1>2. InFlight' = InFlight
  BY DEF InFlight
<1>3. CASE events' = events
  <2>1. AnnounceInv'
    BY <1>1 DEF AnnounceInv
  <2>2. StateEventsInOrder'
    BY <1>1, <1>2, <1>3 DEF OrderInv, StateEventsInOrder
  <2> QED
    BY <2>1, <2>2 DEF OrderInv
<1>4. CASE events' = Append(events, StateEvent(state))
  <2>1. StateEvent(state) \in Event /\ StatesIn(<<StateEvent(state)>>) = {state}
    BY EventTypes, StatesInOne DEF StateEvent
  <2>2. /\ Earlier(StatesIn(events)) /\ Earlier(InFlight)
        /\ \A s \in Subscribers : Earlier(StatesIn(subCh[s]) \cup {badge[s]})
    BY DEF OrderInv, AnnounceInv, Earlier
  <2>3. StatesIn(events') = StatesIn(events) \cup {state} /\ Ordered(events')
    BY <1>4, <2>1, <2>2, StatesInAppend
    DEF OrderInv, StateEventsInOrder, EventsTypeOK, AllLater, Earlier
  <2>4. AnnounceInv'
    BY <1>1 DEF AnnounceInv
  <2>5. AllLater(InFlight, StatesIn(events'))
    BY <2>2, <2>3 DEF OrderInv, StateEventsInOrder, AllLater, Earlier
  <2>6. \A t \in StatesIn(events') \cup InFlight : Reaches(t, state)
    BY <2>3 DEF OrderInv, StateEventsInOrder, Reaches
  <2>7. ASSUME NEW s \in Subscribers, s \in subs \/ s \notin subscribed
        PROVE  AllLater(StatesIn(subCh[s]) \cup {badge[s]}, StatesIn(events') \cup InFlight)
    BY <2>2, <2>3, <2>7 DEF OrderInv, StateEventsInOrder, AllLater, Earlier
  <2>8. StateEventsInOrder'
    BY <1>1, <1>2, <2>3, <2>5, <2>6, <2>7 DEF OrderInv, StateEventsInOrder
  <2> QED
    BY <2>4, <2>8 DEF OrderInv
<1> QED
  BY <1>3, <1>4 DEF PublishAndRelease, TryPublishMeta, Enqueue, DropClosed
(* fanoutLoop takes the first event in hand.                               *)
LEMMA OrderFanReceive ==
  ASSUME EventsTypeOK, OrderInv, FanReceive, UNCHANGED <<state, publishMu>>
  PROVE  OrderInv'
<1>1. /\ events # <<>> /\ events' = Tail(events) /\ InFlight' = StatesIn(<<Head(events)>>)
      /\ InFlight = {} /\ UNCHANGED <<subCh, badge, subs, subscribed>>
  BY DEF FanReceive, InFlight, StatesIn
<1>2. /\ StatesIn(events) = InFlight' \cup StatesIn(events')
      /\ Ordered(events') /\ AllLater(InFlight', StatesIn(events'))
  BY <1>1, StatesInTail DEF OrderInv, StateEventsInOrder, EventsTypeOK
<1>3. AnnounceInv'
  BY <1>1, <1>2 DEF OrderInv, AnnounceInv, Earlier
<1>4. StateEventsInOrder'
  <2>1. \A t \in StatesIn(events') \cup InFlight' : Reaches(t, state)
    BY <1>2 DEF OrderInv, StateEventsInOrder
  <2>2. ASSUME NEW s \in Subscribers, s \in subs \/ s \notin subscribed
        PROVE  AllLater(StatesIn(subCh[s]) \cup {badge[s]}, StatesIn(events') \cup InFlight')
    BY <1>2, <2>2 DEF OrderInv, StateEventsInOrder, AllLater
  <2> QED
    BY <1>1, <1>2, <2>1, <2>2 DEF OrderInv, StateEventsInOrder
<1> QED
  BY <1>3, <1>4 DEF OrderInv

(* An event without a state is delivered.                                  *)
LEMMA OrderDelivered ==
  ASSUME EventsTypeOK, OrderInv, NEW ev \in Event, ev.type # "state", subCh' = Delivered(ev),
         UNCHANGED <<events, badge, state, publishMu, subs, subscribed>>, InFlight' = InFlight
  PROVE  OrderInv'
<1>1. ASSUME NEW s \in Subscribers
      PROVE  StatesIn(subCh'[s]) = StatesIn(subCh[s]) /\ (Ordered(subCh[s]) => Ordered(subCh'[s]))
  <2>1. StatesIn(<<ev>>) = {}
    BY StatesInOne
  <2>2. subCh[s] \in Seq(Event) /\ subCh'[s] \in {subCh[s], Append(subCh[s], ev)}
    BY DEF Delivered, EventsTypeOK
  <2> QED
    BY <2>1, <2>2, StatesInAppend DEF AllLater
<1>2. AnnounceInv'
  BY <1>1 DEF OrderInv, AnnounceInv, Earlier
<1>3. StateEventsInOrder'
  BY <1>1 DEF OrderInv, StateEventsInOrder
<1> QED
  BY <1>2, <1>3 DEF OrderInv

(* fanoutLoop broadcasts what it holds, to those who are subscribed.       *)
LEMMA OrderFanBroadcast ==
  ASSUME EventsTypeOK, OrderInv, FanBroadcast, UNCHANGED <<state, publishMu>>
  PROVE  OrderInv'
<1>1. /\ InFlight' = {} /\ InFlight = StatesIn(<<inHand>>) /\ inHand \in Event
      /\ UNCHANGED <<events, badge, subs, subscribed>> /\ subCh' = Delivered(inHand)
  BY DEF FanBroadcast, Broadcast, InFlight, EventsTypeOK
<1>2. ASSUME NEW s \in Subscribers
      PROVE  /\ Ordered(subCh'[s]) /\ AllLater({badge[s]}, StatesIn(subCh'[s]))
             /\ StatesIn(subCh[s]) \subseteq StatesIn(subCh'[s])
             /\ StatesIn(subCh'[s]) \subseteq StatesIn(subCh[s]) \cup InFlight
             /\ s \notin subs => subCh'[s] = subCh[s]
  <2>1. CASE subCh'[s] = subCh[s]
    BY <2>1 DEF OrderInv, StateEventsInOrder
  <2>2. CASE s \in subs /\ subCh'[s] = Append(subCh[s], inHand)
    <3>1. AllLater(StatesIn(subCh[s]) \cup {badge[s]}, InFlight)
      BY <2>2 DEF OrderInv, StateEventsInOrder, AllLater
    <3>2. /\ StatesIn(subCh'[s]) = StatesIn(subCh[s]) \cup InFlight
          /\ Ordered(subCh[s]) /\ AllLater(StatesIn(subCh[s]), InFlight) => Ordered(subCh'[s])
      BY <1>1, <2>2, StatesInAppend DEF EventsTypeOK
    <3> QED
      BY <2>2, <3>1, <3>2 DEF OrderInv, StateEventsInOrder, AllLater
  <2> QED
    BY <1>1, <2>1, <2>2 DEF Delivered
<1>3. AnnounceInv'
  BY <1>1, <1>2 DEF OrderInv, AnnounceInv, Earlier
<1>4. StateEventsInOrder'
  <2>1. ASSUME NEW s \in Subscribers, NEW t \in StatesIn(subCh'[s]) \cup {badge[s]}
        PROVE  Reaches(t, state)
    BY <1>2, <2>1 DEF OrderInv, StateEventsInOrder
  <2>2. ASSUME NEW s \in Subscribers, s \in subs \/ s \notin subscribed
        PROVE  AllLater(StatesIn(subCh'[s]) \cup {badge[s]}, StatesIn(events))
    <3>1. AllLater(InFlight, StatesIn(events))
          /\ AllLater(StatesIn(subCh[s]) \cup {badge[s]}, StatesIn(events) \cup InFlight)
      BY <2>2 DEF OrderInv, StateEventsInOrder
    <3> QED
      BY <1>2, <3>1 DEF AllLater
  <2> QED
    BY <1>1, <1>2, <2>1, <2>2 DEF OrderInv, StateEventsInOrder, AllLater
<1> QED
  BY <1>3, <1>4 DEF OrderInv

(* A subscriber receives an event: its badge moves up to the state.        *)
LEMMA OrderReceive ==
  ASSUME EventsTypeOK, OrderInv, NEW s \in Subscribers, Receive(s), UNCHANGED <<state, publishMu>>
  PROVE  /\ OrderInv'
         /\ badge' = badge \/ \E t \in Later[badge[s]] : /\ Reaches(t, state)
                                                         /\ badge' = [badge EXCEPT ![s] = t]
<1> DEFINE ev == Head(subCh[s])
<1>1. /\ subCh[s] \in Seq(Event) /\ subCh[s] # <<>> /\ ev \in Event
      /\ subCh' = [subCh EXCEPT ![s] = Tail(@)]
      /\ badge' = [badge EXCEPT ![s] = IF ev.type = "state" THEN ev.state ELSE @]
      /\ UNCHANGED <<events, subs, subscribed, fanPC, inHand>> /\ InFlight' = InFlight
  BY DEF Receive, EventsTypeOK, InFlight
<1>2. /\ StatesIn(subCh[s]) = StatesIn(<<ev>>) \cup StatesIn(Tail(subCh[s]))
      /\ Ordered(Tail(subCh[s])) /\ AllLater(StatesIn(<<ev>>), StatesIn(Tail(subCh[s])))
  BY <1>1, StatesInTail DEF OrderInv, StateEventsInOrder
<1>3. StatesIn(<<ev>>) = IF ev.type = "state" THEN {ev.state} ELSE {}
  BY <1>1, StatesInOne
<1>4. /\ subCh'[s] = Tail(subCh[s]) /\ badge'[s] \in {badge[s]} \cup StatesIn(<<ev>>)
      /\ ev.type = "state" => badge'[s] = ev.state
      /\ \A u \in Subscribers \ {s} : subCh'[u] = subCh[u] /\ badge'[u] = badge[u]
  BY <1>1, <1>3 DEF EventsTypeOK
<1> HIDE DEF ev
<1>5. /\ StatesIn(subCh'[s]) \cup {badge'[s]} \subseteq StatesIn(subCh[s]) \cup {badge[s]}
      /\ AllLater({badge'[s]}, StatesIn(subCh'[s]))
  BY <1>2, <1>3, <1>4 DEF OrderInv, StateEventsInOrder, AllLater
<1>6. \A u \in Subscribers : /\ Ordered(subCh'[u]) /\ AllLater({badge'[u]}, StatesIn(subCh'[u]))
                             /\ StatesIn(subCh'[u]) \cup {badge'[u]}
                                  \subseteq StatesIn(subCh[u]) \cup {badge[u]}
  BY <1>2, <1>4, <1>5 DEF OrderInv, StateEventsInOrder
<1>7. AnnounceInv'
  BY <1>1, <1>6 DEF OrderInv, AnnounceInv, Earlier
<1>8. StateEventsInOrder'
  <2>1. ASSUME NEW u \in Subscribers, NEW t \in StatesIn(subCh'[u]) \cup {badge'[u]}
        PROVE  Reaches(t, state)
    BY <1>6, <2>1 DEF OrderInv, StateEventsInOrder
  <2>2. ASSUME NEW u \in Subscribers, u \in subs \/ u \notin subscribed
        PROVE  AllLater(StatesIn(subCh'[u]) \cup {badge'[u]}, StatesIn(events) \cup InFlight)
    BY <1>6, <2>2 DEF OrderInv, StateEventsInOrder, AllLater
  <2> QED
    BY <1>1, <1>6, <2>1, <2>2 DEF OrderInv, StateEventsInOrder
<1>9. badge' = badge \/ \E t \in Later[badge[s]] : /\ Reaches(t, state)
                                                   /\ badge' = [badge EXCEPT ![s] = t]
  <2>1. CASE ev.type = "state"
    <3>1. ev.state \in StatesIn(subCh[s])
      BY <1>2, <1>3, <2>1
    <3>2. ev.state \in Later[badge[s]] /\ Reaches(ev.state, state)
      BY <3>1 DEF OrderInv, StateEventsInOrder, AllLater
    <3> QED
      BY <1>1, <2>1, <3>2
  <2>2. CASE ev.type # "state"
    BY <1>1, <2>2 DEF EventsTypeOK
  <2> QED
    BY <2>1, <2>2
<1> QED
  BY <1>7, <1>8, <1>9 DEF OrderInv
-----------------------------------------------------------------------------
(* Every step keeps the order, takes the session along its life and the    *)
(* badges behind it.                                                       *)
Follows == \/ UNCHANGED <<state, badge>>
           \/ state' \in Successors[state] /\ badge' = badge
           \/ \E s \in Subscribers : \E t \in Later[badge[s]] :
                /\ Reaches(t, state) /\ badge' = [badge EXCEPT ![s] = t] /\ state' = state

LEMMA LifeSteps ==
  /\ Authenticating \in Successors[Connecting] /\ Failed \in Successors[Connecting]
  /\ Established \in Successors[Authenticating] /\ Failed \in Successors[Authenticating]
  /\ \A s \in States \ {Closing, Closed} : Closing \in Successors[s]
  /\ Closed \in Successors[Closing]
BY StatesDiffer DEF Successors, States

LEMMA OrderOpen ==
  ASSUME OrderInv, Register \/ Start \/ Spawn PROVE OrderInv' /\ Follows
<1>1. UNCHANGED <<events, subCh, badge, state, publishMu, subs, subscribed>> /\ InFlight' = InFlight
  BY DEF Register, Start, Spawn, InFlight, eventVars, fanVars, lifeVars
<1> QED
  BY <1>1, OrderKept DEF Follows

LEMMA OrderDialer ==
  ASSUME TypeOK, LifeInv, OrderInv, dialInBackground PROVE OrderInv' /\ Follows
<1> USE DEF DialGoto
<1>1. UNCHANGED <<subCh, badge, subs, subscribed, fanPC, inHand>> /\ InFlight' = InFlight
  BY DEF dialInBackground, DialOk, DialErr, CasAuthenticating, CloseConn, OpenSessionOk,
     OpenSessionErr, SetDialedSess, CasEstablished, CasFailed, DialPublish, DialSignalDone,
     InFlight, eventVars, fanVars
<1>2. CASE DialOk \/ DialErr \/ CloseConn \/ OpenSessionOk \/ OpenSessionErr \/ SetDialedSess
           \/ DialSignalDone
  <2>1. UNCHANGED <<events, state, publishMu>>
    BY <1>2 DEF DialOk, DialErr, CloseConn, OpenSessionOk, OpenSessionErr, SetDialedSess,
       DialSignalDone, eventVars, fanVars, lifeVars
  <2> QED
    BY <1>1, <2>1, OrderKept DEF Follows
<1>3. CASE CasAuthenticating \/ CasEstablished \/ CasFailed
  <2>1. events' = events
    BY <1>3 DEF CasAuthenticating, CasEstablished, CasFailed, eventVars, fanVars
  <2>2. UNCHANGED <<state, publishMu>> \/ state' \in Successors[state]
    BY <1>3, LifeSteps DEF CasAuthenticating, CasEstablished, CasFailed, CasSet, CasFails,
       AcquireAndSet, BeforeFailure, lifeVars
  <2>3. state \in States /\ state' \in States /\ EventsTypeOK
    BY <2>2, LaterOrder DEF TypeOK, LifeTypeOK
  <2>4. OrderInv'
    BY <1>1, <2>1, <2>2, <2>3, OrderKept, OrderSet
  <2> QED
    BY <1>1, <2>2, <2>4 DEF Follows
<1>4. CASE DialPublish
  <2>1. publishMu # "free" /\ PublishAndRelease(state)
    <3>1. publishMu = "dialer" /\ NotClosing
      BY <1>4 DEF DialPublish, AfterPublish, LifeInv, LockInv, Publishing
    <3>2. state = Announces[dialPC]
      BY <1>4, <3>1 DEF DialPublish, AfterPublish, Announces, LifeInv, DialInv, DialerState
    <3> QED
      BY <1>4, <3>1, <3>2 DEF DialPublish
  <2>2. OrderInv'
    BY <1>1, <2>1, OrderAnnounced DEF TypeOK, LifeTypeOK
  <2> QED
    BY <1>1, <2>1, <2>2 DEF Follows, PublishAndRelease
<1> QED
  BY <1>2, <1>3, <1>4 DEF dialInBackground

LEMMA OrderCloser ==
  ASSUME TypeOK, LifeInv, OrderInv, ManagerClose \/ Close PROVE OrderInv' /\ Follows
<1> USE DEF CloseGoto
<1>1. /\ UNCHANGED <<subCh, badge, subscribed, fanPC, inHand>> /\ InFlight' = InFlight
      /\ subs' \in {subs, {}} /\ (~CloseSubs => subs' = subs)
  BY DEF Close, ManagerClose, CloseSetState, ClosePublish, CloseTake, CloseSess, CloseDialed,
     CloseSignalDone, CloseSubs, InFlight, eventVars, fanVars
<1>2. CASE ManagerClose \/ CloseTake \/ CloseSess \/ CloseDialed \/ CloseSignalDone \/ CloseSubs
  <2>1. UNCHANGED <<events, state, publishMu>>
    BY <1>2 DEF ManagerClose, CloseTake, CloseSess, CloseDialed, CloseSignalDone, CloseSubs,
       eventVars, fanVars, lifeVars
  <2> QED
    BY <1>1, <2>1, OrderKept DEF Follows
<1>3. CASE CloseSetState
  <2>1. events' = events /\ subs' = subs
    BY <1>3 DEF CloseSetState, eventVars, fanVars
  <2>2. state' \in Successors[state]
    BY <1>3, LifeSteps, StatesDiffer
    DEF CloseSetState, AcquireAndSet, LifeInv, CloseInv, NotClosing, TypeOK, LifeTypeOK
  <2>3. state \in States /\ state' \in States /\ EventsTypeOK
    BY <2>2, LaterOrder DEF TypeOK, LifeTypeOK
  <2>4. OrderInv'
    BY <1>1, <2>1, <2>2, <2>3, OrderSet
  <2> QED
    BY <1>1, <2>2, <2>4 DEF Follows
<1>4. CASE ClosePublish
  <2>1. publishMu # "free" /\ PublishAndRelease(state) /\ subs' = subs
    BY <1>4 DEF ClosePublish, LifeInv, LockInv, CloseInv, NotClosing
  <2>2. OrderInv'
    BY <1>1, <2>1, OrderAnnounced DEF TypeOK, LifeTypeOK
  <2> QED
    BY <1>1, <2>1, <2>2 DEF Follows, PublishAndRelease
<1> QED
  BY <1>2, <1>3, <1>4 DEF Close

(* The loops: at most one event without a state enters events.             *)
LEMMA OrderLoops ==
  ASSUME TypeOK, OrderInv, ReadChunk \/ ReadError \/ PushChunk \/ readLoop \/ writeLoop
  PROVE  OrderInv' /\ Follows
<1> USE DEF LoopFrame, WriterFrame
<1>1. UNCHANGED <<subCh, badge, subs, subscribed, state, publishMu>> /\ InFlight' = InFlight
  BY DEF ReadChunk, ReadError, PushChunk, readLoop, ReadWait, ReadSelect, Flush, CountDrop,
     FlagDrop, PublishExit, ReadClose, writeLoop, WriteWait, WriteSelect, WriteOk, WriteError,
     PublishError, WriteClose, InFlight, eventVars, fanVars, lifeVars
<1>2. events' = events \/ \E ev \in {DataEvent(accum), ExitEvent, ErrorEvent} :
                             events' = Append(events, ev)
  BY DEF ReadChunk, ReadError, PushChunk, readLoop, ReadWait, ReadSelect, Flush, CountDrop,
     FlagDrop, PublishExit, ReadClose, writeLoop, WriteWait, WriteSelect, WriteOk, WriteError,
     PublishError, WriteClose, eventVars, fanVars, TryPublishMeta, Enqueue, DropClosed
<1>3. \A ev \in {DataEvent(accum), ExitEvent, ErrorEvent} : ev \in Event /\ ev.type # "state"
  BY EventTypes DEF TypeOK, ReadTypeOK, DataEvent, ExitEvent, ErrorEvent
<1>4. OrderInv'
  BY <1>1, <1>2, <1>3, OrderKept, OrderOther DEF TypeOK, EventsTypeOK
<1> QED
  BY <1>1, <1>4 DEF Follows

LEMMA OrderFan == ASSUME TypeOK, OrderInv, FanStep PROVE OrderInv' /\ Follows
<1>1. UNCHANGED <<state, publishMu, badge, subs, subscribed>>
  BY DEF FanStep, SessionUnchanged, lifeVars, fanoutLoop, FanReceive, FanReturn, FanBroadcast,
     ClearOverflowFlag, ReportOverflow, ReportSubOverflow
<1>2. EventsTypeOK
  BY DEF TypeOK
<1>3. CASE FanReceive
  BY <1>1, <1>2, <1>3, OrderFanReceive DEF Follows
<1>4. CASE FanBroadcast
  BY <1>1, <1>2, <1>4, OrderFanBroadcast DEF Follows
<1>5. CASE FanReturn \/ ClearOverflowFlag
  <2>1. UNCHANGED <<events, subCh>> /\ InFlight' = InFlight
    BY <1>5 DEF FanReturn, ClearOverflowFlag, InFlight
  <2> QED
    BY <1>1, <2>1, OrderKept DEF Follows
<1>6. CASE ReportOverflow \/ ReportSubOverflow
  <2>1. events' = events /\ InFlight' = InFlight
    BY <1>6 DEF ReportOverflow, ReportSubOverflow, InFlight
  <2>2. \/ subCh' = subCh
        \/ \E ev \in {OverflowEvent(overflowBytes), SubOverflowEvent(subDropBytes)} :
              subCh' = Delivered(ev)
    BY <1>6 DEF ReportOverflow, ReportSubOverflow, Broadcast
  <2>3. \A ev \in {OverflowEvent(overflowBytes), SubOverflowEvent(subDropBytes)} :
           ev \in Event /\ ev.type # "state"
    <3>1. overflowBytes \in Nat /\ subDropBytes \in Nat
      BY <1>2 DEF EventsTypeOK
    <3>2. /\ OverflowEvent(overflowBytes) \in Event /\ SubOverflowEvent(subDropBytes) \in Event
      BY <3>1, EventTypes
    <3> QED
      BY <3>2 DEF OverflowEvent, SubOverflowEvent
  <2> QED
    BY <1>1, <1>2, <2>1, <2>2, <2>3, OrderKept, OrderDelivered DEF Follows
<1> QED
  BY <1>3, <1>4, <1>5, <1>6 DEF FanStep, fanoutLoop

LEMMA OrderSubscriber ==
  ASSUME TypeOK, OrderInv, NEW s \in Subscribers, SubscriberStep(s) \/ ReceiveStep(s)
  PROVE  OrderInv' /\ Follows
<1>1. UNCHANGED <<state, publishMu>> /\ EventsTypeOK
  BY DEF SubscriberStep, ReceiveStep, SessionUnchanged, lifeVars, TypeOK
<1>2. CASE ReceiveStep(s)
  BY <1>1, <1>2, OrderReceive DEF ReceiveStep, Follows
<1>3. CASE SubscriberStep(s)
  <2>1. UNCHANGED <<events, subCh, badge>> /\ InFlight' = InFlight
    BY <1>3 DEF SubscriberStep, Subscribe, Cancel, InFlight, fanVars
  <2>2. \A u \in Subscribers : u \in subs' \/ u \notin subscribed' => u \in subs \/ u \notin subscribed
    BY <1>3 DEF SubscriberStep, Subscribe, Cancel
  <2> QED
    BY <1>1, <2>1, <2>2, OrderKept DEF Follows
<1> QED
  BY <1>2, <1>3

LEMMA OrderInit == Init => OrderInv
<1> SUFFICES ASSUME Init PROVE OrderInv
  OBVIOUS
<1>1. /\ StatesIn(events) = {} /\ InFlight = {} /\ Ordered(events) /\ publishMu = "free"
      /\ \A s \in Subscribers : StatesIn(subCh[s]) = {} /\ Ordered(subCh[s])
      /\ \A s \in Subscribers : badge[s] = state
  BY StatesInOne DEF Init, EventsInit, InFlight, Ordered
<1> QED
  BY <1>1 DEF OrderInv, AnnounceInv, StateEventsInOrder, AllLater, Reaches

LEMMA OrderStep ==
  TypeOK /\ LifeInv /\ OrderInv /\ [Next]_vars => OrderInv' /\ Follows
<1> SUFFICES ASSUME TypeOK, LifeInv, OrderInv, [Next]_vars PROVE OrderInv' /\ Follows
  OBVIOUS
<1>1. CASE UNCHANGED vars \/ Over \/ InputCheck \/ InputSend \/ RemoteHangsUp
  <2>1. UNCHANGED <<events, subCh, badge, state, publishMu, subs, subscribed>>
        /\ InFlight' = InFlight
    BY <1>1 DEF vars, Over, InputCheck, InputSend, RemoteHangsUp, eventVars, fanVars, lifeVars,
       InFlight
  <2> QED
    BY <2>1, OrderKept DEF Follows
<1> QED
  BY <1>1, OrderOpen, OrderDialer, OrderCloser, OrderLoops, OrderFan, OrderSubscriber DEF Next

(* However the goroutines interleave, subscribers get the state events in  *)
(* the order in which the session went through the states.                 *)
THEOREM Order == Spec => []StateEventsInOrder
<1>1. Spec => [](TypeOK /\ AccumInv /\ LifeInv /\ OrderInv)
  BY TypeInit, TypeStep, LifeInit, LifeStep, OrderInit, OrderStep, PTL DEF Spec
<1>2. OrderInv => StateEventsInOrder
  BY DEF OrderInv
<1> QED
  BY <1>1, <1>2, PTL

-----------------------------------------------------------------------------
(* The session implements SessionBadge, whose copy of the state names and  *)
(* of their order is the session's own.                                    *)
LEMMA SameStates ==
  /\ Contract!Connecting = Connecting
  /\ \A s \in States : Contract!Successors[s] = Successors[s] /\ Contract!Later[s] = Later[s]
  /\ \A s, t : Contract!Reaches(s, t) <=> t = s \/ t \in Contract!Later[s]
<1> USE DEF Contract!Connecting, Contract!Authenticating, Contract!Established,
        Contract!Closing, Contract!Closed, Contract!Failed, Contract!States,
        Connecting, Authenticating, Established, Closing, Closed, Failed, States
<1>1. \A s \in States : Contract!Successors[s] = Successors[s]
  BY DEF Contract!Successors, Successors
<1>2. \A s \in States : Contract!Later[s] = Later[s]
  BY DEF Contract!Later, Later
<1> QED
  BY <1>1, <1>2 DEF Contract!Reaches

LEMMA ContractInit == Init => Contract!BadgeInit
BY SameStates DEF Init, EventsInit, Contract!BadgeInit

LEMMA ContractStep ==
  ASSUME TypeOK, OrderInv, Follows PROVE [Contract!BadgeNext]_(Contract!badgeVars)
<1>1. state \in States /\ \A s \in Subscribers : badge[s] \in States
  BY DEF TypeOK, LifeTypeOK, EventsTypeOK
<1>2. CASE UNCHANGED <<state, badge>>
  BY <1>2 DEF Contract!badgeVars
<1>3. CASE state' \in Successors[state] /\ badge' = badge
  BY <1>1, <1>3, SameStates DEF Contract!BadgeNext, Contract!Advance
<1>4. ASSUME NEW s \in Subscribers, NEW t \in Later[badge[s]], Reaches(t, state),
             badge' = [badge EXCEPT ![s] = t], state' = state
      PROVE  Contract!BadgeNext
  <2>1. t \in States
    BY <1>1, <1>4, LaterOrder
  <2>2. t \in Contract!Later[badge[s]] /\ Contract!Reaches(t, state)
    BY <1>1, <1>4, <2>1, SameStates DEF Reaches
  <2> QED
    BY <1>4, <2>2 DEF Contract!BadgeNext, Contract!Show
<1> QED
  BY <1>2, <1>3, <1>4 DEF Follows

(* The badges follow the session as SessionBadge allows.                   *)
THEOREM Badges == Spec => BadgeContract
<1> DEFINE Inv == TypeOK /\ AccumInv /\ LifeInv /\ OrderInv
<1>1. Spec => []Inv
  BY TypeInit, TypeStep, LifeInit, LifeStep, OrderInit, OrderStep, PTL DEF Spec
<1>2. Init => Contract!BadgeInit
  BY ContractInit
<1>3. Inv /\ [Next]_vars => [Contract!BadgeNext]_(Contract!badgeVars)
  BY OrderStep, ContractStep
<1> QED
  BY <1>1, <1>2, <1>3, PTL DEF Spec, BadgeContract, Contract!BadgeSpec

-----------------------------------------------------------------------------
(* The counter of dropped bytes.                                           *)
LEMMA DropsStep == TypeOK /\ DropsFlagged /\ [Next]_vars => DropsFlagged'
<1> SUFFICES ASSUME TypeOK, DropsFlagged, [Next]_vars PROVE DropsFlagged'
  OBVIOUS
<1> USE DEF DropsFlagged
<1>1. CASE Register \/ Start \/ Spawn
  BY <1>1 DEF Register, Start, Spawn, eventVars, fanVars, readVars
<1>2. CASE dialInBackground
  <2>1. UNCHANGED <<overflowBytes, overflowPending, readPC, fanPC>>
    BY <1>2 DEF dialInBackground, DialOk, DialErr, CasAuthenticating, CloseConn, OpenSessionOk,
       OpenSessionErr, SetDialedSess, CasEstablished, CasFailed, DialPublish, DialSignalDone,
       DialerFrame, eventVars, fanVars, readVars
  <2> QED
    BY <2>1
<1>3. CASE ManagerClose \/ Close
  <2>1. UNCHANGED <<overflowBytes, overflowPending, readPC, fanPC>>
    BY <1>3 DEF ManagerClose, Close, CloseSetState, ClosePublish, CloseTake, CloseSess,
       CloseDialed, CloseSignalDone, CloseSubs, CloserFrame, eventVars, fanVars, readVars
  <2> QED
    BY <2>1
<1>4. CASE ReadChunk \/ ReadError \/ PushChunk \/ writeLoop
  <2>1. UNCHANGED <<overflowBytes, overflowPending, readPC, fanPC>>
    BY <1>4 DEF ReadChunk, ReadError, PushChunk, writeLoop, WriteWait, WriteSelect, WriteOk,
       WriteError, PublishError, WriteClose, WriterFrame, counterVars, eventVars, fanVars, readVars
  <2> QED
    BY <2>1
<1>5. CASE readLoop
  <2> USE DEF LoopFrame, counterVars, eventVars, fanVars
  <2>1. CASE ReadWait \/ ReadSelect \/ Flush \/ PublishExit \/ ReadClose
    <3>1. UNCHANGED <<overflowBytes, overflowPending, fanPC>> /\ readPC # "flag"
      BY <2>1 DEF ReadWait, WaitForSess, ReadSelect, Flush, PublishExit, ReadClose
    <3> QED
      BY <3>1
  <2>2. CASE CountDrop
    BY <2>2 DEF CountDrop
  <2>3. CASE FlagDrop
    BY <2>3 DEF FlagDrop
  <2> QED
    BY <1>5, <2>1, <2>2, <2>3 DEF readLoop
<1>6. CASE FanStep
  <2>1. readPC' = readPC
    BY <1>6 DEF FanStep, SessionUnchanged, readVars
  <2>2. CASE FanReceive \/ FanReturn \/ FanBroadcast \/ ReportSubOverflow
    BY <2>1, <2>2 DEF FanReceive, FanReturn, FanBroadcast, ReportSubOverflow
  <2>3. CASE ClearOverflowFlag
    BY <2>1, <2>3 DEF ClearOverflowFlag
  <2>4. CASE ReportOverflow
    BY <2>1, <2>4 DEF ReportOverflow
  <2> QED
    BY <1>6, <2>2, <2>3, <2>4 DEF FanStep, fanoutLoop
<1>7. CASE \E s \in Subscribers : SubscriberStep(s) \/ ReceiveStep(s)
  <2>1. UNCHANGED <<overflowBytes, overflowPending, readPC, fanPC>>
    BY <1>7 DEF SubscriberStep, ReceiveStep, SessionUnchanged, Subscribe, Cancel, Receive,
       fanVars, readVars
  <2> QED
    BY <2>1
<1>8. CASE InputCheck \/ InputSend \/ RemoteHangsUp \/ Over \/ UNCHANGED vars
  <2>1. UNCHANGED <<overflowBytes, overflowPending, readPC, fanPC>>
    BY <1>8 DEF InputCheck, InputSend, RemoteHangsUp, Over, vars, eventVars, fanVars, readVars
  <2> QED
    BY <2>1
<1> QED
  BY <1>1, <1>2, <1>3, <1>4, <1>5, <1>6, <1>7, <1>8 DEF Next

(* No dropped byte stays counted without a flag that makes fanoutLoop      *)
(* report it, whenever readLoop and fanoutLoop touch the two.              *)
THEOREM Drops == Spec => []DropsFlagged
<1>1. Init => DropsFlagged
  BY DEF Init, EventsInit, DropsFlagged
<1>2. Spec => [](TypeOK /\ AccumInv)
  BY TypeInit, TypeStep, PTL DEF Spec
<1> QED
  BY <1>1, <1>2, DropsStep, PTL DEF Spec

-----------------------------------------------------------------------------
(* The failure of a dial, with room for two events in every channel.       *)
RoomForTwo == EventsCap >= 2 /\ SubCap >= 2

LEMMA AnnouncedParts ==
  ASSUME NEW q \in Seq(Event), Announced(q)
  PROVE  /\ \A ev \in Event : Announced(<<ev>>) => Announced(Append(q, ev))
         /\ q # <<>> => Announced(Tail(q)) /\ Announced(<<Head(q)>>)
<1>1. ASSUME NEW ev \in Event, Announced(<<ev>>) PROVE Announced(Append(q, ev))
  <2> DEFINE r == Append(q, ev)
  <2>1. /\ DOMAIN r = DOMAIN q \cup {Len(q) + 1}
        /\ \A i \in DOMAIN q : r[i] = q[i]
        /\ r[Len(q) + 1] = ev
    OBVIOUS
  <2>2. ev.type = "state" /\ ev.state \in {Authenticating, Failed}
    BY <1>1 DEF Announced
  <2> HIDE DEF r
  <2>3. Announced(r)
    BY <2>1, <2>2 DEF Announced
  <2> QED
    BY <2>3 DEF r
<1>2. ASSUME q # <<>> PROVE Announced(Tail(q)) /\ Announced(<<Head(q)>>)
  <2>1. Len(q) \in Nat \ {0} /\ DOMAIN q = 1 .. Len(q) /\ Head(q) = q[1]
    BY <1>2
  <2>2. /\ Len(Tail(q)) = Len(q) - 1 /\ DOMAIN Tail(q) = 1 .. (Len(q) - 1)
        /\ \A i \in DOMAIN Tail(q) : Tail(q)[i] = q[i + 1]
    BY <2>1
  <2>3. \A i \in 1 .. (Len(q) - 1) : i + 1 \in DOMAIN q
    BY <2>1
  <2>4. Announced(Tail(q))
    BY <2>2, <2>3 DEF Announced
  <2>5. q[1].type = "state" /\ q[1].state \in {Authenticating, Failed}
    BY <2>1 DEF Announced
  <2> QED
    BY <2>1, <2>4, <2>5 DEF Announced
<1> QED
  BY <1>1, <1>2

(* What is announced before a failure is Authenticating, once.             *)
LEMMA OneBeforeFailure ==
  ASSUME NEW q \in Seq(Event), Announced(q), Ordered(q), AllLater(StatesIn(q), {Failed})
  PROVE  Len(q) <= 1
<1>1. Failed \notin Later[Failed] /\ Authenticating \notin Later[Authenticating]
  BY LaterOrder DEF States
<1>2. \A i \in DOMAIN q : q[i].type = "state" /\ q[i].state = Authenticating
  BY <1>1 DEF Announced, AllLater, StatesIn
<1> SUFFICES ASSUME Len(q) > 1 PROVE FALSE
  BY DEF Announced
<1>3. 1 \in DOMAIN q /\ 2 \in DOMAIN q /\ 1 < 2
  OBVIOUS
<1> QED
  BY <1>1, <1>2, <1>3 DEF Ordered

(* A session that is closed, or in use, has no failure to tell of.         *)
LEMMA OldOne ==
  ASSUME closePC' # "idle" \/ (sess' /\ state' # Failed), (early \subseteq subscribed)'
  PROVE  FailInv'
BY DEF FailInv, YoungInv, Young, FailureNotLost

(* A step that leaves the events alone.                                    *)
LEMMA NothingTold ==
  ASSUME FailInv, (early \subseteq subscribed)',
         UNCHANGED <<closePC, sess, state, events, fanPC, inHand, subCh, badge,
                     overflowBytes, subDropBytes>>,
         subs' \cap early' \subseteq subs \cap early,
         Young => /\ readPC' \in {readPC, "wait", "stopped"} /\ writePC' \in {writePC, "wait", "stopped"}
                  /\ done' => dialPC' = "exit"
                  /\ done => done',
         dialPC' # "pubFailed" => dialPC # "pubFailed"
  PROVE  FailInv'
<1>1. YoungInv'
  BY DEF FailInv, YoungInv, Young, LoopsWait, NoDrops, OnlyStates, DoneLast, Announced
<1>2. FailureNotLost'
  BY DEF FailInv, FailureNotLost, StillToCome, InFlight, StatesIn
<1> QED
  BY <1>1, <1>2 DEF FailInv

LEMMA FailOpen ==
  ASSUME TypeOK, LifeInv, FailInv, Register \/ Start \/ Spawn PROVE FailInv'
<1>1. UNCHANGED <<closePC, sess, state, events, inHand, subCh, badge, overflowBytes,
                  subDropBytes, subs, subscribed, early, done>>
  BY DEF Register, Start, Spawn, eventVars, fanVars, lifeVars, connVars, pcVars, envVars, readVars
<1>2. (early \subseteq subscribed)' /\ dialPC = "off" /\ (closePC = "idle" => state = Connecting)
  BY <1>1 DEF FailInv, Register, Start, Spawn, LifeInv, OpenInv, DialInv, DialerState, NotClosing
<1>3. closePC = "idle" => state # Failed
  BY <1>2, StatesDiffer
<1>4. CASE Register
  <2>1. UNCHANGED <<readPC, writePC, dialPC, fanPC>>
    BY <1>4 DEF Register, pcVars, readVars, eventVars, fanVars
  <2> QED
    BY <1>1, <1>2, <1>3, <2>1, NothingTold, OldOne DEF FailInv, YoungInv, Young, DoneLast
<1>5. CASE Start \/ Spawn
  <2>1. /\ readPC' \in {readPC, "wait"} /\ writePC' \in {writePC, "wait"}
        /\ fanPC' \in {fanPC, "select"} /\ (fanPC' = fanPC \/ fanPC = "off")
    BY <1>5 DEF Start, Spawn, eventVars, fanVars, readVars, pcVars
  <2>2. CASE closePC # "idle" \/ sess
    BY <1>1, <1>2, <1>3, <2>2, OldOne DEF FailInv
  <2>3. CASE Young
    <3>1. LoopsWait /\ NoDrops /\ OnlyStates /\ DoneLast
      BY <2>3 DEF FailInv, YoungInv
    <3>2. ~done /\ ~done'
      BY <1>1, <1>2, <3>1 DEF DoneLast
    <3>3. YoungInv'
      BY <1>1, <2>1, <3>1, <3>2 DEF YoungInv, LoopsWait, NoDrops, OnlyStates, DoneLast, Announced
    <3>4. FailureNotLost' /\ (state' = Failed => closePC' # "idle")
      BY <1>1, <1>3 DEF FailureNotLost
    <3> QED
      BY <1>2, <3>3, <3>4 DEF FailInv
  <2> QED
    BY <2>2, <2>3 DEF Young
<1> QED
  BY <1>4, <1>5

LEMMA FailCloser ==
  ASSUME FailInv, ManagerClose \/ Close PROVE FailInv'
<1>1. closePC' # "idle" /\ UNCHANGED <<early, subscribed>>
  BY DEF ManagerClose, EnterOnce, Close, CloseSetState, ClosePublish, CloseTake, CloseSess,
     CloseDialed, CloseSignalDone, CloseSubs, CloseGoto, CloserFrame, eventVars, envVars
<1> QED
  BY <1>1, OldOne DEF FailInv

(* Before the session is in use the loops can only stop waiting.           *)
LEMMA FailLoops ==
  ASSUME TypeOK, FailInv, ReadChunk \/ ReadError \/ PushChunk \/ readLoop \/ writeLoop
  PROVE  FailInv'
<1> USE DEF LoopFrame, WriterFrame
<1>1. UNCHANGED <<sess, state, early, subs, subscribed, fanPC, inHand, subCh, badge, done, dialPC,
                  subDropBytes>>
  BY DEF ReadChunk, ReadError, PushChunk, readLoop, ReadWait, ReadSelect, Flush, CountDrop,
     FlagDrop, PublishExit, ReadClose, writeLoop, WriteWait, WriteSelect, WriteOk, WriteError,
     PublishError, WriteClose, eventVars, fanVars, lifeVars, connVars, envVars, pcVars
<1>2. closePC' = closePC \/ closePC' # "idle"
  BY DEF ReadChunk, ReadError, PushChunk, readLoop, ReadWait, ReadSelect, Flush, CountDrop,
     FlagDrop, PublishExit, ReadClose, writeLoop, WriteWait, WriteSelect, WriteOk, WriteError,
     PublishError, WriteClose, pcVars, EnterOnce
<1>3. CASE ~Young
  BY <1>1, <1>2, <1>3, OldOne DEF Young, FailInv
<1>4. CASE Young
  <2>1. LoopsWait /\ closePC = "idle" /\ ~sess
    BY <1>4 DEF FailInv, YoungInv, Young
  <2>2. ReadChunk \/ ReadError \/ PushChunk \/ ReadWait \/ WriteWait
    BY <2>1 DEF LoopsWait, readLoop, ReadSelect, Flush, CountDrop, FlagDrop, PublishExit, ReadClose,
       writeLoop, WriteSelect, WriteOk, WriteError, PublishError, WriteClose
  <2>3. UNCHANGED <<closePC, events, overflowBytes>>
    BY <2>2 DEF ReadChunk, ReadError, PushChunk, ReadWait, WriteWait, counterVars, eventVars,
       fanVars, pcVars
  <2>4. readPC' \in {readPC, "stopped"} /\ writePC' \in {writePC, "stopped"}
    BY <2>1, <2>2 DEF ReadChunk, ReadError, PushChunk, ReadWait, WriteWait, WaitForSess, pcVars,
       readVars
  <2>5. done' => dialPC' = "exit"
    BY <1>1, <1>4 DEF FailInv, YoungInv, DoneLast
  <2> QED
    BY <1>1, <2>3, <2>4, <2>5, NothingTold DEF FailInv
<1> QED
  BY <1>3, <1>4

LEMMA FailSubscriber ==
  ASSUME TypeOK, FailInv, NEW s \in Subscribers, SubscriberStep(s) PROVE FailInv'
<1>1. UNCHANGED <<closePC, sess, state, events, fanPC, inHand, subCh, badge, overflowBytes,
                  subDropBytes, done, readPC, writePC, dialPC>>
  BY DEF SubscriberStep, Subscribe, Cancel, SessionUnchanged, fanVars, lifeVars, connVars, readVars,
     pcVars
<1>2. /\ subs \subseteq subscribed /\ early \subseteq subscribed
      /\ subs' \subseteq subscribed' /\ subscribed \subseteq subscribed'
  BY DEF FailInv, TypeOK, EventsTypeOK, SubscriberStep, Subscribe, Cancel
<1>3. early' \in {early, early \cup {s}} /\ (s \in early' \ early => s \in subs' /\ state \in Alive)
  BY DEF SubscriberStep
<1>4. (early \subseteq subscribed)'
  BY <1>2, <1>3
<1>5. state = Failed => early' = early
  BY <1>3, StatesDiffer DEF Alive
<1>6. subs' \cap early \subseteq subs \cap early
  BY <1>2 DEF SubscriberStep, Subscribe, Cancel
<1>7. FailureNotLost'
  BY <1>1, <1>5, <1>6 DEF FailInv, FailureNotLost, StillToCome, InFlight, StatesIn
<1>8. YoungInv'
  BY <1>1 DEF FailInv, YoungInv, Young, LoopsWait, NoDrops, OnlyStates, DoneLast, Announced
<1> QED
  BY <1>1, <1>4, <1>7, <1>8 DEF FailInv

(* The dialer announces a failure where there is room for it, and done is  *)
(* its last word.                                                          *)
LEMMA FailPublish ==
  ASSUME RoomForTwo, TypeOK, LifeInv, OrderInv, FailInv, Young, DialPublish PROVE FailInv'
<1>1. /\ UNCHANGED <<closePC, sess, state, fanPC, inHand, subCh, badge, overflowBytes, subDropBytes,
                     subs, subscribed, early, done, readPC, writePC>>
      /\ PublishAndRelease(state) /\ dialPC \in {"pubAuth", "pubFailed"}
      /\ dialPC = "pubAuth" => state = Authenticating /\ dialPC' # "exit"
      /\ dialPC = "pubFailed" => state = Failed /\ dialPC' # "exit"
  <2>1. dialPC \in {"pubAuth", "pubFailed"}
    BY DEF DialPublish, AfterPublish, Young, LifeInv, RefInv, NotClosing
  <2>2. state = Announces[dialPC]
    BY <2>1 DEF Young, LifeInv, DialInv, DialerState, NotClosing, Announces
  <2> QED
    BY <2>1, <2>2 DEF DialPublish, Announces, AfterPublish, DialerFrame, PublishAndRelease, readVars,
       connVars, envVars
<1>2. LoopsWait /\ NoDrops /\ OnlyStates /\ DoneLast /\ ~done
  BY <1>1 DEF FailInv, YoungInv, DoneLast
<1>3. events' \in {events, Append(events, StateEvent(state))}
  BY <1>1 DEF PublishAndRelease, TryPublishMeta, Enqueue, DropClosed
<1>4. StateEvent(state) \in Event /\ Announced(<<StateEvent(state)>>) /\ events \in Seq(Event)
  BY <1>1, EventTypes DEF Announced, StateEvent, TypeOK, LifeTypeOK, EventsTypeOK
<1>5. OnlyStates'
  <2>1. Announced(events')
    BY <1>2, <1>3, <1>4, AnnouncedParts DEF OnlyStates
  <2> QED
    BY <1>1, <1>2, <2>1 DEF OnlyStates, Announced
<1>6. YoungInv'
  BY <1>1, <1>2, <1>5 DEF YoungInv, LoopsWait, NoDrops, DoneLast
<1>7. FailureNotLost'
  <2>1. CASE dialPC = "pubAuth"
    BY <1>1, <2>1, StatesDiffer DEF FailureNotLost
  <2>2. CASE dialPC = "pubFailed"
    <3>1. AllLater(StatesIn(events), {Failed}) /\ Ordered(events)
      BY <1>1, <2>2 DEF OrderInv, AnnounceInv, Earlier, AllLater, StateEventsInOrder, LifeInv, LockInv,
         Publishing
    <3>2. Len(events) <= 1
      BY <1>2, <1>4, <3>1, OneBeforeFailure DEF OnlyStates
    <3>3. Len(events) # EventsCap
      BY <1>4, <3>2, EventsAssumption DEF RoomForTwo
    <3>4. events' = Append(events, StateEvent(Failed))
      BY <1>1, <1>2, <2>2, <3>3 DEF PublishAndRelease, TryPublishMeta, Enqueue, DropClosed, Overflows
    <3>5. Failed \in StatesIn(events')
      BY <1>1, <1>4, <2>2, <3>4, StatesInAppend, StatesInOne DEF StateEvent
    <3>6. fanPC' # "stopped"
      BY <1>1, <1>2 DEF DoneLast
    <3> QED
      BY <3>5, <3>6 DEF FailureNotLost, StillToCome
  <2> QED
    BY <1>1, <2>1, <2>2
<1> QED
  BY <1>1, <1>6, <1>7 DEF FailInv, Young

LEMMA FailDialer ==
  ASSUME RoomForTwo, TypeOK, LifeInv, OrderInv, FailInv, dialInBackground PROVE FailInv'
<1> USE DEF DialGoto
<1>1. UNCHANGED <<closePC, fanPC, inHand, subCh, badge, overflowBytes, subDropBytes, subs, subscribed,
                  early, readPC, writePC>>
  BY DEF dialInBackground, DialOk, DialErr, CasAuthenticating, CloseConn, OpenSessionOk,
     OpenSessionErr, SetDialedSess, CasEstablished, CasFailed, DialPublish, DialSignalDone,
     DialerFrame, eventVars, fanVars, readVars, envVars
<1>2. (early \subseteq subscribed)'
  BY <1>1 DEF FailInv
<1>3. CASE ~Young \/ SetDialedSess
  <2>1. CASE closePC # "idle"
    BY <1>1, <1>2, <2>1, OldOne
  <2>2. CASE closePC = "idle"
    <3>1. sess' /\ dialPC \in {"install", "casEstab", "pubEstab", "exit"}
      BY <1>3, <2>2 DEF Young, LifeInv, RefInv, dialInBackground, DialOk, DialErr, CasAuthenticating,
         CloseConn, OpenSessionOk, OpenSessionErr, SetDialedSess, CasEstablished, CasFailed, DialPublish,
         DialSignalDone, connVars
    <3>2. state' # Failed
      <4>1. dialPC \in {"install", "casEstab", "pubEstab"}
        BY <3>1 DEF dialInBackground, DialOk, DialErr, CasAuthenticating, CloseConn, OpenSessionOk,
           OpenSessionErr, SetDialedSess, CasEstablished, CasFailed, DialPublish, DialSignalDone,
           AfterPublish
      <4>2. state \in {Authenticating, Established}
        BY <2>2, <4>1 DEF LifeInv, DialInv, DialerState, NotClosing
      <4>3. state' \in {state, Established}
        BY <4>1 DEF dialInBackground, DialOk, DialErr, CasAuthenticating, CloseConn, OpenSessionOk,
           OpenSessionErr, SetDialedSess, CasEstablished, CasFailed, DialPublish, DialSignalDone,
           CasSet, CasFails, AcquireAndSet, PublishAndRelease, lifeVars
      <4> QED
        BY <4>2, <4>3, StatesDiffer
    <3> QED
      BY <1>2, <3>1, <3>2, OldOne
  <2> QED
    BY <2>1, <2>2
<1>4. CASE Young /\ DialPublish
  BY <1>4, FailPublish
<1>5. CASE Young /\ DialSignalDone
  <2>1. UNCHANGED <<events, state, sess>> /\ done' /\ dialPC' = "exit" /\ dialPC = "signalDone"
    BY <1>5 DEF DialSignalDone, fanVars, lifeVars, connVars
  <2> QED
    BY <1>1, <1>2, <2>1, NothingTold
<1>6. CASE Young /\ (DialOk \/ DialErr \/ CasAuthenticating \/ CloseConn \/ OpenSessionOk
                     \/ OpenSessionErr \/ CasEstablished \/ CasFailed)
  <2>1. UNCHANGED <<events, done, sess>>
    BY <1>6 DEF DialOk, DialErr, CasAuthenticating, CloseConn, OpenSessionOk, OpenSessionErr,
       CasEstablished, CasFailed, eventVars, fanVars, connVars
  <2>2. dialPC \in {"dial", "casAuth", "openSession", "casFailed"}
    BY <1>6 DEF DialOk, DialErr, CasAuthenticating, CloseConn, OpenSessionOk, OpenSessionErr,
       CasEstablished, CasFailed, Young, LifeInv, DialInv, RefInv, NotClosing
  <2>3. ~done'
    BY <1>6, <2>1, <2>2 DEF FailInv, YoungInv, DoneLast
  <2>4. state' = Failed => dialPC' = "pubFailed"
    <3>1. state \in {Connecting, Authenticating}
      BY <1>6, <2>2 DEF Young, LifeInv, DialInv, DialerState, NotClosing, BeforeFailure
    <3>2. state' \in {state, Authenticating} \/ dialPC' = "pubFailed"
      BY <1>6, <2>2 DEF DialOk, DialErr, CasAuthenticating, CloseConn, OpenSessionOk, OpenSessionErr,
         CasEstablished, CasFailed, CasSet, CasFails, AcquireAndSet, lifeVars
    <3> QED
      BY <3>1, <3>2, StatesDiffer
  <2>5. FailureNotLost'
    BY <2>4 DEF FailureNotLost
  <2>6. YoungInv'
    BY <1>1, <1>6, <2>1, <2>3
    DEF FailInv, YoungInv, Young, LoopsWait, NoDrops, OnlyStates, DoneLast, Announced
  <2> QED
    BY <1>2, <1>6, <2>1, <2>5, <2>6 DEF FailInv, Young
<1> QED
  BY <1>3, <1>4, <1>5, <1>6 DEF dialInBackground

(* Delivered to a subscriber with room, the failure is in its channel.     *)
LEMMA FailBroadcast ==
  ASSUME RoomForTwo, TypeOK, OrderInv, FailInv, Young, FanBroadcast,
         UNCHANGED <<state, closePC, dialPC, early, sess, readPC, writePC>>
  PROVE  FailInv'
<1>1. /\ UNCHANGED <<events, badge, subs, subscribed, done, overflowBytes>>
      /\ subCh' = Delivered(inHand) /\ fanPC = "broadcast" /\ fanPC' = "overflow"
      /\ LoopsWait /\ NoDrops /\ OnlyStates /\ DoneLast
      /\ inHand \in Event /\ subCh \in [Subscribers -> Seq(Event)]
  BY DEF FanBroadcast, Broadcast, FailInv, YoungInv, TypeOK, EventsTypeOK
<1>2. inHand.type = "state" /\ inHand.state \in {Authenticating, Failed} /\ Announced(<<inHand>>)
  BY <1>1 DEF OnlyStates, Announced
<1>3. subDropBytes' = 0
  BY <1>1, <1>2 DEF FanBroadcast, Broadcast, NoDrops
<1>4. ASSUME NEW s \in Subscribers PROVE Announced(subCh'[s])
  <2>1. subCh'[s] \in {subCh[s], Append(subCh[s], inHand)}
    BY <1>1 DEF Delivered
  <2> QED
    BY <1>1, <1>2, <2>1, AnnouncedParts DEF OnlyStates
<1>5. YoungInv'
  BY <1>1, <1>3, <1>4 DEF YoungInv, LoopsWait, NoDrops, OnlyStates, DoneLast, Announced
<1>6. FailureNotLost'
  <2> SUFFICES ASSUME state = Failed, dialPC # "pubFailed", closePC = "idle",
                      NEW s \in (subs \cap early)'
               PROVE  Failed \in {badge'[s]} \cup StatesIn(subCh'[s]) \cup StillToCome'
    BY <1>1 DEF FailureNotLost
  <2>1. s \in Subscribers /\ s \in subs \cap early /\ subCh[s] \in Seq(Event)
    BY <1>1 DEF TypeOK, EventsTypeOK
  <2>2. Failed \in {badge[s]} \cup StatesIn(subCh[s]) \cup StillToCome
    BY <2>1 DEF FailInv, FailureNotLost
  <2>3. CASE Failed \in StatesIn(<<inHand>>)
    <3>1. AllLater(StatesIn(subCh[s]), {Failed}) /\ Ordered(subCh[s])
      BY <1>1, <2>1, <2>3 DEF OrderInv, StateEventsInOrder, AllLater, InFlight
    <3>2. Len(subCh[s]) <= 1
      BY <1>1, <2>1, <3>1, OneBeforeFailure DEF OnlyStates
    <3>3. Len(subCh[s]) < SubCap
      BY <2>1, <3>2, EventsAssumption DEF RoomForTwo
    <3>4. subCh'[s] = Append(subCh[s], inHand)
      BY <1>1, <2>1, <3>3 DEF Delivered
    <3> QED
      BY <1>1, <2>1, <2>3, <3>4, StatesInAppend
  <2>4. CASE Failed \in StatesIn(events)
    BY <1>1, <2>4 DEF StillToCome, StatesIn
  <2>5. CASE Failed \in {badge[s]} \cup StatesIn(subCh[s])
    <3>1. subCh'[s] \in {subCh[s], Append(subCh[s], inHand)}
      BY <1>1, <2>1 DEF Delivered
    <3>2. StatesIn(subCh[s]) \subseteq StatesIn(subCh'[s])
      BY <1>1, <2>1, <3>1, StatesInAppend
    <3> QED
      BY <1>1, <2>5, <3>2
  <2> QED
    BY <1>1, <2>2, <2>3, <2>4, <2>5 DEF StillToCome, InFlight
<1> QED
  BY <1>1, <1>5, <1>6 DEF FailInv, Young

(* fanoutLoop has no drop to report and returns when events is empty.      *)
LEMMA FailFan ==
  ASSUME RoomForTwo, TypeOK, OrderInv, FailInv, FanStep PROVE FailInv'
<1>1. UNCHANGED <<state, closePC, dialPC, early, sess, readPC, writePC, badge, subs, subscribed, done>>
  BY DEF FanStep, SessionUnchanged, lifeVars, pcVars, connVars, readVars, fanoutLoop, FanReceive,
     FanReturn, FanBroadcast, ClearOverflowFlag, ReportOverflow, ReportSubOverflow
<1>2. CASE ~Young
  BY <1>1, <1>2, OldOne DEF Young, FailInv
<1>3. CASE Young /\ FanBroadcast
  BY <1>1, <1>3, FailBroadcast
<1>4. CASE Young /\ (FanReceive \/ FanReturn)
  <2>1. UNCHANGED <<subCh, overflowBytes, subDropBytes>>
    BY <1>4 DEF FanReceive, FanReturn
  <2>2. LoopsWait /\ NoDrops /\ OnlyStates /\ DoneLast /\ events \in Seq(Event)
    BY <1>4 DEF FailInv, YoungInv, TypeOK, EventsTypeOK
  <2>3. CASE FanReceive
    <3>1. /\ events # <<>> /\ inHand' = Head(events) /\ events' = Tail(events)
          /\ fanPC = "select" /\ fanPC' = "broadcast"
      BY <2>3 DEF FanReceive
    <3>2. Announced(events') /\ Announced(<<inHand'>>)
      BY <2>2, <3>1, AnnouncedParts DEF OnlyStates
    <3>3. YoungInv'
      BY <1>1, <2>1, <2>2, <3>1, <3>2
      DEF YoungInv, LoopsWait, NoDrops, OnlyStates, DoneLast, Announced
    <3>4. StillToCome' = StillToCome
      <4>1. /\ StillToCome = StatesIn(events)
            /\ StillToCome' = StatesIn(<<Head(events)>>) \cup StatesIn(Tail(events))
        BY <3>1 DEF StillToCome, InFlight, StatesIn
      <4> QED
        BY <2>2, <3>1, <4>1, StatesInTail
    <3>5. FailureNotLost'
      BY <1>1, <2>1, <3>4 DEF FailInv, FailureNotLost, StatesIn
    <3> QED
      BY <1>1, <3>3, <3>5 DEF FailInv
  <2>4. CASE FanReturn
    <3>1. fanPC = "select" /\ fanPC' = "stopped" /\ done /\ events = <<>> /\ UNCHANGED <<events, inHand>>
      BY <2>4 DEF FanReturn
    <3>2. YoungInv'
      BY <1>1, <2>1, <2>2, <3>1 DEF YoungInv, LoopsWait, NoDrops, OnlyStates, DoneLast, Announced
    <3>3. StillToCome = {} /\ StillToCome' = {}
      BY <3>1, StatesInOne DEF StillToCome, InFlight
    <3>4. FailureNotLost'
      BY <1>1, <2>1, <3>3 DEF FailInv, FailureNotLost, StatesIn
    <3> QED
      BY <1>1, <3>2, <3>4 DEF FailInv
  <2> QED
    BY <1>4, <2>3, <2>4
<1>5. CASE Young /\ (ClearOverflowFlag \/ ReportOverflow \/ ReportSubOverflow)
  <2>1. LoopsWait /\ NoDrops /\ OnlyStates /\ DoneLast
    BY <1>5 DEF FailInv, YoungInv
  <2>2. /\ UNCHANGED <<events, inHand, subCh, overflowBytes, subDropBytes>>
        /\ {fanPC, fanPC'} \cap {"stopped", "broadcast"} = {}
    BY <1>5, <2>1 DEF NoDrops, ClearOverflowFlag, ReportOverflow, ReportSubOverflow
  <2>3. YoungInv'
    BY <1>1, <2>1, <2>2 DEF YoungInv, LoopsWait, NoDrops, OnlyStates, DoneLast, Announced
  <2>4. FailureNotLost'
    BY <1>1, <2>2 DEF FailInv, FailureNotLost, StillToCome, InFlight, StatesIn
  <2> QED
    BY <1>1, <2>3, <2>4 DEF FailInv
<1> QED
  BY <1>2, <1>3, <1>4, <1>5 DEF FanStep, fanoutLoop

(* What a subscriber takes from its channel becomes its badge.             *)
LEMMA FailReceive ==
  ASSUME TypeOK, OrderInv, FailInv, NEW s \in Subscribers, ReceiveStep(s) PROVE FailInv'
<1> DEFINE ev == Head(subCh[s])
<1>1. /\ UNCHANGED <<state, closePC, dialPC, early, sess, readPC, writePC, subs, subscribed, done,
                     events, fanPC, inHand, overflowBytes, subDropBytes>>
      /\ StillToCome' = StillToCome
  BY DEF ReceiveStep, Receive, SessionUnchanged, lifeVars, pcVars, connVars, readVars, StillToCome,
     InFlight, StatesIn
<1>2. /\ subCh[s] \in Seq(Event) /\ subCh[s] # <<>> /\ ev \in Event
      /\ subCh'[s] = Tail(subCh[s]) /\ badge'[s] = IF ev.type = "state" THEN ev.state ELSE badge[s]
      /\ \A u \in Subscribers \ {s} : subCh'[u] = subCh[u] /\ badge'[u] = badge[u]
  BY DEF ReceiveStep, Receive, TypeOK, EventsTypeOK
<1>3. CASE ~Young
  BY <1>1, <1>3, OldOne DEF Young, FailInv
<1>4. CASE Young
  <2>1. LoopsWait /\ NoDrops /\ OnlyStates /\ DoneLast
    BY <1>4 DEF FailInv, YoungInv
  <2>2. Announced(Tail(subCh[s])) /\ Announced(<<ev>>)
    BY <1>2, <2>1, AnnouncedParts DEF OnlyStates
  <2>3. ev.type = "state"
    BY <2>2 DEF Announced
  <2>4. YoungInv'
    <3>1. \A u \in Subscribers : Announced(subCh'[u])
      BY <1>2, <2>1, <2>2 DEF OnlyStates
    <3> QED
      BY <1>1, <2>1, <3>1 DEF YoungInv, LoopsWait, NoDrops, OnlyStates, DoneLast, Announced
  <2>5. StatesIn(subCh[s]) \subseteq {badge'[s]} \cup StatesIn(subCh'[s])
    BY <1>2, <2>3, StatesInTail, StatesInOne
  <2>6. FailureNotLost'
    <3> SUFFICES ASSUME state = Failed, dialPC # "pubFailed", closePC = "idle", NEW u \in subs \cap early
                 PROVE  Failed \in {badge'[u]} \cup StatesIn(subCh'[u]) \cup StillToCome
      BY <1>1 DEF FailureNotLost
    <3>1. u \in Subscribers /\ Failed \in {badge[u]} \cup StatesIn(subCh[u]) \cup StillToCome
      BY DEF FailInv, FailureNotLost, TypeOK, EventsTypeOK
    <3>2. CASE u # s
      BY <1>2, <3>1, <3>2
    <3>3. CASE u = s
      <4>1. ev.state \in StatesIn(subCh[s])
        BY <1>2, <2>3, StatesInTail, StatesInOne
      <4>2. ev.state \in {Authenticating, Failed}
        BY <2>2 DEF Announced
      <4>3. ev.state \in Later[badge[s]]
        BY <4>1 DEF OrderInv, StateEventsInOrder, AllLater
      <4>4. Later[Failed] = {Closing, Closed}
        BY StateNames, StatesDiffer DEF Later
      <4>5. badge[s] # Failed
        BY <4>2, <4>3, <4>4, StatesDiffer
      <4> QED
        BY <2>5, <3>1, <3>3, <4>5
    <3> QED
      BY <3>2, <3>3
  <2> QED
    BY <1>1, <2>4, <2>6 DEF FailInv
<1> QED
  BY <1>3, <1>4

LEMMA FailInit == Init => FailInv
BY StatesDiffer DEF Init, EventsInit, FailInv, YoungInv, LoopsWait, NoDrops, OnlyStates, DoneLast,
   Announced, FailureNotLost

LEMMA FailStep ==
  ASSUME RoomForTwo, TypeOK, LifeInv, OrderInv, FailInv, [Next]_vars PROVE FailInv'
<1>1. CASE InputCheck \/ InputSend \/ RemoteHangsUp \/ Over \/ UNCHANGED vars
  <2>1. UNCHANGED <<closePC, sess, state, events, fanPC, inHand, subCh, badge, overflowBytes,
                    subDropBytes, subs, subscribed, early, readPC, writePC, done, dialPC>>
    BY <1>1 DEF InputCheck, InputSend, RemoteHangsUp, Over, vars, eventVars, fanVars, lifeVars,
       connVars, readVars, pcVars, envVars
  <2> QED
    BY <2>1, NothingTold DEF FailInv, YoungInv, DoneLast
<1> QED
  BY <1>1, FailOpen, FailDialer, FailCloser, FailLoops, FailFan, FailSubscriber, FailReceive DEF Next

(* With room for two events in each channel, whoever subscribed before the *)
(* dial failed has learnt of the failure or has its event ahead, unless    *)
(* somebody closes the session.                                            *)
THEOREM FailureTold == ASSUME RoomForTwo PROVE Spec => []FailureNotLost
<1>1. Init => TypeOK /\ AccumInv /\ LifeInv /\ OrderInv /\ FailInv
  BY TypeInit, LifeInit, OrderInit, FailInit
<1>2. TypeOK /\ AccumInv /\ LifeInv /\ OrderInv /\ FailInv /\ [Next]_vars
        => (TypeOK /\ AccumInv /\ LifeInv /\ OrderInv /\ FailInv)'
  BY TypeStep, LifeStep, OrderStep, FailStep
<1>3. FailInv => FailureNotLost
  BY DEF FailInv
<1> QED
  BY <1>1, <1>2, <1>3, PTL DEF Spec
=============================================================================
