----------------------------- MODULE SftpCache -----------------------------
(***************************************************************************)
(* The SFTP clients of internal/app/app.go: sftpFor finds or opens the one *)
(* client of a session for whichever binding asks, OnShutdown closes what  *)
(* is cached, and the methods of sftpclient.Client use or close the client *)
(* that was returned.                                                      *)
(*                                                                         *)
(* sftpMu guards the map of clients and the manager's lock the map of      *)
(* sessions, each for one look or change at a time.  Every such region and *)
(* every unlocked read of a session's state is an action of its own.       *)
(***************************************************************************)
EXTENDS Naturals, Sequences

CONSTANTS
  SftpSessions,    \* the sessions
  SftpCallers,     \* concurrent calls of bindings that need a client
  MaxSftpClients   \* bound: clients ever opened

ASSUME SftpAssumption == MaxSftpClients \in Nat

VARIABLES
  sessionIs,    \* the state of each session; "none" before it is opened
  managed,      \* m.sessions: what sessions.Get finds
  swept,        \* the list CloseAll took
  toClose,      \* those on it that CloseAll has still to close
  sftpClients,  \* a.sftpClients: the cached client of a session, NoClient if none
  clients,      \* every client opened: its session, and whether its sc is set
  toShut,       \* clients that somebody is about to close
  sftpPC,       \* where each call is
  sftpArg,      \* the session each call is for
  sftpRef,      \* the client a call holds
  appIs         \* how far OnShutdown is

sessVars == <<sessionIs, managed, swept, toClose>>
callVars == <<sftpPC, sftpArg, sftpRef>>
sftpVars == <<sessVars, sftpClients, clients, toShut, callVars, appIs>>

NoClient == 0
Established(s) == sessionIs[s] = "established"

SftpInit ==
  /\ sessionIs = [s \in SftpSessions |-> "none"]
  /\ managed = {} /\ swept = {} /\ toClose = {}
  /\ sftpClients = [s \in SftpSessions |-> NoClient]
  /\ clients = <<>> /\ toShut = {}
  /\ sftpPC = [p \in SftpCallers |-> "idle"]
  /\ sftpArg \in [SftpCallers -> SftpSessions]
  /\ sftpRef = [p \in SftpCallers |-> NoClient]
  /\ appIs = "up"

SftpGo(p, from, to) == sftpPC[p] = from /\ sftpPC' = [sftpPC EXCEPT ![p] = to]

\* A step of a call that does nothing but go on.
SftpOn(p, from, to) ==
  SftpGo(p, from, to) /\ UNCHANGED <<sessVars, sftpClients, clients, toShut, sftpArg, sftpRef, appIs>>

-----------------------------------------------------------------------------
\* sftpFor looks into the cache.
SftpLookup(p, s) ==
  /\ SftpGo(p, "idle", IF sftpClients[s] = NoClient THEN "miss" ELSE "check")
  /\ sftpArg' = [sftpArg EXCEPT ![p] = s]
  /\ sftpRef' = [sftpRef EXCEPT ![p] = sftpClients[s]]
  /\ UNCHANGED <<sessVars, sftpClients, clients, toShut, appIs>>

\* sessions.Get, for a client found or a client to open; the session stays in hand, also
\* when the manager forgets it.
SftpGet(p) ==
  /\ sftpArg[p] \in managed
  /\ SftpOn(p, "check", "checkState") \/ SftpOn(p, "miss", "missState")
SftpGetFails(p) ==
  /\ sftpArg[p] \notin managed
  /\ SftpOn(p, "check", "drop") \/ SftpOn(p, "miss", "idle")

\* sess.State(): a hit is returned while the session is established, a miss goes on to open.
SftpHit(p) == Established(sftpArg[p]) /\ SftpOn(p, "checkState", "use")
SftpStale(p) == ~Established(sftpArg[p]) /\ SftpOn(p, "checkState", "evict")
SftpMiss(p) == SftpOn(p, "missState", IF Established(sftpArg[p]) THEN "opening" ELSE "idle")

\* The evictions: the session's entry goes, whichever client it holds by now; the client
\* found is closed unless the manager has forgotten the session.
SftpEvict(p) ==
  /\ \/ SftpGo(p, "drop", "idle") /\ UNCHANGED toShut
     \/ SftpGo(p, "evict", "idle") /\ toShut' = toShut \union {sftpRef[p]}
  /\ sftpClients' = [sftpClients EXCEPT ![sftpArg[p]] = NoClient]
  /\ UNCHANGED <<sessVars, clients, sftpArg, sftpRef, appIs>>

\* openSftp, without a lock.
SftpOpen(p) ==
  /\ Len(clients) < MaxSftpClients
  /\ SftpGo(p, "opening", "insert")
  /\ clients' = Append(clients, [of |-> sftpArg[p], open |-> TRUE])
  /\ sftpRef' = [sftpRef EXCEPT ![p] = Len(clients) + 1]
  /\ UNCHANGED <<sessVars, sftpClients, toShut, sftpArg, appIs>>

SftpOpenFails(p) == SftpOn(p, "opening", "idle")

\* Mutant of SftpInsert: no second look into the map.
SftpInsertBlindly(p) ==
  /\ SftpGo(p, "insert", "use")
  /\ sftpClients' = [sftpClients EXCEPT ![sftpArg[p]] = sftpRef[p]]
  /\ UNCHANGED <<sessVars, clients, toShut, sftpArg, sftpRef, appIs>>

\* The second critical section: whoever inserted first wins, the later client is to be closed.
SftpInsert(p) ==
  LET s == sftpArg[p] IN
  /\ SftpGo(p, "insert", "use")
  /\ IF sftpClients[s] = NoClient
       THEN /\ sftpClients' = [sftpClients EXCEPT ![s] = sftpRef[p]]
            /\ UNCHANGED <<toShut, sftpRef>>
       ELSE /\ toShut' = toShut \union {sftpRef[p]}
            /\ sftpRef' = [sftpRef EXCEPT ![p] = sftpClients[s]]
            /\ UNCHANGED sftpClients
  /\ UNCHANGED <<sessVars, clients, sftpArg, appIs>>

\* A method of Client: an error when sc is nil; otherwise it goes on to use it ...
SftpCheckOpen(p) == SftpOn(p, "use", IF clients[sftpRef[p]].open THEN "calling" ELSE "idle")

\* ... and reads c.sc again for the call, without a lock in between.
SftpCall(p) == SftpOn(p, "calling", IF clients[sftpRef[p]].open THEN "idle" ELSE "panic")

\* Client.Close, by an eviction, by the later of two callers or by OnShutdown: sc is nil, also
\* when it was already.
SftpShut(n) ==
  /\ n \in toShut
  /\ toShut' = toShut \ {n}
  /\ clients' = [clients EXCEPT ![n].open = FALSE]
  /\ UNCHANGED <<sessVars, sftpClients, callVars, appIs>>

-----------------------------------------------------------------------------
\* Manager.Open, also while OnShutdown is under way, and the dial that succeeds.
SessionOpens(s) ==
  /\ sessionIs[s] = "none"
  /\ sessionIs' = [sessionIs EXCEPT ![s] = "connecting"]
  /\ managed' = managed \union {s}
  /\ UNCHANGED <<swept, toClose, sftpClients, clients, toShut, callVars, appIs>>
SessionEstablished(s) ==
  /\ sessionIs[s] = "connecting"
  /\ sessionIs' = [sessionIs EXCEPT ![s] = "established"]
  /\ UNCHANGED <<managed, swept, toClose, sftpClients, clients, toShut, callVars, appIs>>

\* The end of a session: the dial fails, the remote hangs up, or the Close that follows
\* SessionForgotten sets Closing.
SessionDown(s) ==
  /\ sessionIs[s] \in {"connecting", "established"}
  /\ sessionIs' = [sessionIs EXCEPT ![s] = "down"]
  /\ UNCHANGED <<managed, swept, toClose, sftpClients, clients, toShut, callVars, appIs>>

\* Manager.Close takes a session out of the map before it closes it.
SessionForgotten(s) ==
  /\ s \in managed
  /\ managed' = managed \ {s}
  /\ UNCHANGED <<sessionIs, swept, toClose, sftpClients, clients, toShut, callVars, appIs>>

\* OnShutdown calls CloseAll, which swaps the map ...
CloseAll ==
  /\ appIs = "up" /\ appIs' = "sessions"
  /\ swept' = managed /\ toClose' = managed /\ managed' = {}
  /\ UNCHANGED <<sessionIs, sftpClients, clients, toShut, callVars>>

\* ... and closes one session after the other.  Calls go on meanwhile.
CloseNext(s) ==
  /\ s \in toClose
  /\ toClose' = toClose \ {s}
  /\ sessionIs' = [sessionIs EXCEPT ![s] = "down"]
  /\ UNCHANGED <<managed, swept, sftpClients, clients, toShut, callVars, appIs>>

\* Mutant of CloseAllReturns: it returns at the first error, with sessions left.
CloseAllGivesUp ==
  /\ appIs = "sessions" /\ appIs' = "clients"
  /\ UNCHANGED <<sessVars, sftpClients, clients, toShut, callVars>>
CloseAllReturns ==
  /\ appIs = "sessions" /\ appIs' = "clients"
  /\ toClose = {}
  /\ UNCHANGED <<sessVars, sftpClients, clients, toShut, callVars>>

\* closeSftpClients: the map is swapped under the lock, then each client is closed.
CloseClients ==
  /\ appIs = "clients" /\ appIs' = "down"
  /\ toShut' = toShut \union ({sftpClients[s] : s \in SftpSessions} \ {NoClient})
  /\ sftpClients' = [s \in SftpSessions |-> NoClient]
  /\ UNCHANGED <<sessVars, clients, callVars>>

Shutdown == CloseAll \/ CloseAllReturns \/ CloseClients

SftpNext ==
  \/ \E p \in SftpCallers :
       \/ \E s \in SftpSessions : SftpLookup(p, s)
       \/ SftpGet(p) \/ SftpGetFails(p) \/ SftpHit(p) \/ SftpStale(p) \/ SftpMiss(p) \/ SftpEvict(p)
       \/ SftpOpen(p) \/ SftpOpenFails(p) \/ SftpInsert(p) \/ SftpCheckOpen(p) \/ SftpCall(p)
  \/ \E n \in DOMAIN clients : SftpShut(n)
  \/ \E s \in SftpSessions :
       SessionOpens(s) \/ SessionEstablished(s) \/ SessionDown(s) \/ SessionForgotten(s) \/ CloseNext(s)
  \/ Shutdown

SftpSpec == SftpInit /\ [][SftpNext]_sftpVars

-----------------------------------------------------------------------------
SftpPlaces == {"idle", "check", "checkState", "drop", "evict", "miss", "missState", "opening",
               "insert", "use", "calling", "panic"}

SftpTypeOK ==
  /\ sessionIs \in [SftpSessions -> {"none", "connecting", "established", "down"}]
  /\ managed \subseteq SftpSessions /\ toClose \subseteq swept /\ swept \subseteq SftpSessions
  /\ sftpClients \in [SftpSessions -> DOMAIN clients \union {NoClient}]
  /\ \A n \in DOMAIN clients : clients[n] \in [of : SftpSessions, open : BOOLEAN]
  /\ toShut \subseteq DOMAIN clients
  /\ sftpPC \in [SftpCallers -> SftpPlaces]
  /\ sftpRef \in [SftpCallers -> DOMAIN clients \union {NoClient}]

\* While a session is established and the manager has it, every open client is the cached
\* one, or is about to be inserted or closed: two first calls at once leave neither a second
\* channel open behind the map nor two clients in use, and an eviction never takes the client
\* of a session that could still use it (sftpFor).
Cached(n) == sftpClients[clients[n].of] = n
NoClientBehindTheMap ==
  \A n \in DOMAIN clients :
    clients[n].of \in managed /\ Established(clients[n].of) /\ clients[n].open =>
      Cached(n) \/ n \in toShut \/ \E p \in SftpCallers : sftpPC[p] = "insert" /\ sftpRef[p] = n

\* Once CloseAll has returned no call sets out to open a client of a session that CloseAll
\* took, also a call that got the session before and reads its state only now.  So
\* what OnShutdown leaves open of these sessions was being opened when their last was closed.
\* (Until CloseAll comes to a session, a call that holds it still finds it established; a
\* session opened meanwhile, or taken by a Close of its own, is not CloseAll's.)
ShutdownStopsOpening ==
  [][\A p \in SftpCallers :
       appIs \notin {"up", "sessions"} /\ sftpArg[p] \in swept /\ sftpPC[p] # "opening"
         => sftpPC'[p] # "opening"]_sftpVars
=============================================================================
