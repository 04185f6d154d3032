---------------------------- MODULE KeyringIndex ----------------------------
(***************************************************************************)
(* The secret store over the system keyring: one keyring item per content  *)
(* and one item for the index of all of them, which Set, Get and Delete    *)
(* read and write back without a lock; and the cache of contents.  An      *)
(* entry's time of last use is left out.                                   *)
(***************************************************************************)
EXTENDS Naturals, FiniteSets

CONSTANTS MaxRingIDs, MaxRingCallers, MaxRingRestarts

ASSUME RingAssumption == MaxRingIDs \in Nat

RingIDs == 1 .. MaxRingIDs          \* in the order of their making
RingCallers == 1 .. MaxRingCallers  \* a call takes the first free number

VARIABLES
  ringContent,  \* IDs with a content in the keyring
  ringIndex,    \* IDs in the index
  ringCache,    \* IDs in unlockedCache
  ringMade,     \* number of IDs made
  ringGiven,    \* IDs that were ever listed, which a profile may hold
  ringCaller,   \* the calls in progress
  ringStale,    \* did a call write the index from an outdated copy? (history)
  ghosts,       \* listed without content, after a Delete that failed or was cut off (history)
  orphans,      \* content that is not listed, after a Set that was (history)
  ringRestarts

ringVars == <<ringContent, ringIndex, ringCache, ringMade, ringGiven, ringCaller, ringStale, ghosts, orphans, ringRestarts>>
keyring == <<ringContent, ringIndex>>
ringHistory == <<ringStale, ghosts, orphans>>

NoCall == [at |-> "idle", op |-> "get", id |-> 0, view |-> {}]
RingInit ==
  /\ ringContent = {} /\ ringIndex = {} /\ ringCache = {} /\ ringMade = 0 /\ ringGiven = {}
  /\ ringCaller = [w \in RingCallers |-> NoCall]
  /\ ringStale = FALSE /\ ghosts = {} /\ orphans = {} /\ ringRestarts = 0

RingGo(w, at) == ringCaller' = [ringCaller EXCEPT ![w].at = at]
RingReturn(w) == ringCaller' = [ringCaller EXCEPT ![w] = NoCall]
RingCall(w, op, id, at) ==
  /\ ringCaller[w].at = "idle" /\ \A v \in 1 .. w - 1 : ringCaller[v].at # "idle"
  /\ ringCaller' = [ringCaller EXCEPT ![w] = [at |-> at, op |-> op, id |-> id, view |-> {}]]

\* Set writes the content under a new ID; one that fails has changed nothing.
RingSet(w) ==
  /\ ringMade < MaxRingIDs /\ ringMade' = ringMade + 1
  /\ RingCall(w, "set", ringMade + 1, "read")
  /\ ringContent' = ringContent \cup {ringMade + 1}
  /\ UNCHANGED <<ringIndex, ringCache, ringGiven, ringHistory, ringRestarts>>

\* Get answers from the cache, or from the keyring and fills the cache in a later step.
RingGet(w) == \E id \in ringGiven :
  /\ id \in ringCache \cup ringContent
  /\ RingCall(w, "get", id, IF id \in ringCache THEN "read" ELSE "fill")
  /\ UNCHANGED <<keyring, ringCache, ringMade, ringGiven, ringHistory, ringRestarts>>

\* Delete takes away the content, which may be gone already.
RingDelete(w) == \E id \in ringGiven :
  /\ RingCall(w, "delete", id, "drop")
  /\ ringContent' = ringContent \ {id}
  /\ ghosts' = ghosts \cup {id}
  /\ UNCHANGED <<ringIndex, ringCache, ringMade, ringGiven, ringStale, orphans, ringRestarts>>

\* The cache, under its own lock: filled by Get and at the end of Set, emptied by Delete.
Cached(w) == LET c == ringCaller[w] IN
  /\ \/ /\ c.at = "fill" /\ ringCache' = ringCache \cup {c.id}
        /\ IF c.op = "get" THEN RingGo(w, "read") ELSE RingReturn(w)
     \/ c.at = "drop" /\ ringCache' = ringCache \ {c.id} /\ RingGo(w, "read")
  /\ UNCHANGED <<keyring, ringMade, ringGiven, ringHistory, ringRestarts>>

\* readIndex.  Get and Delete need the index only for an ID that is there.
ReadIndex(w) == LET c == ringCaller[w] IN
  /\ c.at = "read"
  /\ IF c.op = "set" \/ c.id \in ringIndex
     THEN ringCaller' = [ringCaller EXCEPT ![w].at = "write", ![w].view = ringIndex] /\ UNCHANGED ghosts
     ELSE RingReturn(w) /\ ghosts' = ghosts \ {c.id}
  /\ UNCHANGED <<keyring, ringCache, ringMade, ringGiven, ringStale, orphans, ringRestarts>>

NewIndex(c) == CASE c.op = "set" -> c.view \cup {c.id} [] c.op = "delete" -> c.view \ {c.id} [] c.op = "get" -> c.view
WriteIndex(w) == LET c == ringCaller[w] IN
  /\ c.at = "write"
  /\ ringIndex' = NewIndex(c)
  /\ ringStale' = (ringStale \/ c.view # ringIndex)
  /\ ringGiven' = ringGiven \cup ringIndex'
  /\ ghosts' = IF c.op = "delete" THEN ghosts \ {c.id} ELSE ghosts
  /\ IF c.op = "set" THEN RingGo(w, "fill") ELSE RingReturn(w)
  /\ UNCHANGED <<ringContent, ringCache, ringMade, orphans, ringRestarts>>

\* Mutant of IndexFails: Set returns its error and keeps the content.
IndexFailsNoRollback(w) ==
  /\ ringCaller[w].at \in {"read", "write"}
  /\ RingReturn(w)
  /\ UNCHANGED <<keyring, ringCache, ringMade, ringGiven, ringHistory, ringRestarts>>
\* The index cannot be read or written.  Set takes its content back; Get does not mind.
IndexFails(w) ==
  /\ ringCaller[w].at \in {"read", "write"}
  /\ IF ringCaller[w].op = "set" THEN RingGo(w, "rollback") ELSE RingReturn(w)
  /\ UNCHANGED <<keyring, ringCache, ringMade, ringGiven, ringHistory, ringRestarts>>
Rollback(w) == LET id == ringCaller[w].id IN
  /\ ringCaller[w].at = "rollback"
  /\ \/ ringContent' = ringContent \ {id} /\ UNCHANGED orphans
     \/ orphans' = orphans \cup ({id} \cap ringContent) /\ UNCHANGED ringContent
  /\ RingReturn(w)
  /\ UNCHANGED <<ringIndex, ringCache, ringMade, ringGiven, ringStale, ghosts, ringRestarts>>

\* The application ends, perhaps in the middle of calls, and starts with an empty cache.
RingRestart ==
  /\ ringRestarts < MaxRingRestarts /\ ringRestarts' = ringRestarts + 1
  /\ orphans' = orphans \cup {id \in ringContent \ ringIndex :
                                \E w \in RingCallers : ringCaller[w].at # "idle" /\ ringCaller[w].op = "set" /\ ringCaller[w].id = id}
  /\ ringCache' = {} /\ ringCaller' = [w \in RingCallers |-> NoCall]
  /\ UNCHANGED <<keyring, ringMade, ringGiven, ringStale, ghosts>>

RingStep(w) ==
  \/ RingSet(w) \/ RingGet(w) \/ RingDelete(w) \/ Cached(w) \/ ReadIndex(w)
  \/ WriteIndex(w) \/ IndexFails(w) \/ Rollback(w)
RingNext == RingRestart \/ \E w \in RingCallers : RingStep(w)

RingSpec == RingInit /\ [][RingNext]_ringVars

(***************************************************************************)
(* Properties.                                                             *)
(***************************************************************************)
RingTypeOK ==
  /\ ringContent \subseteq RingIDs /\ ringIndex \subseteq RingIDs /\ ringCache \subseteq RingIDs
  /\ \A w \in RingCallers : ringCaller[w].at \in {"idle", "fill", "drop", "read", "write", "rollback"}

\* While every write of the index followed on the index it had read, what is listed is what can
\* be fetched once the calls are over: only a Delete that failed half-way, or a stop in the
\* middle of it, leaves an entry without content, and only a roll-back that failed or a stop
\* in the middle of Set leaves a content without entry (appendIndex, removeFromIndex,
\* touchLastUsed, Set, Delete).
IndexExact ==
  ~ringStale /\ (\A w \in RingCallers : ringCaller[w].at = "idle") =>
    /\ ringIndex \ ringContent \subseteq ghosts
    /\ ringContent \ ringIndex \subseteq orphans
=============================================================================
