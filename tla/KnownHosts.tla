----------------------------- MODULE KnownHosts -----------------------------
(***************************************************************************)
(* The known_hosts manager: the host key callback of every connection that *)
(* is being dialled, the question it puts to the user, the answers that    *)
(* ReplyTrust routes back, the records in memory and the file.  A callback *)
(* and its request ID are one value.                                       *)
(***************************************************************************)
EXTENDS HostPattern, FiniteSets

CONSTANTS
  HostTexts,     \* what connections dial, as net.JoinHostPort writes it
  HostKeys,      \* the keys servers show
  HostFiles,     \* what the file may hold at the first start
  MaxHostCalls,  \* bound: host key callbacks
  MaxAnswers,    \* bound: calls of ReplyTrust
  MaxRestarts    \* bound: starts after the first

\* The host of an address that can be dialled is a name or an IP literal, and its port a port:
\* neither has a character that means something to the file.
IsHostName(h) ==
  h # <<>> /\ h[1] \notin {"#", "@", "|"} /\ \A i \in DOMAIN h : h[i] \notin {"[", "]", ",", "*", "?"}
ASSUME HostAssumption ==
  /\ HostTexts # {} /\ HostKeys # {}
  /\ \A t \in HostTexts : LET a == ParseAddr(t) IN
       a.host \in Seq(STRING) /\ IsHostName(a.host) /\ a.port \in STRING \ {":", ","}
  /\ \A f \in HostFiles : f \subseteq [hosts : SUBSET Seq(STRING), key : HostKeys]

HostCalls == 1 .. MaxHostCalls  \* numbered as they begin
Answers == 1 .. MaxAnswers      \* numbered as they begin

VARIABLES
  hostFile,  \* the lines: pattern texts and key; their order does not tell
  ragged,    \* the last line, while no line feed follows it; {} when the file ends with one
  glued,     \* the lines that an Add has run together (history)
  entries,   \* the records in memory
  emitter,   \* is there a user interface to ask?
  calls,     \* the host key callbacks
  waiters,   \* requests that ReplyTrust can find
  replyBuf,  \* the reply channel of each request, of capacity 1
  answers,   \* calls of ReplyTrust
  trusted,   \* what the user or the file vouched for: address and key (history)
  restarts

fileVars == <<hostFile, ragged, glued>>
hostVars == <<fileVars, entries, emitter, calls, waiters, replyBuf, answers, trusted, restarts>>

Addresses == {ParseAddr(t) : t \in HostTexts}
AnyKey == CHOOSE k \in HostKeys : TRUE
Nowhere == [at |-> "new", addr |-> CHOOSE a \in Addresses : TRUE, key |-> AnyKey, result |-> "none"]
Unsaid == [at |-> "idle", id |-> 1, action |-> "reject"]

\* Empty lines, comments and lines with a marker are lines without hosts.  A line with a hashed
\* host or a bad pattern is skipped.
Parses(l) == l.hosts # {} /\ \A t \in l.hosts : IsPattern(t) /\ t[1] # "|"
EntryOf(l) == [patterns |-> {ParseAddr(t) : t \in l.hosts}, key |-> l.key]
LoadFromFile(f) == {EntryOf(l) : l \in {m \in f : Parses(m)}}
EntryMatches(e, a) == \E p \in e.patterns : PatternMatches(p, a)

HostInit ==
  /\ hostFile \in HostFiles
  /\ ragged \in {{}} \cup {{l} : l \in hostFile} /\ glued = {}
  /\ entries = LoadFromFile(hostFile)
  /\ emitter \in BOOLEAN
  /\ calls = [c \in HostCalls |-> Nowhere]
  /\ waiters = {} /\ replyBuf = [c \in HostCalls |-> "empty"]
  /\ answers = [r \in Answers |-> Unsaid]
  /\ trusted = UNION {{<<p, e.key>> : p \in e.patterns} : e \in entries}
  /\ restarts = 0

CallGo(c, at, result) == calls' = [calls EXCEPT ![c].at = at, ![c].result = result]

(***************************************************************************)
(* Any matching record with this key accepts; else any matching record     *)
(* refuses; else the user is asked, or without a user interface the key is *)
(* recorded and accepted, whether the recording worked or not.             *)
(***************************************************************************)
Matching(a) == {e \in entries : EntryMatches(e, a)}
Verdict(a, k) ==
  IF \E e \in Matching(a) : e.key = k THEN "accepted"
  ELSE IF Matching(a) # {} THEN "mismatch"
  ELSE IF emitter THEN "ask" ELSE "record"

HostLookup(c) == \E a \in Addresses, k \in HostKeys :
  LET v == Verdict(a, k) IN
  /\ calls[c].at = "new" /\ \A d \in 1 .. c - 1 : calls[d].at # "new"
  /\ calls' = [calls EXCEPT ![c] =
       [addr |-> a, key |-> k, result |-> IF v \in {"ask", "record"} THEN "none" ELSE v,
        at |-> CASE v = "ask" -> "asking" [] v = "record" -> "adding" [] OTHER -> "done"]]
  /\ UNCHANGED <<fileVars, entries, emitter, waiters, replyBuf, answers, trusted, restarts>>

\* The waiter is registered before the request is shown to the user.
Ask(c) ==
  /\ calls[c].at = "asking"
  /\ waiters' = waiters \cup {c}
  /\ CallGo(c, "waiting", "none")
  /\ UNCHANGED <<fileVars, entries, emitter, replyBuf, answers, trusted, restarts>>

\* Only "trust" trusts; "reject" stands for every other action.
TakeReply(c) ==
  /\ calls[c].at = "waiting" /\ replyBuf[c] # "empty"
  /\ replyBuf' = [replyBuf EXCEPT ![c] = "empty"]
  /\ IF replyBuf[c] = "trust" THEN CallGo(c, "adding", "none") ELSE CallGo(c, "leaving", "refused")
  /\ UNCHANGED <<fileVars, entries, emitter, waiters, answers, trusted, restarts>>

\* The timer of a select may win although a reply is there.
TrustTimeout(c) ==
  /\ calls[c].at = "waiting"
  /\ CallGo(c, "leaving", "refused")
  /\ UNCHANGED <<fileVars, entries, emitter, waiters, replyBuf, answers, trusted, restarts>>

\* Add appends to memory, then to the file, at its very end: behind a last line without a line
\* feed (a record or a comment that was edited by hand) the new line is not one.  The two
\* become one line, which is a comment or the old record with a longer comment, or else
\* has no readable key.
Remember(c) == entries' = entries \cup {[patterns |-> {calls[c].addr}, key |-> calls[c].key]}
LineOf(c) == [hosts |-> {FormatPattern(calls[c].addr)}, key |-> calls[c].key]
AddOk(c) ==
  /\ calls[c].at = "adding"
  /\ Remember(c)
  /\ IF ragged = {}
       THEN hostFile' = hostFile \cup {LineOf(c)} /\ UNCHANGED <<ragged, glued>>
       ELSE hostFile' \in {hostFile, hostFile \ ragged} /\ ragged' = {} /\ glued' = glued \cup ragged \cup {LineOf(c)}
  /\ CallGo(c, "leaving", "accepted")
  /\ UNCHANGED <<emitter, waiters, replyBuf, answers, trusted, restarts>>
\* Mutant of AddFails: the error of Add is dropped for an asked user too.
AddErrorDropped(c) ==
  /\ calls[c].at = "adding"
  /\ Remember(c)
  /\ CallGo(c, "leaving", "accepted")
  /\ UNCHANGED <<fileVars, emitter, waiters, replyBuf, answers, trusted, restarts>>
AddFails(c) ==
  /\ calls[c].at = "adding"
  /\ Remember(c)
  /\ CallGo(c, "leaving", IF emitter THEN "failed" ELSE "accepted")
  /\ UNCHANGED <<fileVars, emitter, waiters, replyBuf, answers, trusted, restarts>>

\* Mutant of Leave: the waiter stays registered.
LeaveRegistered(c) ==
  /\ calls[c].at = "leaving"
  /\ CallGo(c, "done", calls[c].result)
  /\ UNCHANGED <<fileVars, entries, emitter, waiters, replyBuf, answers, trusted, restarts>>
\* The deferred delete of the waiter.
Leave(c) ==
  /\ calls[c].at = "leaving"
  /\ waiters' = waiters \ {c}
  /\ CallGo(c, "done", calls[c].result)
  /\ UNCHANGED <<fileVars, entries, emitter, replyBuf, answers, trusted, restarts>>

CallStep(c) == Ask(c) \/ TakeReply(c) \/ TrustTimeout(c) \/ AddOk(c) \/ AddFails(c) \/ Leave(c)

(***************************************************************************)
(* ReplyTrust.  The user interface knows the requests it was shown, also   *)
(* those that are over, and may answer one twice.                          *)
(***************************************************************************)
Shown(c) == emitter /\ calls[c].at \in {"waiting", "adding", "leaving", "done"}
              /\ calls[c].result \notin {"mismatch", "lost"}
Reply(r) == \E c \in HostCalls, action \in {"trust", "reject"} :
  /\ answers[r].at = "idle" /\ \A q \in 1 .. r - 1 : answers[q].at # "idle"
  /\ Shown(c)
  /\ answers' = [answers EXCEPT ![r] = [at |-> IF c \in waiters THEN "sending" ELSE "error", id |-> c, action |-> action]]
  /\ trusted' = IF action = "trust" THEN trusted \cup {<<calls[c].addr, calls[c].key>>} ELSE trusted
  /\ UNCHANGED <<fileVars, entries, emitter, calls, waiters, replyBuf, restarts>>

\* Mutant of ReplySend: one channel for all requests, whoever waits takes the reply.
SendToAny(r) == \E c \in waiters :
  /\ answers[r].at = "sending" /\ replyBuf[c] = "empty"
  /\ replyBuf' = [replyBuf EXCEPT ![c] = answers[r].action]
  /\ answers' = [answers EXCEPT ![r].at = "sent"]
  /\ UNCHANGED <<fileVars, entries, emitter, calls, waiters, trusted, restarts>>
\* Without the lock: the request may be over by now, and nobody will read its channel.
ReplySend(r) ==
  /\ answers[r].at = "sending" /\ replyBuf[answers[r].id] = "empty"
  /\ replyBuf' = [replyBuf EXCEPT ![answers[r].id] = answers[r].action]
  /\ answers' = [answers EXCEPT ![r].at = "sent"]
  /\ UNCHANGED <<fileVars, entries, emitter, calls, waiters, trusted, restarts>>

\* Mutant of ReplyGivesUp: a full channel is waited for without a limit.
NeverGivesUp(r) == FALSE /\ UNCHANGED hostVars
\* The channel holds an earlier reply for 5 seconds.
ReplyGivesUp(r) ==
  /\ answers[r].at = "sending" /\ replyBuf[answers[r].id] # "empty"
  /\ answers' = [answers EXCEPT ![r].at = "error"]
  /\ UNCHANGED <<fileVars, entries, emitter, calls, waiters, replyBuf, trusted, restarts>>

AnswerStep(r) == ReplySend(r) \/ ReplyGivesUp(r)

\* The application ends, in order or not, and starts again with the file.
HostRestart ==
  /\ restarts < MaxRestarts
  /\ restarts' = restarts + 1
  /\ entries' = LoadFromFile(hostFile)
  /\ calls' = [c \in HostCalls |-> IF calls[c].at = "new" THEN calls[c] ELSE
       [calls[c] EXCEPT !.at = "done", !.result = IF @ = "none" THEN "lost" ELSE @]]
  /\ waiters' = {} /\ replyBuf' = [c \in HostCalls |-> "empty"]
  /\ answers' = [r \in Answers |-> IF answers[r].at = "sending" THEN [answers[r] EXCEPT !.at = "error"] ELSE answers[r]]
  /\ UNCHANGED <<fileVars, emitter, trusted>>

HostNext ==
  \/ \E c \in HostCalls : HostLookup(c) \/ CallStep(c)
  \/ \E r \in Answers : Reply(r) \/ AnswerStep(r)
  \/ HostRestart

HostSpec == HostInit /\ [][HostNext]_hostVars

(***************************************************************************)
(* Properties.                                                             *)
(***************************************************************************)
HostTypeOK ==
  /\ ragged \subseteq hostFile
  /\ \A c \in HostCalls : calls[c].at \in {"new", "asking", "waiting", "adding", "leaving", "done"}
  /\ \A c \in HostCalls :
       calls[c].result \in {"none", "accepted", "mismatch", "refused", "failed", "lost"}
  /\ waiters \subseteq {c \in HostCalls : calls[c].at \in {"waiting", "adding", "leaving"}}
  /\ \A r \in Answers : answers[r].at \in {"idle", "sending", "sent", "error"}
  /\ \A c \in HostCalls : replyBuf[c] \in {"empty", "trust", "reject"}

\* With a user interface, no key is accepted for an address unless the file held it at the
\* first start or the user answered "trust" to a request for this address and this key:
\* whatever other requests were open, answered twice or timed out meanwhile
\* (HostKeyCallback, ReplyTrust).
Vouched(a, k) == \E v \in trusted : PatternMatches(v[1], a) /\ v[2] = k
OnlyTrustedKeys ==
  emitter => \A c \in HostCalls : calls[c].result = "accepted" => Vouched(calls[c].addr, calls[c].key)

\* With a user interface, a key that a connection was accepted with is found again by the next
\* start: the file holds a line that parses to the same address, unless the writing of that
\* line failed, which one connection was told and the others, accepted by memory, were not, or
\* the line was run together with another because the file did not end in a line feed.
\* Of the default port of an IPv6 address it does not hold (Add, formatPattern, parsePattern).
Reloads(c) == \E e \in LoadFromFile(hostFile) : e.key = calls[c].key /\ EntryMatches(e, calls[c].addr)
WriteFailed(c) == \E d \in HostCalls :
  calls[d].result = "failed" /\ calls[d].addr = calls[c].addr /\ calls[d].key = calls[c].key
RunTogether(c) == \E l \in glued : l.key = calls[c].key /\ EntryMatches(EntryOf(l), calls[c].addr)
AcceptedReload(S) == emitter => \A c \in HostCalls :
  calls[c].result = "accepted" /\ calls[c].addr \in S => Reloads(c) \/ WriteFailed(c) \/ RunTogether(c)
Remembered == AcceptedReload({a \in Addresses : Has(a.host, ":") => a.port # DefaultPort})

\* The same of every address, which the format of the file, "rules aligned with OpenSSH", is
\* there for: an IPv6 address on the default port is written in brackets without a port, and
\* read back as a host whose name has brackets.
KnownAfterRestart == AcceptedReload(Addresses)

\* Every callback and every ReplyTrust returns, also when a request is answered twice or its
\* answer comes after the timeout (HostKeyCallback, ReplyTrust).
CallbacksEnd ==
  /\ \A c \in HostCalls : calls[c].at = "asking" ~> calls[c].at = "done"
  /\ \A r \in Answers : answers[r].at = "sending" ~> answers[r].at # "sending"
=============================================================================
