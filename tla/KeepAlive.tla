----------------------------- MODULE KeepAlive -----------------------------
(***************************************************************************)
(* The keepalive goroutine of an SSH client: sshclient/keepalive.go and    *)
(* its twin in app/agent_dialer.go.  It waits for a tick, sends a request  *)
(* from a helper goroutine, and waits for the answer, a timeout of three   *)
(* seconds or its done channel.  It never closes the client.               *)
(***************************************************************************)

KeepStates == {"none", "waiting", "sending", "over"}
KeepRuns(k) == k \in {"waiting", "sending"}

\* Mutant of KeepAnswers: a failed send is taken for an answer.
KeepAnswersAll(alive) == {"waiting"}

\* What the wait for an answer may come to: an answer of a living connection, an
\* error of a dead one.
KeepAnswers(alive) == IF alive THEN {"waiting"} ELSE {"over"}

\* The next states of the goroutine; `stopped' says that done is closed, `alive'
\* that the connection is.  The tick and the answer win over done at most once: each
\* select looks again.
KeepNext(k, stopped, alive) ==
  (IF stopped THEN {"over"} ELSE {})
    \union (IF k = "waiting" THEN {"sending"} ELSE KeepAnswers(alive))

\* The answer is late: the goroutine gives up.
KeepTimeout(k) == IF k = "sending" THEN {"over"} ELSE {}
=============================================================================
