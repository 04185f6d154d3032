-------------------------- MODULE TransferManager --------------------------
(***************************************************************************)
(* internal/transfer/manager.go: the map of transfer jobs, the goroutine   *)
(* of each job, and the events the front end hears of.  Upload and         *)
(* Download run inside a job (module Transfer); here they are `work', of   *)
(* which only the error that comes back matters.                           *)
(*                                                                         *)
(* An entry is known by the order in which it was made.  The map is only   *)
(* touched under m.mu, one region per action.                              *)
(***************************************************************************)
EXTENDS Naturals, Sequences

CONSTANTS
  TransferIDs,  \* the transfer IDs requests may name
  MaxJobs,      \* bound: entries ever made
  MaxProgress   \* bound: progress reports per job

ASSUME JobAssumption == MaxJobs \in Nat /\ MaxProgress \in Nat

VARIABLES
  jobs,     \* m.jobs: the entry registered under an ID, NoJob if none
  entries,  \* every entry made: its ID, Info.State and whether cancel was called
  jobPC,    \* where the goroutine of each entry is
  told      \* what the front end heard of each entry, in order

jobVars == <<jobs, entries, jobPC, told>>

NoJob == 0
JobNumbers == DOMAIN entries
FinalStates == {"completed", "failed", "canceled"}
ProgressTold(e) == Len(SelectSeq(told[e], LAMBDA k : k = "progress"))

\* What the work of a job may return: nothing, context.Canceled, the wrapped
\* ErrUploadFailed or ErrDownloadFailed, or another error (of the factory, of a
\* manifest).  context.Canceled comes from the job's own context.
Outcomes(e) ==
  {"nil", "wrapped", "other"} \union (IF entries[e].cancelled THEN {"canceled"} ELSE {})

\* executeJob: the final state a result stands for.
Classify(outcome, cancelled) ==
  CASE outcome = "nil" -> "completed"
    [] outcome = "canceled" -> "canceled"
    [] outcome = "wrapped" /\ cancelled -> "canceled"
    [] OTHER -> "failed"

JobInit ==
  /\ jobs = [id \in TransferIDs |-> NoJob]
  /\ entries = <<>> /\ jobPC = <<>> /\ told = <<>>

-----------------------------------------------------------------------------
NewEntry(id) ==
  /\ Len(entries) < MaxJobs
  /\ jobs' = [jobs EXCEPT ![id] = Len(entries) + 1]
  /\ entries' = Append(entries, [id |-> id, state |-> "running", cancelled |-> FALSE])
  /\ jobPC' = Append(jobPC, "work")
  /\ told' = Append(told, <<>>)

\* Mutant of JobStart: the look-up was in an earlier critical section.
StartUnchecked(id) == NewEntry(id)

\* startJob: refused while the ID is in the map, finished or not.
JobStart(id) == jobs[id] = NoJob /\ NewEntry(id)

\* cancelJob: also of a finished job, which it does not change.
JobCancel(id) ==
  /\ jobs[id] # NoJob
  /\ entries' = [entries EXCEPT ![jobs[id]].cancelled = TRUE]
  /\ UNCHANGED <<jobs, jobPC, told>>

Removable == {id \in TransferIDs : jobs[id] # NoJob /\ entries[jobs[id]].state \in FinalStates}

\* Cleanup: the finished entries leave the map, their goroutines need not be over.
JobCleanup ==
  /\ Removable # {}
  /\ jobs' = [id \in TransferIDs |-> IF id \in Removable THEN NoJob ELSE jobs[id]]
  /\ UNCHANGED <<entries, jobPC, told>>

-----------------------------------------------------------------------------
\* makeProgressFn, called by the work itself: bytes into Info, then the event.
JobProgress(e) ==
  /\ jobPC[e] = "work"
  /\ ProgressTold(e) < MaxProgress
  /\ told' = [told EXCEPT ![e] = Append(@, "progress")]
  /\ UNCHANGED <<jobs, entries, jobPC>>

\* Mutant of Finalize: a return is missing after the cancelled case.
FinalizeOn(e, s) ==
  /\ entries' = [entries EXCEPT ![e].state = s]
  /\ jobPC' = [jobPC EXCEPT ![e] = IF s = "canceled" THEN "work" ELSE "emit"]
  /\ told' = IF s = "canceled" THEN [told EXCEPT ![e] = Append(@, s)] ELSE told

\* finalizeJob, first half: the state, under the lock.
Finalize(e, s) ==
  /\ entries' = [entries EXCEPT ![e].state = s]
  /\ jobPC' = [jobPC EXCEPT ![e] = "emit"]
  /\ UNCHANGED told

JobReturn(e) ==
  /\ jobPC[e] = "work"
  /\ \E o \in Outcomes(e) : Finalize(e, Classify(o, entries[e].cancelled))
  /\ UNCHANGED jobs

\* Mutant of JobEmit: the channel is closed, the event forgotten for a cancelled job.
EmitUnlessCanceled(e) ==
  /\ jobPC[e] = "emit"
  /\ told' = IF entries[e].cancelled THEN told ELSE [told EXCEPT ![e] = Append(@, entries[e].state)]
  /\ jobPC' = [jobPC EXCEPT ![e] = "done"]
  /\ UNCHANGED <<jobs, entries>>

\* finalizeJob, second half: EventDone or EventError after the unlock; then
\* doneCh is closed.
JobEmit(e) ==
  /\ jobPC[e] = "emit"
  /\ told' = [told EXCEPT ![e] = Append(@, entries[e].state)]
  /\ jobPC' = [jobPC EXCEPT ![e] = "done"]
  /\ UNCHANGED <<jobs, entries>>

JobStep(e) == JobReturn(e) \/ JobEmit(e)

JobNext ==
  \/ \E id \in TransferIDs : JobStart(id) \/ JobCancel(id)
  \/ JobCleanup
  \/ \E e \in JobNumbers : JobProgress(e) \/ JobStep(e)

JobSpec == JobInit /\ [][JobNext]_jobVars

-----------------------------------------------------------------------------
JobTypeOK ==
  /\ jobs \in [TransferIDs -> JobNumbers \union {NoJob}]
  /\ \A e \in JobNumbers :
       /\ entries[e] \in [id : TransferIDs, state : FinalStates \union {"running"}, cancelled : BOOLEAN]
       /\ jobPC[e] \in {"work", "emit", "done"}

\* The module Transfer takes calls with one transfer ID to follow each other; two
\* at once would write one manifest.  startJob sees to it: an ID's earlier work
\* has returned before its entry can leave the map.
OneRunPerID ==
  \A e, f \in JobNumbers :
    e # f /\ entries[e].id = entries[f].id => jobPC[e] # "work" \/ jobPC[f] # "work"

\* The front end hears of a job's progress, then of its one final state, which is
\* the state List shows, whoever cancels or cleans up while finalizeJob is between
\* its unlock and its Emit.
FinalEventOnce ==
  \A e \in JobNumbers : \A i \in 1 .. Len(told[e]) :
    told[e][i] # "progress" => i = Len(told[e]) /\ told[e][i] = entries[e].state

\* Every job started is reported finished in the end: the last that the front end hears of it
\* is a final state, given that its work returns (the property CallEnds of Transfer).
JobReported(e) ==
  e \in JobNumbers ~> (e \in JobNumbers /\ told[e] # <<>> /\ told[e][Len(told[e])] \in FinalStates)
EveryJobReported == \A e \in 1 .. MaxJobs : JobReported(e)
=============================================================================
