------------------------------ MODULE Transfer ------------------------------
(***************************************************************************)
(* The resumable chunked transfers of internal/transfer: streaming.go's    *)
(* Upload and Download, and the manifest of manifest.go they leave on disk *)
(* for a later attempt.  Both functions have the same body; where they     *)
(* differ the module consults `direction'.                                 *)
(*                                                                         *)
(* One transfer ID is followed through several attempts.  What outlives an *)
(* attempt is the file being read (`source'), the file being written       *)
(* (`dest') and the manifest.  The rest is one call's memory: the main     *)
(* goroutine in its emitLoop, the workers, the closed pendingCh            *)
(* (`queue'), the buffered manifestCh, and the context (`cancelled').      *)
(* workerErrCh needs no variable: it has room for every worker, a worker   *)
(* sends at most once and exits, and the main goroutine returns at the     *)
(* first message, so it holds one exactly while some worker has failed.    *)
(*                                                                         *)
(* Content is abstracted to a version number per unit of the file: the     *)
(* source has one version, which is also its modification time, and a unit *)
(* of dest has the version it was last written from, 0 if never.           *)
(***************************************************************************)
EXTENDS Integers, Sequences, FiniteSets, SequencesExt

CONSTANTS
  Directions,      \* the functions considered: {"upload", "download"}
  TotalSize,       \* units in the source file, which keeps its size
  ChunkSizes,      \* the (normalised) chunk sizes requests may ask for, in units
  Workers,         \* Concurrency goroutines
  ManifestChCap,   \* capacity of state.manifestCh (64 in the code)
  MaxAttempts,     \* bound: calls of Upload or Download with this ID
  MaxVersion,      \* bound: versions the source file goes through
  MaxLosses        \* bound: times somebody removes the destination file

ASSUME TransferAssumption ==
  /\ Directions \subseteq {"upload", "download"}
  /\ TotalSize \in Nat \ {0}
  /\ ChunkSizes \subseteq Nat \ {0}
  /\ Workers # {}
  /\ ManifestChCap \in Nat \ {0}
  /\ {MaxAttempts, MaxLosses} \subseteq Nat /\ MaxVersion \in Nat \ {0}

VARIABLES
  direction,  \* Upload or Download
  source,     \* version of the source file, and its mtime
  dest,       \* version of each unit of the destination file
  manifest,   \* the manifest on disk, or NoManifest
  losses,     \* times dest has been removed
  misfit,     \* some attempt resumed a manifest of another chunk size
  attempts,   \* calls made so far
  resume,     \* req.Resume of the current call
  chunkSize,  \* chunkSize of the current call
  memory,     \* the main goroutine's manifest; its chunks are uploadedIdx
  main,       \* where the main goroutine is
  result,     \* what the last call returned
  queue,      \* chunks left in pendingCh
  manifestCh, \* indices of finished chunks, on their way to the main goroutine
  cancelled,  \* jobCtx has been cancelled
  pc,         \* where each worker is
  job,        \* the chunk each worker holds
  buf,        \* the version each worker has read
  bytesSent   \* state.bytesSent, the bytes reported as transferred

durable == <<direction, source, dest, manifest, losses, misfit>>
call == <<attempts, resume, chunkSize, memory, main, result>>
pool == <<queue, manifestCh, pc, job, buf, bytesSent>>
vars == <<durable, call, cancelled, pool>>

-----------------------------------------------------------------------------
Units == 0 .. TotalSize - 1
Versions == 1 .. MaxVersion

\* Plan: the index of the chunk a unit belongs to, the units of some chunks
\* (their [Start, End)), and the indices there are.
ChunkOf(u, cs) == u \div cs
Covered(chunks, cs) == {u \in Units : ChunkOf(u, cs) \in chunks}
Indices(cs) == {ChunkOf(u, cs) : u \in Units}

NoManifest == [chunkSize |-> 0, mtime |-> 0, chunks |-> {}]
HasManifest == manifest # NoManifest

\* A new manifest, which records no chunk yet.
FreshManifest(cs) == [chunkSize |-> cs, mtime |-> source, chunks |-> {}]

\* The units of the chunk a worker holds.
Span(w) == Covered({job[w]}, chunkSize)

\* Mutant of Finished: doneCh closed once pendingCh is empty.
Drained == IF queue = {} THEN Workers ELSE {}

Finished == {w \in Workers : pc[w] \in {"exited", "failed"}}
Failures == {w \in Workers : pc[w] = "failed"}

Init ==
  /\ direction \in Directions
  /\ source = 1
  /\ dest = [u \in Units |-> 0]
  /\ manifest = NoManifest
  /\ losses = 0 /\ misfit = FALSE /\ attempts = 0
  /\ resume = FALSE /\ chunkSize \in ChunkSizes /\ memory = NoManifest
  /\ main = "returned" /\ result = "none"
  /\ queue = {} /\ manifestCh = <<>> /\ cancelled = FALSE
  /\ pc = [w \in Workers |-> "exited"]
  /\ job = [w \in Workers |-> 0]
  /\ buf = [w \in Workers |-> 0]
  /\ bytesSent = 0

-----------------------------------------------------------------------------
\* What every call does first: it has a context, buffers and workers of its own.
\* What the workers of an earlier call may still do is lost on nobody: the files
\* they hold are closed and the channels they send to have no receiver.
Enter(r, cs) ==
  /\ main = "returned"
  /\ attempts < MaxAttempts
  /\ attempts' = attempts + 1
  /\ resume' = r
  /\ chunkSize' = cs
  /\ cancelled' = FALSE
  /\ manifestCh' = <<>>
  /\ UNCHANGED <<direction, source, dest, losses, job, buf>>

NoWorkers ==
  /\ pc' = [w \in Workers |-> "exited"]
  /\ queue' = {}

\* DeleteManifest, whose error every caller ignores.
TryDelete == manifest' \in {NoManifest, manifest}

\* A manifest of another version of the source is ErrLocalChanged or
\* ErrRemoteChanged; a source that cannot be opened or a manifest that cannot be
\* read ends the call as well.
Changed(r) == r /\ HasManifest /\ manifest.mtime # source

Refuse(r, cs) ==
  /\ Enter(r, cs)
  /\ result' = "error"
  /\ NoWorkers
  /\ UNCHANGED <<manifest, misfit, memory, main, bytesSent>>

\* The manifest the call works from, and the one on disk once it has it.
Base(r, cs) == IF r /\ HasManifest THEN manifest ELSE FreshManifest(cs)

\* Mutant of Load: uploadedIdx starts empty on a resume.
LoadForgetful(r, cs) ==
  /\ Enter(r, cs)
  /\ ~Changed(r)
  /\ memory' = FreshManifest(cs)
  /\ misfit' = (misfit \/ Base(r, cs).chunkSize # cs)

Load(r, cs) ==
  /\ Enter(r, cs)
  /\ ~Changed(r)
  /\ memory' = Base(r, cs)
  /\ misfit' = (misfit \/ Base(r, cs).chunkSize # cs)

KeepOrRestart(r) == IF r THEN UNCHANGED manifest ELSE TryDelete

\* Mutant of Pending: uploadedSet is not consulted.
PendingAll(m, cs) == Indices(cs)

\* The chunks still to transfer; req.ChunkSize decides, not the manifest's.
Pending(m, cs) == Indices(cs) \ m.chunks

NothingLeft(r, cs) ==
  /\ Load(r, cs)
  /\ Pending(Base(r, cs), cs) = {}
  /\ result' = "ok"
  /\ bytesSent' = TotalSize
  /\ TryDelete
  /\ NoWorkers
  /\ UNCHANGED main

OpenFails(r, cs) ==
  /\ Load(r, cs)
  /\ Pending(Base(r, cs), cs) # {}
  /\ result' = "error"
  /\ KeepOrRestart(r)
  /\ NoWorkers
  /\ UNCHANGED <<main, bytesSent>>

\* A manifest of smaller chunks has indices a plan of larger ones lacks.  Upload
\* indexes plan with every recorded chunk; Download checks the index here.
OutOfPlan(m, cs) == direction = "upload" /\ ~(m.chunks \subseteq Indices(cs))

Panic(r, cs) ==
  /\ Load(r, cs)
  /\ Pending(Base(r, cs), cs) # {}
  /\ OutOfPlan(Base(r, cs), cs)
  /\ result' = "panic"
  /\ KeepOrRestart(r)
  /\ NoWorkers
  /\ UNCHANGED <<main, bytesSent>>

Spawn(r, cs) ==
  /\ Load(r, cs)
  /\ Pending(Base(r, cs), cs) # {}
  /\ ~OutOfPlan(Base(r, cs), cs)
  /\ KeepOrRestart(r)
  /\ main' = "loop"
  /\ result' = "none"
  /\ queue' = Pending(Base(r, cs), cs)
  /\ pc' = [w \in Workers |-> "take"]
  /\ bytesSent' = Cardinality(Covered(Base(r, cs).chunks, cs))

\* Upload, Download up to the emitLoop.
Begin(r, cs) ==
  Refuse(r, cs) \/ NothingLeft(r, cs) \/ OpenFails(r, cs) \/ Panic(r, cs) \/ Spawn(r, cs)

-----------------------------------------------------------------------------
\* A worker.

GoTo(w, place) == pc' = [pc EXCEPT ![w] = place]

\* Mutant of Exit: pendingCh is never closed.
ExitOnCancel(w) ==
  /\ pc[w] = "take" /\ queue = {} /\ cancelled
  /\ GoTo(w, "exited")
  /\ UNCHANGED <<durable, call, cancelled, queue, manifestCh, job, buf, bytesSent>>

\* pendingCh is closed: empty, it ends the range.
Exit(w) ==
  /\ pc[w] = "take" /\ queue = {}
  /\ GoTo(w, "exited")
  /\ UNCHANGED <<durable, call, cancelled, queue, manifestCh, job, buf, bytesSent>>

\* pendingCh holds the chunks in ascending order.
Receive(i) ==
  /\ i \in queue /\ \A j \in queue : i <= j
  /\ queue' = queue \ {i}

\* With the context cancelled, or the file not readable, the chunk is left undone.
TakeFails(w) ==
  /\ pc[w] = "take"
  /\ \E i \in queue : Receive(i)
  /\ GoTo(w, "failed")
  /\ UNCHANGED <<durable, call, cancelled, manifestCh, job, buf, bytesSent>>

Take(w) ==
  /\ pc[w] = "take"
  /\ ~cancelled /\ main # "returned"
  /\ \E i \in queue : Receive(i) /\ job' = [job EXCEPT ![w] = i]
  /\ buf' = [buf EXCEPT ![w] = source]
  /\ GoTo(w, "write")
  /\ UNCHANGED <<durable, call, cancelled, manifestCh, bytesSent>>

Overwrite(w, units) ==
  dest' = [u \in Units |-> IF u \in units THEN buf[w] ELSE dest[u]]

Write(w) ==
  /\ pc[w] = "write" /\ main # "returned"
  /\ Overwrite(w, Span(w))
  /\ bytesSent' = bytesSent + Cardinality(Span(w))
  /\ GoTo(w, "notify")
  /\ UNCHANGED <<direction, source, manifest, losses, misfit, call, cancelled,
                 queue, manifestCh, job, buf>>

\* Mutant of WriteFails: a short write is not noticed.
WriteFallsShort(w) ==
  /\ pc[w] = "write" /\ main # "returned"
  /\ \E part \in SUBSET Span(w) : Overwrite(w, part)
  /\ GoTo(w, "notify")
  /\ UNCHANGED <<direction, source, manifest, losses, misfit, call, cancelled,
                 queue, manifestCh, job, buf, bytesSent>>

\* An error or a short write, after any part of the chunk has reached the file;
\* once the call has returned the file is closed and nothing does.
WriteFails(w) ==
  /\ pc[w] = "write"
  /\ \E part \in SUBSET Span(w) :
       /\ main = "returned" => part = {}
       /\ Overwrite(w, part)
  /\ GoTo(w, "failed")
  /\ UNCHANGED <<direction, source, manifest, losses, misfit, call, cancelled,
                 queue, manifestCh, job, buf, bytesSent>>

\* Mutant of Notify: manifestCh is taken to have room.
NotifyAlways(w) ==
  /\ pc[w] = "notify"
  /\ manifestCh' = Append(manifestCh, job[w])
  /\ GoTo(w, "take")
  /\ UNCHANGED <<durable, call, cancelled, queue, job, buf, bytesSent>>

\* The select that reports the chunk: the two cases.
Notify(w) ==
  /\ pc[w] = "notify"
  /\ Len(manifestCh) < ManifestChCap
  /\ manifestCh' = Append(manifestCh, job[w])
  /\ GoTo(w, "take")
  /\ UNCHANGED <<durable, call, cancelled, queue, job, buf, bytesSent>>

NotifyCancelled(w) ==
  /\ pc[w] = "notify"
  /\ cancelled
  /\ GoTo(w, "failed")
  /\ UNCHANGED <<durable, call, cancelled, queue, manifestCh, job, buf, bytesSent>>

Worker(w) ==
  \/ Exit(w) \/ TakeFails(w) \/ Take(w)
  \/ Write(w) \/ WriteFails(w)
  \/ Notify(w) \/ NotifyCancelled(w)

-----------------------------------------------------------------------------
\* The main goroutine: the cases of emitLoop's select that change state.  When
\* several are ready, Go takes any of them.

Return(r) == main' = "returned" /\ result' = r

\* SaveManifest replaces the manifest by a rename, or fails and leaves the old one.
Saved == manifest' = memory'

Record ==
  /\ main = "loop" /\ manifestCh # <<>>
  /\ memory' = [memory EXCEPT !.chunks = @ \cup {Head(manifestCh)}]
  /\ manifestCh' = Tail(manifestCh)
  /\ \/ Saved /\ UNCHANGED <<main, result>>
     \/ Return("error") /\ UNCHANGED manifest
  /\ UNCHANGED <<direction, source, dest, losses, misfit, attempts, resume, chunkSize,
                 cancelled, queue, pc, job, buf, bytesSent>>

OnCancelled ==
  /\ main = "loop" /\ cancelled
  /\ Return("error")
  /\ UNCHANGED <<durable, attempts, resume, chunkSize, memory, cancelled, pool>>

OnWorkerErr ==
  /\ main = "loop" /\ Failures # {}
  /\ Return("error")
  /\ UNCHANGED <<durable, attempts, resume, chunkSize, memory, cancelled, pool>>

\* doneCh is closed once every worker has gone; what is left in manifestCh is
\* taken at once, and the last manifest saved.
OnDone ==
  /\ main = "loop" /\ Finished = Workers
  /\ memory.chunks \subseteq Indices(chunkSize)
  /\ memory' = [memory EXCEPT !.chunks = @ \cup ToSet(manifestCh)]
  /\ manifestCh' = <<>>
  /\ \/ Saved /\ main' = "delete" /\ UNCHANGED result
     \/ Return("error") /\ UNCHANGED manifest
  /\ UNCHANGED <<direction, source, dest, losses, misfit, attempts, resume, chunkSize,
                 cancelled, queue, pc, job, buf, bytesSent>>

\* The checksum loop indexes chunkHashes with every recorded chunk.
DonePanics ==
  /\ main = "loop" /\ Finished = Workers
  /\ ~(memory.chunks \subseteq Indices(chunkSize))
  /\ Return("panic")
  /\ UNCHANGED <<durable, attempts, resume, chunkSize, memory, cancelled, pool>>

Delete ==
  /\ main = "delete"
  /\ TryDelete
  /\ Return("ok")
  /\ UNCHANGED <<direction, source, dest, losses, misfit, attempts, resume, chunkSize,
                 memory, cancelled, pool>>

Main == Record \/ OnCancelled \/ OnWorkerErr \/ OnDone \/ DonePanics \/ Delete

-----------------------------------------------------------------------------
\* What happens around the transfer.

\* Manager.cancelJob: it finds the job also after it has ended.
Cancel ==
  /\ attempts > 0 /\ ~cancelled
  /\ cancelled' = TRUE
  /\ UNCHANGED <<durable, call, pool>>

\* The process ends in the middle of a call.
Crash ==
  /\ main # "returned"
  /\ Return("none")
  /\ NoWorkers
  /\ UNCHANGED <<durable, attempts, resume, chunkSize, memory, cancelled, manifestCh,
                 job, buf, bytesSent>>

\* Somebody edits the source file.
Touch ==
  /\ source < MaxVersion
  /\ source' = source + 1
  /\ UNCHANGED <<direction, dest, manifest, losses, misfit, call, cancelled, pool>>

\* Somebody removes the destination file between two calls.
LoseDest ==
  /\ main = "returned" /\ losses < MaxLosses
  /\ losses' = losses + 1
  /\ dest' = [u \in Units |-> 0]
  /\ UNCHANGED <<direction, source, manifest, misfit, call, cancelled, pool>>

Next ==
  \/ \E r \in BOOLEAN, cs \in ChunkSizes : Begin(r, cs)
  \/ \E w \in Workers : Worker(w)
  \/ Main
  \/ Cancel \/ Crash \/ Touch \/ LoseDest

Spec == Init /\ [][Next]_vars

\* A runnable goroutine runs, and a read or a write of a file returns (the code sets
\* no timeout on them); nobody has to call, cancel, edit or crash.
Fairness == WF_vars(Main) /\ \A w \in Workers : WF_vars(Worker(w))
LiveSpec == Spec /\ Fairness

-----------------------------------------------------------------------------
\* Properties.

Manifests == [chunkSize : ChunkSizes \cup {0}, mtime : 0 .. MaxVersion, chunks : SUBSET Nat]

\* Every variable is of its type, the channel is within its capacity.
TypeOK ==
  /\ direction \in Directions
  /\ source \in Versions
  /\ dest \in [Units -> 0 .. MaxVersion]
  /\ {manifest, memory} \subseteq Manifests
  /\ losses \in 0 .. MaxLosses /\ attempts \in 0 .. MaxAttempts
  /\ {misfit, resume, cancelled} \subseteq BOOLEAN
  /\ chunkSize \in ChunkSizes
  /\ main \in {"loop", "delete", "returned"}
  /\ result \in {"none", "ok", "error", "panic"}
  /\ queue \subseteq Indices(chunkSize)
  /\ manifestCh \in Seq(Indices(chunkSize)) /\ Len(manifestCh) <= ManifestChCap
  /\ pc \in [Workers -> {"take", "write", "notify", "exited", "failed"}]
  /\ job \in [Workers -> Nat] /\ buf \in [Workers -> 0 .. MaxVersion]
  /\ \A w \in Workers : pc[w] \in {"write", "notify"} => job[w] \in Indices(chunkSize)
  /\ bytesSent \in Nat

\* What the code does not guard against and the next two properties set aside: a
\* resume with another chunk size, and a destination removed between two calls.
Intact == ~misfit /\ losses = 0

\* Every chunk the manifest records is in the destination, from the version the
\* manifest names or a later one.
Holds(m) == \A u \in Covered(m.chunks, m.chunkSize) : dest[u] >= m.mtime

\* The manifest on disk never claims a chunk the destination has not got, whatever
\* failed, was cancelled or crashed on the way (a worker reports after WriteAt, the
\* main goroutine saves after the report).
ManifestTruthful == Intact /\ HasManifest => Holds(manifest)

\* A call that returns nil with none of its workers failed has the whole file, no
\* unit of it older than the source the call began with or resumed.
Whole == \A u \in Units : dest[u] >= memory.mtime
SuccessUnlessFailed == Intact /\ result = "ok" /\ Failures = {} => Whole

\* No byte is reported twice over the attempts: what is reported never exceeds the
\* file, and it is all of it when the call succeeds with no failure.
ProgressHonest ==
  /\ bytesSent <= TotalSize
  /\ result = "ok" /\ Failures = {} => bytesSent = TotalSize

\* With Resume set, a chunk once recorded stays recorded, over saves, failures,
\* cancellation and crashes, until a call has succeeded.
KeepsRecord ==
  resume' => \/ manifest.chunks \subseteq manifest'.chunks
             \/ manifest' = NoManifest /\ result' = "ok"
NothingRecordedIsLost == [][KeepsRecord]_vars

\* Every call returns: a worker that fails, a full manifestCh or a cancellation
\* never leaves the main goroutine waiting.
CallEnds == main = "loop" ~> main = "returned"

\* streaming.go:334-335: when the main goroutine has received an error, or the
\* context is cancelled, the call returns ErrUploadFailed and keeps the manifest.
FailureReported == result = "ok" => Failures = {}

\* streaming.go:8-9: Resume skips the chunks that have been transferred, so that a
\* successful call has the whole file, whatever chunk size the request names.
SuccessIsWhole == losses = 0 /\ result = "ok" /\ Failures = {} => Whole
=============================================================================
