--------------------------- MODULE Transfer_proofs ---------------------------
(***************************************************************************)
(* What a transfer leaves on disk and what it returns, for every file      *)
(* size, set of chunk sizes and workers, channel capacity and bound.       *)
(*                                                                         *)
(* The promises about the manifest and about success need the state of a   *)
(* running call: IInv says that what any of memory, manifestCh and a       *)
(* reporting worker claims is in the destination (Claims), and that no     *)
(* chunk is forgotten unless a worker has failed (Accounted).              *)
(***************************************************************************)
EXTENDS Transfer, FiniteSetTheorems, TLAPS

-----------------------------------------------------------------------------
\* Chunk indices are natural numbers.
LEMMA IndexNat ==
  ASSUME NEW cs \in ChunkSizes
  PROVE  Indices(cs) \subseteq Nat
<1>1. cs \in Nat \ {0}
  BY TransferAssumption
<1>2. ASSUME NEW u \in Units PROVE u \div cs \in Nat
  <2>1. u \in Nat
    BY TransferAssumption DEF Units
  <2>2. QED BY <1>1, <2>1
<1>3. QED BY <1>2 DEF Indices, ChunkOf

\* The file has TotalSize units.
LEMMA UnitsCount == IsFiniteSet(Units) /\ Cardinality(Units) = TotalSize
<1>1. 0 \in Int /\ TotalSize - 1 \in Int /\ ~(0 > TotalSize - 1) /\ TotalSize - 1 - 0 + 1 = TotalSize
  BY TransferAssumption
<1>2. QED BY <1>1, FS_Interval DEF Units

\* A set of chunks is a finite number of units.
LEMMA CoveredSize ==
  ASSUME NEW chunks, NEW cs
  PROVE  Cardinality(Covered(chunks, cs)) \in Nat
<1>1. IsFiniteSet(Units)
  BY UnitsCount
<1>2. Covered(chunks, cs) \subseteq Units
  BY DEF Covered
<1>3. QED BY <1>1, <1>2, FS_Subset, FS_CardinalityType

-----------------------------------------------------------------------------
Running == main # "returned"
Reported == ToSet(manifestCh)

\* The versions: the call's is between the manifest's and the source's, and a
\* worker holds no older one.
Ages ==
  /\ manifest.mtime <= source
  /\ Running => /\ manifest.mtime <= memory.mtime
                /\ memory.mtime <= source
                /\ \A w \in Workers : pc[w] = "write" => memory.mtime <= buf[w]

\* What the call takes to be transferred is.
Claimed == memory.chunks \cup Reported \cup {job[w] : w \in {v \in Workers : pc[v] = "notify"}}
Claims ==
  Intact /\ Running =>
    /\ memory.chunkSize = chunkSize
    /\ \A u \in Units : ChunkOf(u, chunkSize) \in Claimed => dest[u] >= memory.mtime

\* No chunk is forgotten unless a worker has failed.
Held == {job[w] : w \in {v \in Workers : pc[v] \in {"write", "notify"}}}
Accounted ==
  Running /\ Failures = {} => Indices(chunkSize) \subseteq memory.chunks \cup Reported \cup Held \cup queue

\* A worker leaves when no chunk is left; emitLoop is left with all recorded.
Drains ==
  /\ \A w \in Workers : Running /\ pc[w] = "exited" => queue = {}
  /\ main = "delete" /\ Failures = {} => Indices(chunkSize) \subseteq memory.chunks
  /\ Running => result = "none"

IInv == Ages /\ ManifestTruthful /\ Claims /\ Accounted /\ Drains /\ SuccessUnlessFailed

-----------------------------------------------------------------------------
\* Type correctness.

LEMMA ManifestTypes ==
  ASSUME TypeOK
  PROVE  NoManifest \in Manifests /\ manifest \in Manifests /\ memory \in Manifests
<1>1. NoManifest \in Manifests
  BY TransferAssumption DEF Manifests, NoManifest
<1>2. manifest \in Manifests /\ memory \in Manifests
  BY DEF TypeOK, Manifests
<1>3. QED BY <1>1, <1>2

LEMMA BaseType ==
  ASSUME TypeOK, NEW r \in BOOLEAN, NEW cs \in ChunkSizes
  PROVE  Base(r, cs) \in Manifests
BY TransferAssumption DEF TypeOK, Base, FreshManifest, Manifests, Versions

LEMMA InitType == Init => TypeOK
<1> SUFFICES ASSUME Init PROVE TypeOK
  OBVIOUS
<1>1. manifestCh \in Seq(Indices(chunkSize)) /\ Len(manifestCh) = 0
  BY DEF Init
<1>2. 1 \in Versions
  BY TransferAssumption DEF Versions
<1>3. NoManifest \in Manifests
  BY TransferAssumption DEF Manifests, NoManifest
<1>4. dest \in [Units -> 0 .. MaxVersion] /\ buf \in [Workers -> 0 .. MaxVersion]
  BY TransferAssumption DEF Init
<1>5. pc \in [Workers -> {"take", "write", "notify", "exited", "failed"}] /\ job \in [Workers -> Nat]
  BY DEF Init
<1>6. {manifest, memory} \subseteq Manifests
  BY <1>3 DEF Init
<1>7. \A w \in Workers : pc[w] \in {"write", "notify"} => job[w] \in Indices(chunkSize)
  BY DEF Init
<1>8. /\ losses \in 0 .. MaxLosses /\ attempts \in 0 .. MaxAttempts /\ bytesSent \in Nat
      /\ Len(manifestCh) <= ManifestChCap
  BY <1>1, TransferAssumption DEF Init
<1>9. /\ direction \in Directions /\ source \in Versions /\ chunkSize \in ChunkSizes
      /\ {misfit, resume, cancelled} \subseteq BOOLEAN
      /\ main \in {"loop", "delete", "returned"} /\ result \in {"none", "ok", "error", "panic"}
      /\ queue \subseteq Indices(chunkSize)
  BY <1>2 DEF Init
<1>10. QED BY <1>1, <1>4, <1>5, <1>6, <1>7, <1>8, <1>9 DEF TypeOK

\* What a call starts with.
LEMMA BeginType ==
  ASSUME TypeOK, NEW r \in BOOLEAN, NEW cs \in ChunkSizes, Begin(r, cs)
  PROVE  TypeOK'
<1> USE DEF Enter, NoWorkers
<1>1. Base(r, cs) \in Manifests /\ manifest \in Manifests /\ NoManifest \in Manifests
  BY BaseType, ManifestTypes
<1>2. manifestCh' \in Seq(Indices(cs)) /\ Len(manifestCh') <= ManifestChCap
  <2>1. manifestCh' = <<>>
    BY DEF Begin, Refuse, NothingLeft, OpenFails, Panic, Spawn, Load
  <2>2. QED BY <2>1, TransferAssumption
<1>3. attempts' \in 0 .. MaxAttempts
  BY TransferAssumption DEF TypeOK, Begin, Refuse, NothingLeft, OpenFails, Panic, Spawn, Load
<1>4. TotalSize \in Nat /\ Cardinality(Covered(Base(r, cs).chunks, cs)) \in Nat
  BY CoveredSize, TransferAssumption
<1>5. CASE Refuse(r, cs)
  BY <1>2, <1>3, <1>5 DEF TypeOK, Refuse
<1>6. ASSUME Load(r, cs), KeepOrRestart(r) \/ TryDelete
      PROVE  {manifest', memory'} \subseteq Manifests /\ misfit' \in BOOLEAN
  BY <1>1, <1>6 DEF Load, KeepOrRestart, TryDelete, TypeOK
<1>7. CASE NothingLeft(r, cs)
  BY <1>2, <1>3, <1>4, <1>6, <1>7 DEF TypeOK, NothingLeft, Load, Manifests
<1>8. CASE OpenFails(r, cs)
  BY <1>2, <1>3, <1>6, <1>8 DEF TypeOK, OpenFails, Load, Manifests
<1>9. CASE Panic(r, cs)
  BY <1>2, <1>3, <1>6, <1>9 DEF TypeOK, Panic, Load, Manifests
<1>10. CASE Spawn(r, cs)
  BY <1>2, <1>3, <1>4, <1>6, <1>10 DEF TypeOK, Spawn, Load, Manifests, Pending
<1>11. QED BY <1>5, <1>7, <1>8, <1>9, <1>10 DEF Begin

LEMMA WorkerType ==
  ASSUME TypeOK, NEW w \in Workers, Worker(w)
  PROVE  TypeOK'
<1> USE DEF durable, call, GoTo
<1>0. Indices(chunkSize) \subseteq Nat
  BY IndexNat DEF TypeOK
<1>1. CASE Exit(w)
  BY <1>1 DEF TypeOK, Exit
<1>2. CASE TakeFails(w)
  BY <1>2 DEF TypeOK, TakeFails, Receive
<1>3. CASE Take(w)
  BY <1>0, <1>3 DEF TypeOK, Take, Receive, Versions
<1>4. CASE Write(w)
  <2>1. bytesSent' \in Nat
    BY <1>4, CoveredSize DEF TypeOK, Write, Span
  <2>2. dest' \in [Units -> 0 .. MaxVersion]
    BY <1>4 DEF TypeOK, Write, Overwrite
  <2>3. QED BY <1>4, <2>1, <2>2 DEF TypeOK, Write
<1>5. CASE WriteFails(w)
  <2>1. dest' \in [Units -> 0 .. MaxVersion]
    BY <1>5 DEF TypeOK, WriteFails, Overwrite
  <2>2. QED BY <1>5, <2>1 DEF TypeOK, WriteFails
<1>6. CASE Notify(w)
  BY <1>6, TransferAssumption DEF TypeOK, Notify
<1>7. CASE NotifyCancelled(w)
  BY <1>7 DEF TypeOK, NotifyCancelled
<1>8. QED BY <1>1, <1>2, <1>3, <1>4, <1>5, <1>6, <1>7 DEF Worker

LEMMA MainType ==
  ASSUME TypeOK, Main
  PROVE  TypeOK'
<1> USE DEF durable, pool, Return, Saved
<1>0. Indices(chunkSize) \subseteq Nat
  BY IndexNat DEF TypeOK
<1>1. CASE Record
  <2>1. Head(manifestCh) \in Nat /\ Tail(manifestCh) \in Seq(Indices(chunkSize))
    BY <1>0, <1>1 DEF TypeOK, Record
  <2>2. Len(Tail(manifestCh)) <= ManifestChCap
    BY <1>1, TransferAssumption DEF TypeOK, Record
  <2>3. memory' \in Manifests
    BY <1>1, <2>1, ManifestTypes DEF Record, Manifests
  <2>4. manifest' \in Manifests
    BY <1>1, <2>3, ManifestTypes DEF Record
  <2>5. QED BY <1>1, <2>1, <2>2, <2>3, <2>4 DEF TypeOK, Record, Manifests
<1>2. CASE OnCancelled
  BY <1>2 DEF TypeOK, OnCancelled
<1>3. CASE OnWorkerErr
  BY <1>3 DEF TypeOK, OnWorkerErr
<1>4. CASE OnDone
  <2>1. manifestCh' \in Seq(Indices(chunkSize)) /\ Len(manifestCh') <= ManifestChCap
    BY <1>4, TransferAssumption DEF OnDone
  <2>2. ToSet(manifestCh) \subseteq Nat
    BY <1>0 DEF TypeOK, ToSet
  <2>3. memory' \in Manifests
    BY <1>4, <2>2, ManifestTypes DEF OnDone, Manifests
  <2>4. manifest' \in Manifests
    BY <1>4, <2>3, ManifestTypes DEF OnDone
  <2>5. QED BY <1>4, <2>1, <2>3, <2>4 DEF TypeOK, OnDone
<1>5. CASE Delete
  <2>1. manifest' \in Manifests
    BY <1>5, ManifestTypes DEF Delete, TryDelete
  <2>2. QED BY <1>5, <2>1 DEF TypeOK, Delete, Manifests
<1>6. CASE DonePanics
  BY <1>6 DEF TypeOK, DonePanics
<1>7. QED BY <1>1, <1>2, <1>3, <1>4, <1>5, <1>6 DEF Main

LEMMA AroundType ==
  ASSUME TypeOK, Cancel \/ Crash \/ Touch \/ LoseDest
  PROVE  TypeOK'
<1> USE TransferAssumption DEF durable, call, pool, Return, NoWorkers
<1>1. CASE Cancel
  BY <1>1 DEF TypeOK, Cancel
<1>2. CASE Crash
  BY <1>2 DEF TypeOK, Crash
<1>3. CASE Touch
  BY <1>3 DEF TypeOK, Touch, Versions
<1>4. CASE LoseDest
  BY <1>4 DEF TypeOK, LoseDest
<1>5. QED BY <1>1, <1>2, <1>3, <1>4

\* Every reachable state has well-typed variables and a channel within capacity.
THEOREM TypeCorrect == Spec => []TypeOK
<1>1. TypeOK /\ [Next]_vars => TypeOK'
  <2> SUFFICES ASSUME TypeOK, [Next]_vars PROVE TypeOK'
    OBVIOUS
  <2>1. CASE UNCHANGED vars
    BY <2>1 DEF TypeOK, vars, durable, call, pool
  <2>2. CASE Next
    BY <2>2, BeginType, WorkerType, MainType, AroundType DEF Next
  <2>3. QED BY <2>1, <2>2
<1>2. QED BY InitType, <1>1, PTL DEF Spec

-----------------------------------------------------------------------------
\* What a channel holds, after a send and after a receive.

LEMMA SentSet ==
  ASSUME NEW S, NEW s \in Seq(S), NEW e \in S
  PROVE  ToSet(Append(s, e)) = ToSet(s) \cup {e}
<1>1. /\ Len(Append(s, e)) = Len(s) + 1
      /\ \A i \in 1 .. Len(s) : Append(s, e)[i] = s[i]
      /\ Append(s, e)[Len(s) + 1] = e
      /\ DOMAIN s = 1 .. Len(s) /\ DOMAIN Append(s, e) = 1 .. Len(s) + 1
  OBVIOUS
<1>2. Len(s) \in Nat
  OBVIOUS
<1>3. 1 .. Len(s) + 1 = (1 .. Len(s)) \cup {Len(s) + 1}
  BY <1>2
<1>4. QED BY <1>1, <1>3 DEF ToSet

LEMMA ReceivedSet ==
  ASSUME NEW S, NEW s \in Seq(S), s # <<>>
  PROVE  ToSet(s) = {Head(s)} \cup ToSet(Tail(s))
<1>1. /\ Len(s) \in Nat \ {0} /\ DOMAIN s = 1 .. Len(s)
      /\ DOMAIN Tail(s) = 1 .. Len(s) - 1
      /\ Head(s) = s[1]
      /\ \A i \in 1 .. Len(s) - 1 : Tail(s)[i] = s[i + 1]
  OBVIOUS
<1>2. ASSUME NEW x \in ToSet(s) PROVE x \in {Head(s)} \cup ToSet(Tail(s))
  <2>1. PICK i \in 1 .. Len(s) : x = s[i]
    BY <1>1, <1>2 DEF ToSet
  <2>2. CASE i = 1
    BY <1>1, <2>1, <2>2
  <2>3. CASE i # 1
    <3>1. i - 1 \in 1 .. Len(s) - 1 /\ Tail(s)[i - 1] = s[i]
      BY <1>1, <2>3
    <3>2. QED BY <1>1, <2>1, <3>1 DEF ToSet
  <2>4. QED BY <2>2, <2>3
<1>3. ASSUME NEW x \in {Head(s)} \cup ToSet(Tail(s)) PROVE x \in ToSet(s)
  <2>1. CASE x = Head(s)
    BY <1>1, <2>1 DEF ToSet
  <2>2. CASE x \in ToSet(Tail(s))
    <3>1. PICK i \in 1 .. Len(s) - 1 : x = Tail(s)[i]
      BY <1>1, <2>2 DEF ToSet
    <3>2. i + 1 \in 1 .. Len(s) /\ x = s[i + 1]
      BY <1>1, <3>1
    <3>3. QED BY <1>1, <3>2 DEF ToSet
  <2>3. QED BY <1>3, <2>1, <2>2
<1>4. QED BY <1>2, <1>3

-----------------------------------------------------------------------------
\* The types of the numbers the invariant compares.
LEMMA Numbers ==
  ASSUME TypeOK
  PROVE  /\ source \in Nat /\ manifest.mtime \in Nat /\ memory.mtime \in Nat
         /\ \A u \in Units : dest[u] \in Nat
         /\ \A w \in Workers : buf[w] \in Nat
         /\ losses \in Nat
<1>1. manifest.mtime \in Nat /\ memory.mtime \in Nat
  BY ManifestTypes, TransferAssumption DEF Manifests
<1>2. QED BY <1>1, TransferAssumption DEF TypeOK, Versions

\* A worker's step replaces units only by versions the running call may claim.
LEMMA OnlyNewer ==
  ASSUME TypeOK, Ages, NEW w \in Workers, Worker(w), NEW u \in Units
  PROVE  dest'[u] = dest[u] \/ (Running /\ dest'[u] >= memory.mtime)
<1>1. CASE Write(w)
  <2>1. Running /\ memory.mtime <= buf[w]
    BY <1>1 DEF Ages, Write, Running
  <2>2. dest'[u] = buf[w] \/ dest'[u] = dest[u]
    BY <1>1 DEF Write, Overwrite
  <2>3. QED BY <2>1, <2>2, Numbers
<1>2. CASE WriteFails(w)
  <2>1. PICK part \in SUBSET Span(w) : (main = "returned" => part = {}) /\ Overwrite(w, part)
    BY <1>2 DEF WriteFails
  <2>2. CASE u \in part
    <3>1. Running
      BY <2>1, <2>2 DEF Running
    <3>2. memory.mtime <= buf[w]
      BY <1>2, <3>1 DEF Ages, WriteFails
    <3>3. dest'[u] = buf[w]
      BY <2>1, <2>2 DEF Overwrite
    <3>4. QED BY <3>1, <3>2, <3>3, Numbers
  <2>3. CASE u \notin part
    BY <2>1, <2>3 DEF Overwrite
  <2>4. QED BY <2>2, <2>3
<1>3. CASE UNCHANGED dest
  BY <1>3
<1>4. QED BY <1>1, <1>2, <1>3
      DEF Worker, Exit, TakeFails, Take, Notify, NotifyCancelled, durable

\* What no worker touches.
LEMMA WorkerKeeps ==
  ASSUME NEW w \in Workers, Worker(w)
  PROVE  UNCHANGED <<direction, source, manifest, losses, misfit, call, cancelled>>
BY DEF Worker, Exit, TakeFails, Take, Write, WriteFails, Notify, NotifyCancelled, durable

LEMMA FailuresStay ==
  ASSUME TypeOK, NEW w \in Workers, Worker(w)
  PROVE  Failures \subseteq Failures'
BY DEF TypeOK, Failures, Worker, Exit, TakeFails, Take, Write, WriteFails, Notify,
       NotifyCancelled, GoTo

-----------------------------------------------------------------------------
\* IInv is inductive.

LEMMA InitInv == Init => IInv
<1> SUFFICES ASSUME Init PROVE IInv
  OBVIOUS
<1>1. ~Running /\ ~HasManifest /\ result = "none"
  BY DEF Init, Running, HasManifest
<1>2. Ages
  BY <1>1 DEF Init, Ages, NoManifest
<1>3. Drains
  BY <1>1 DEF Drains, Running
<1>4. QED BY <1>1, <1>2, <1>3 DEF IInv, ManifestTruthful, Claims, Accounted, SuccessUnlessFailed

LEMMA WorkerInv ==
  ASSUME TypeOK, IInv, NEW w \in Workers, Worker(w)
  PROVE  IInv'
<1> USE DEF call, GoTo
<1>1. UNCHANGED <<manifest, memory, source, losses, misfit, main, result, chunkSize>>
  BY WorkerKeeps
<1>2. Running' = Running /\ Intact' = Intact /\ HasManifest' = HasManifest
  BY <1>1 DEF Running, Intact, HasManifest
<1>3. \A u \in Units : dest'[u] = dest[u] \/ (Running /\ dest'[u] >= memory.mtime)
  BY OnlyNewer DEF IInv
<1>4. Failures \subseteq Failures'
  BY FailuresStay
<1>5. Ages'
  <2>1. ASSUME Running, NEW v \in Workers, pc'[v] = "write" PROVE memory.mtime <= buf'[v]
    <3>1. CASE Take(w)
      BY <2>1, <3>1, Numbers DEF Take, TypeOK, IInv, Ages
    <3>2. CASE ~Take(w)
      <4>1. pc[v] = "write" /\ buf' = buf
        BY <2>1, <3>2 DEF Worker, Exit, TakeFails, Write, WriteFails, Notify, NotifyCancelled, TypeOK
      <4>2. QED BY <2>1, <4>1 DEF IInv, Ages
    <3>3. QED BY <3>1, <3>2
  <2>2. QED BY <1>1, <1>2, <2>1 DEF IInv, Ages
<1>6. ManifestTruthful'
  <2> SUFFICES ASSUME Intact, HasManifest, NEW u \in Covered(manifest.chunks, manifest.chunkSize)
               PROVE  dest'[u] >= manifest.mtime
    BY <1>1, <1>2 DEF ManifestTruthful, Holds, Covered
  <2>1. u \in Units /\ dest[u] >= manifest.mtime
    BY DEF IInv, ManifestTruthful, Holds, Covered
  <2>2. CASE dest'[u] = dest[u]
    BY <2>1, <2>2
  <2>3. CASE Running /\ dest'[u] >= memory.mtime
    <3>1. memory.mtime >= manifest.mtime
      BY <2>3, Numbers DEF IInv, Ages
    <3>2. memory.mtime \in Nat /\ manifest.mtime \in Nat
      BY Numbers
    <3>3. dest'[u] \in Nat
      BY <2>1, WorkerType, TransferAssumption DEF TypeOK
    <3>4. QED BY <2>3, <3>1, <3>2, <3>3
  <2>4. QED BY <1>3, <2>1, <2>2, <2>3
<1>7. Claims'
  <2> SUFFICES ASSUME Intact, Running, NEW u \in Units, ChunkOf(u, chunkSize) \in Claimed'
               PROVE  dest'[u] >= memory.mtime
    BY <1>1, <1>2 DEF Claims, IInv
  <2> DEFINE i == ChunkOf(u, chunkSize)
  <2>1. CASE i \in Claimed
    <3>1. dest[u] >= memory.mtime
      BY <2>1 DEF IInv, Claims
    <3>2. QED BY <1>3, <3>1
  <2>2. CASE i \notin Claimed
    <3>1. Write(w) /\ i = job[w]
      <4>1. CASE Notify(w)
        <5>1. manifestCh' = Append(manifestCh, job[w]) /\ job[w] \in Indices(chunkSize)
          BY <4>1 DEF Notify, TypeOK
        <5>2. Reported' = Reported \cup {job[w]}
          BY <5>1, SentSet DEF TypeOK, Reported
        <5>3. QED BY <1>1, <2>2, <4>1, <5>2 DEF Claimed, Notify, TypeOK
      <4>2. CASE ~Notify(w)
        <5>1. manifestCh' = manifestCh
          BY <4>2 DEF Worker, Exit, TakeFails, Take, Write, WriteFails, NotifyCancelled
        <5>2. i \in {job'[v] : v \in {x \in Workers : pc'[x] = "notify"}}
          BY <1>1, <2>2, <5>1 DEF Claimed, Reported
        <5>3. PICK v \in Workers : pc'[v] = "notify" /\ job'[v] = i
          BY <5>2
        <5>4. pc[v] = "notify" => job[v] # i
          BY <2>2 DEF Claimed
        <5>5. QED
          BY <4>2, <5>3, <5>4
          DEF Worker, Exit, TakeFails, Take, Write, WriteFails, NotifyCancelled, TypeOK
      <4>3. QED BY <4>1, <4>2
    <3>2. u \in Span(w)
      BY <3>1 DEF Span, Covered
    <3>3. dest'[u] = buf[w] /\ memory.mtime <= buf[w]
      BY <3>1, <3>2 DEF Write, Overwrite, IInv, Ages
    <3>4. QED BY <3>3, Numbers
  <2>3. QED BY <2>1, <2>2
<1>8. Accounted'
  <2> SUFFICES ASSUME Running, Failures' = {}, NEW i \in Indices(chunkSize)
               PROVE  i \in memory.chunks \cup Reported' \cup Held' \cup queue'
    BY <1>1, <1>2 DEF Accounted
  <2>1. i \in memory.chunks \cup Reported \cup Held \cup queue
    BY <1>4 DEF IInv, Accounted
  <2>2. pc'[w] # "failed"
    BY DEF Failures
  <2>3. ~TakeFails(w) /\ ~WriteFails(w) /\ ~NotifyCancelled(w)
    BY <2>2 DEF TakeFails, WriteFails, NotifyCancelled, TypeOK
  <2>4. CASE Exit(w)
    BY <2>1, <2>4 DEF Exit, TypeOK, Held, Reported
  <2>5. CASE Take(w)
    BY <2>1, <2>5 DEF Take, Receive, TypeOK, Held, Reported
  <2>6. CASE Write(w)
    BY <2>1, <2>6 DEF Write, TypeOK, Held, Reported
  <2>7. CASE Notify(w)
    <3>1. manifestCh' = Append(manifestCh, job[w]) /\ job[w] \in Indices(chunkSize)
      BY <2>7 DEF Notify, TypeOK
    <3>2. Reported' = Reported \cup {job[w]}
      BY <3>1, SentSet DEF TypeOK, Reported
    <3>3. QED BY <2>1, <2>7, <3>2 DEF Notify, TypeOK, Held
  <2>8. QED BY <2>3, <2>4, <2>5, <2>6, <2>7 DEF Worker
<1>9. Drains'
  <2>1. ASSUME NEW v \in Workers, Running, pc'[v] = "exited" PROVE queue' = {}
    BY <2>1
    DEF IInv, Drains, Worker, Exit, TakeFails, Take, Receive, Write, WriteFails, Notify,
        NotifyCancelled, TypeOK
  <2>2. QED BY <1>1, <1>2, <1>4, <2>1 DEF IInv, Drains
<1>10. SuccessUnlessFailed'
  <2> SUFFICES ASSUME Intact, result = "ok", Failures' = {}, NEW u \in Units
               PROVE  dest'[u] >= memory.mtime
    BY <1>1, <1>2 DEF SuccessUnlessFailed, Whole
  <2>1. ~Running
    BY DEF IInv, Drains
  <2>2. dest[u] >= memory.mtime
    BY <1>4 DEF IInv, SuccessUnlessFailed, Whole
  <2>3. QED BY <1>3, <2>1, <2>2
<1>11. QED BY <1>5, <1>6, <1>7, <1>8, <1>9, <1>10 DEF IInv

\* A step that leaves the files alone and returns an error, or nothing.
LEMMA ReturnInv ==
  ASSUME TypeOK, IInv, main' = "returned", result' # "ok",
         UNCHANGED <<source, dest, manifest, losses, misfit>>
  PROVE  IInv'
<1>1. Ages' /\ Claims' /\ Accounted' /\ Drains' /\ SuccessUnlessFailed'
  BY DEF IInv, Ages, Claims, Accounted, Drains, SuccessUnlessFailed, Running
<1>2. ManifestTruthful'
  BY DEF IInv, ManifestTruthful, Holds, HasManifest, Intact
<1>3. QED BY <1>1, <1>2 DEF IInv

\* A save of the main goroutine's manifest, which records what has been reported.
LEMMA SaveInv ==
  ASSUME TypeOK, IInv, Running,
         NEW new, new \subseteq Reported,
         memory' = [memory EXCEPT !.chunks = @ \cup new], manifest' = memory',
         UNCHANGED <<source, dest, losses, misfit, chunkSize, buf, pc>>
  PROVE  Ages' /\ ManifestTruthful'
<1>1. memory'.mtime = memory.mtime /\ memory'.chunkSize = memory.chunkSize
      /\ memory'.chunks = memory.chunks \cup new
  BY ManifestTypes DEF Manifests
<1>2. Ages'
  BY <1>1, Numbers DEF IInv, Ages
<1>3. ManifestTruthful'
  <2> SUFFICES ASSUME Intact, NEW u \in Units, ChunkOf(u, memory.chunkSize) \in memory'.chunks
               PROVE  dest[u] >= memory.mtime
    BY <1>1 DEF ManifestTruthful, Holds, Covered, Intact
  <2>1. memory.chunkSize = chunkSize /\ memory'.chunks \subseteq Claimed
    BY <1>1 DEF IInv, Claims, Claimed
  <2>2. QED BY <2>1 DEF IInv, Claims
<1>4. QED BY <1>2, <1>3

LEMMA RecordInv ==
  ASSUME TypeOK, IInv, Record
  PROVE  IInv'
<1>1. CASE Return("error") /\ UNCHANGED manifest
  BY <1>1, ReturnInv DEF Record, Return
<1>2. CASE Saved /\ UNCHANGED <<main, result>>
  <2>1. Running /\ Running' /\ Failures' = Failures /\ Held' = Held
    BY <1>2 DEF Record, Running, Failures, Held
  <2>2. Reported = {Head(manifestCh)} \cup Reported'
    BY ReceivedSet DEF Record, TypeOK, Reported
  <2>3. Ages' /\ ManifestTruthful'
    BY <1>2, <2>1, <2>2, SaveInv DEF Record, Saved
  <2>4. memory'.mtime = memory.mtime /\ memory'.chunkSize = memory.chunkSize
        /\ memory'.chunks = memory.chunks \cup {Head(manifestCh)}
    BY ManifestTypes DEF Manifests, Record
  <2>5. Claimed' = Claimed
    BY <2>2, <2>4 DEF Claimed, Record
  <2>6. Claims'
    BY <2>1, <2>4, <2>5 DEF IInv, Claims, Record, Intact
  <2>7. Accounted'
    BY <2>1, <2>2, <2>4 DEF IInv, Accounted, Record
  <2>8. Drains' /\ SuccessUnlessFailed'
    BY <1>2, <2>1 DEF IInv, Drains, Record, SuccessUnlessFailed, Running
  <2>9. QED BY <2>3, <2>6, <2>7, <2>8 DEF IInv
<1>3. QED BY <1>1, <1>2 DEF Record

LEMMA OnDoneInv ==
  ASSUME TypeOK, IInv, OnDone
  PROVE  IInv'
<1>1. CASE Return("error") /\ UNCHANGED manifest
  BY <1>1, ReturnInv DEF OnDone, Return
<1>2. CASE Saved /\ main' = "delete" /\ UNCHANGED result
  <2>1. Running /\ Running' /\ Failures' = Failures
    BY <1>2 DEF OnDone, Running, Failures
  <2>2. Ages' /\ ManifestTruthful'
    BY <1>2, <2>1, SaveInv DEF OnDone, Saved, Reported
  <2>3. memory'.mtime = memory.mtime /\ memory'.chunkSize = memory.chunkSize
        /\ memory'.chunks = memory.chunks \cup Reported
    BY ManifestTypes DEF Manifests, OnDone, Reported
  <2>4. Claimed' \subseteq Claimed
    <3>1. Reported' = {}
      BY DEF OnDone, Reported, ToSet
    <3>2. QED BY <2>3, <3>1 DEF Claimed, OnDone
  <2>5. Claims'
    BY <2>1, <2>3, <2>4 DEF IInv, Claims, OnDone, Intact
  <2>6. Failures = {} => Indices(chunkSize) \subseteq memory'.chunks
    <3> SUFFICES ASSUME Failures = {} PROVE Indices(chunkSize) \subseteq memory'.chunks
      OBVIOUS
    <3>1. \A w \in Workers : pc[w] = "exited"
      BY DEF OnDone, Finished, Failures
    <3>2. queue = {} /\ Held = {}
      BY <2>1, <3>1, TransferAssumption DEF IInv, Drains, Held
    <3>3. QED BY <2>1, <2>3, <3>2 DEF IInv, Accounted
  <2>7. Accounted' /\ Drains' /\ SuccessUnlessFailed'
    BY <1>2, <2>1, <2>6 DEF IInv, Drains, OnDone, Accounted, SuccessUnlessFailed, Running
  <2>8. QED BY <2>2, <2>5, <2>7 DEF IInv
<1>3. QED BY <1>1, <1>2 DEF OnDone

LEMMA DeleteInv ==
  ASSUME TypeOK, IInv, Delete
  PROVE  IInv'
<1> USE DEF pool
<1>1. manifest' = manifest \/ ~HasManifest'
  BY DEF Delete, TryDelete, HasManifest
<1>2. ~Running'
  BY DEF Delete, Return, Running
<1>3. ManifestTruthful'
  BY <1>1 DEF IInv, ManifestTruthful, Holds, HasManifest, Intact, Delete
<1>4. Ages'
  BY <1>2, Numbers DEF Ages, IInv, Delete, TryDelete, NoManifest
<1>5. SuccessUnlessFailed'
  <2> SUFFICES ASSUME Intact, Failures = {}, NEW u \in Units
               PROVE  dest[u] >= memory.mtime
    BY DEF Delete, SuccessUnlessFailed, Whole, Intact, Failures
  <2>1. ChunkOf(u, chunkSize) \in memory.chunks
    BY DEF IInv, Drains, Delete, Indices
  <2>2. QED BY <2>1 DEF IInv, Claims, Claimed, Delete, Running
<1>6. QED BY <1>2, <1>3, <1>4, <1>5 DEF IInv, Claims, Accounted, Drains, Running

LEMMA MainInv ==
  ASSUME TypeOK, IInv, Main
  PROVE  IInv'
<1>1. CASE OnCancelled \/ OnWorkerErr \/ DonePanics
  BY <1>1, ReturnInv DEF OnCancelled, OnWorkerErr, DonePanics, Return, durable
<1>2. QED BY <1>1, RecordInv, OnDoneInv, DeleteInv DEF Main

LEMMA AroundInv ==
  ASSUME TypeOK, IInv, Cancel \/ Crash \/ Touch \/ LoseDest
  PROVE  IInv'
<1> USE DEF durable, call, pool
<1>1. CASE Crash
  BY <1>1, ReturnInv DEF Crash, Return
<1>2. CASE Cancel
  BY <1>2 DEF Cancel, IInv, Ages, ManifestTruthful, Claims, Accounted, Drains,
     SuccessUnlessFailed, Running, Intact, HasManifest, Holds, Claimed, Held, Reported,
     Failures, Whole
<1>3. CASE Touch
  <2>1. Ages'
    BY <1>3, Numbers DEF Touch, IInv, Ages, Running
  <2>2. QED
    BY <1>3, <2>1 DEF Touch, IInv, ManifestTruthful, Claims, Accounted, Drains,
       SuccessUnlessFailed, Running, Intact, HasManifest, Holds, Claimed, Held, Reported,
       Failures, Whole
<1>4. CASE LoseDest
  <2>1. ~Intact' /\ ~Running'
    BY <1>4, Numbers DEF LoseDest, Intact, Running
  <2>2. QED
    BY <1>4, <2>1 DEF LoseDest, IInv, Ages, ManifestTruthful, Claims, Accounted, Drains,
       SuccessUnlessFailed, Running
<1>5. QED BY <1>1, <1>2, <1>3, <1>4

\* What a call works from is true of the destination, unless the chunk size differs.
LEMMA BaseHolds ==
  ASSUME TypeOK, IInv, NEW r \in BOOLEAN, NEW cs \in ChunkSizes, Load(r, cs)
  PROVE  /\ memory'.mtime = source /\ UNCHANGED <<source, dest, losses>>
         /\ Intact' => /\ Intact /\ memory'.chunkSize = cs
                       /\ \A u \in Units : ChunkOf(u, cs) \in memory'.chunks
                                          => dest[u] >= memory'.mtime
<1>1. memory' = Base(r, cs) /\ UNCHANGED <<source, dest, losses>>
  BY DEF Load, Enter
<1>2. CASE r /\ HasManifest
  <2>1. memory' = manifest /\ manifest.mtime = source
    BY <1>1, <1>2 DEF Base, Load, Changed
  <2>2. ASSUME Intact' PROVE Intact /\ memory'.chunkSize = cs
    BY <1>1, <2>2 DEF Intact, Load, TypeOK
  <2>3. ASSUME Intact', NEW u \in Units, ChunkOf(u, cs) \in memory'.chunks
        PROVE  dest[u] >= memory'.mtime
    BY <1>2, <2>1, <2>2, <2>3 DEF IInv, ManifestTruthful, Holds, Covered
  <2>4. QED BY <1>1, <2>1, <2>2, <2>3
<1>3. CASE ~(r /\ HasManifest)
  <2>1. memory' = FreshManifest(cs)
    BY <1>1, <1>3 DEF Base
  <2>2. memory'.mtime = source /\ memory'.chunkSize = cs /\ memory'.chunks = {}
    BY <2>1 DEF FreshManifest
  <2>3. Intact' => Intact
    BY <1>1 DEF Intact, Load, TypeOK
  <2>4. QED BY <1>1, <2>2, <2>3
<1>4. QED BY <1>2, <1>3

\* The manifest a call leaves on disk before it has started is the old one or none.
LEMMA LeftOnDisk ==
  ASSUME TypeOK, IInv, NEW r \in BOOLEAN, NEW cs \in ChunkSizes, Load(r, cs),
         KeepOrRestart(r) \/ TryDelete
  PROVE  /\ ManifestTruthful'
         /\ manifest'.mtime <= source'
<1>1. UNCHANGED <<source, dest, losses>> /\ (Intact' => Intact)
  BY BaseHolds
<1>2. manifest' \in {manifest, NoManifest}
  BY DEF KeepOrRestart, TryDelete
<1>3. manifest'.mtime <= source'
  BY <1>1, <1>2, Numbers DEF NoManifest, IInv, Ages
<1>4. ManifestTruthful'
  BY <1>1, <1>2 DEF IInv, ManifestTruthful, Holds, HasManifest
<1>5. QED BY <1>3, <1>4

LEMMA BeginInv ==
  ASSUME TypeOK, IInv, NEW r \in BOOLEAN, NEW cs \in ChunkSizes, Begin(r, cs)
  PROVE  IInv'
<1> USE DEF Enter
<1>1. CASE Refuse(r, cs)
  BY <1>1, ReturnInv DEF Refuse
<1>2. CASE OpenFails(r, cs) \/ Panic(r, cs)
  <2>1. Load(r, cs) /\ KeepOrRestart(r) /\ main' = "returned" /\ result' # "ok"
    BY <1>2 DEF OpenFails, Panic, Load
  <2>2. ManifestTruthful' /\ Ages'
    BY <2>1, LeftOnDisk DEF Ages, Running
  <2>3. QED
    BY <2>1, <2>2 DEF IInv, Claims, Accounted, Drains, SuccessUnlessFailed, Running
<1>3. CASE NothingLeft(r, cs)
  <2>1. Load(r, cs) /\ TryDelete /\ main' = "returned"
    BY <1>3 DEF NothingLeft, Load
  <2>2. ManifestTruthful' /\ Ages'
    BY <2>1, LeftOnDisk DEF Ages, Running
  <2>3. SuccessUnlessFailed'
    <3> SUFFICES ASSUME Intact', NEW u \in Units PROVE dest'[u] >= memory'.mtime
      BY DEF SuccessUnlessFailed, Whole
    <3>1. ChunkOf(u, cs) \in memory'.chunks
      BY <1>3 DEF NothingLeft, Pending, Load, Indices
    <3>2. QED BY <2>1, <3>1, BaseHolds
  <2>4. QED BY <2>1, <2>2, <2>3 DEF IInv, Claims, Accounted, Drains, Running
<1>4. CASE Spawn(r, cs)
  <2>1. /\ Load(r, cs) /\ KeepOrRestart(r)
        /\ Running' /\ main' = "loop" /\ result' = "none" /\ chunkSize' = cs
        /\ pc' = [w \in Workers |-> "take"]
        /\ manifestCh' = <<>>
        /\ memory' = Base(r, cs) /\ queue' = Pending(Base(r, cs), cs)
    BY <1>4 DEF Spawn, Load, Running
  <2>2. memory'.mtime = source /\ source' = source
    BY <2>1, BaseHolds
  <2>3. ManifestTruthful' /\ manifest'.mtime <= source'
    BY <2>1, LeftOnDisk
  <2>4. Ages'
    BY <2>1, <2>2, <2>3, Numbers DEF Ages
  <2>5. Reported' = {}
    BY <2>1 DEF Reported, ToSet
  <2>6. Claims'
    <3>1. Claimed' = memory'.chunks
      BY <2>1, <2>5 DEF Claimed
    <3>2. QED BY <2>1, <3>1, BaseHolds DEF Claims
  <2>7. Accounted'
    BY <2>1 DEF Accounted, Pending
  <2>8. Drains' /\ SuccessUnlessFailed'
    BY <2>1 DEF Drains, SuccessUnlessFailed
  <2>9. QED BY <2>3, <2>4, <2>6, <2>7, <2>8 DEF IInv
<1>5. QED BY <1>1, <1>2, <1>3, <1>4 DEF Begin

LEMMA Inductive == Spec => []IInv
<1>1. TypeOK /\ IInv /\ [Next]_vars => IInv'
  <2> SUFFICES ASSUME TypeOK, IInv, [Next]_vars PROVE IInv'
    OBVIOUS
  <2>1. CASE UNCHANGED vars
    BY <2>1 DEF vars, durable, call, pool, IInv, Ages, ManifestTruthful, Claims, Accounted,
       Drains, SuccessUnlessFailed, Running, Intact, HasManifest, Holds, Claimed, Held,
       Reported, Failures, Whole
  <2>2. CASE Next
    BY <2>2, BeginInv, WorkerInv, MainInv, AroundInv DEF Next
  <2>3. QED BY <2>1, <2>2
<1>2. QED BY InitInv, TypeCorrect, <1>1, PTL DEF Spec

\* The manifest on disk never claims a chunk the destination has not got, for any
\* file size, workers, failures, cancellations and crashes.
THEOREM Truthful == Spec => []ManifestTruthful
BY Inductive, PTL DEF IInv

\* A call that returns nil with no failed worker has transferred the whole file.
THEOREM Success == Spec => []SuccessUnlessFailed
BY Inductive, PTL DEF IInv

-----------------------------------------------------------------------------
\* During a resumed call the disk knows no chunk the main goroutine does not.
Remembers == Running /\ resume => manifest.chunks \subseteq memory.chunks

LEMMA RemembersStep ==
  ASSUME TypeOK, Remembers, Next
  PROVE  Remembers' /\ KeepsRecord
<1> USE DEF durable, call, pool, Running
<1>1. ASSUME NEW r \in BOOLEAN, NEW cs \in ChunkSizes, Begin(r, cs)
      PROVE  Remembers' /\ KeepsRecord
  <2>1. r \in BOOLEAN /\ (resume' => r) /\ (r => resume')
    BY <1>1 DEF Begin, Refuse, NothingLeft, OpenFails, Panic, Spawn, Load, Enter
  <2>2. CASE Refuse(r, cs)
    BY <2>2 DEF Refuse, Enter, Remembers, KeepsRecord
  <2>3. CASE NothingLeft(r, cs)
    BY <2>3 DEF NothingLeft, Load, Enter, TryDelete, Remembers, KeepsRecord
  <2>4. CASE OpenFails(r, cs) \/ Panic(r, cs)
    BY <2>1, <2>4
    DEF OpenFails, Panic, Load, Enter, KeepOrRestart, Remembers, KeepsRecord
  <2>5. CASE Spawn(r, cs)
    <3>1. r => manifest' = manifest
      BY <2>5 DEF Spawn, KeepOrRestart
    <3>2. r => manifest.chunks \subseteq memory'.chunks
      BY <2>5 DEF Spawn, Load, Base, HasManifest, NoManifest, FreshManifest
    <3>3. QED BY <2>1, <3>1, <3>2 DEF Remembers, KeepsRecord
  <2>6. QED BY <1>1, <2>2, <2>3, <2>4, <2>5 DEF Begin
<1>2. ASSUME NEW w \in Workers, Worker(w) PROVE Remembers' /\ KeepsRecord
  BY <1>2, WorkerKeeps DEF Remembers, KeepsRecord
<1>3. CASE Main
  <2>1. CASE Record
    <3>1. memory.chunks \subseteq memory'.chunks
      BY <2>1, ManifestTypes DEF Record, Manifests
    <3>2. QED BY <2>1, <3>1 DEF Record, Saved, Return, Remembers, KeepsRecord
  <2>2. CASE OnDone
    <3>1. memory.chunks \subseteq memory'.chunks
      BY <2>2, ManifestTypes DEF OnDone, Manifests
    <3>2. QED BY <2>2, <3>1 DEF OnDone, Saved, Return, Remembers, KeepsRecord
  <2>3. CASE Delete
    BY <2>3 DEF Delete, TryDelete, Return, Remembers, KeepsRecord
  <2>4. CASE OnCancelled \/ OnWorkerErr \/ DonePanics
    BY <2>4 DEF OnCancelled, OnWorkerErr, DonePanics, Return, Remembers, KeepsRecord
  <2>5. QED BY <1>3, <2>1, <2>2, <2>3, <2>4 DEF Main
<1>4. CASE Cancel \/ Crash \/ Touch \/ LoseDest
  BY <1>4 DEF Cancel, Crash, Touch, LoseDest, Return, Remembers, KeepsRecord
<1>5. QED BY <1>1, <1>2, <1>3, <1>4 DEF Next

\* With Resume set, what has been recorded stays recorded until a call succeeds.
THEOREM RecordKept == Spec => NothingRecordedIsLost
<1>1. Init => Remembers
  BY DEF Init, Remembers, Running
<1>2. TypeOK /\ Remembers /\ [Next]_vars => Remembers' /\ [KeepsRecord]_vars
  <2> SUFFICES ASSUME TypeOK, Remembers, [Next]_vars PROVE Remembers' /\ [KeepsRecord]_vars
    OBVIOUS
  <2>1. CASE UNCHANGED vars
    BY <2>1 DEF vars, durable, call, Remembers, Running
  <2>2. CASE Next
    BY <2>2, RemembersStep
  <2>3. QED BY <2>1, <2>2
<1>3. QED BY <1>1, <1>2, TypeCorrect, PTL DEF Spec, NothingRecordedIsLost

-----------------------------------------------------------------------------
\* The bytes reported are the units of some set of chunks, each counted once: a chunk is
\* counted when it is written, and no two workers have the same chunk to write.

LEMMA CoveredBound ==
  ASSUME NEW chunks, NEW cs
  PROVE  /\ IsFiniteSet(Covered(chunks, cs)) /\ Covered(chunks, cs) \subseteq Units
         /\ Cardinality(Covered(chunks, cs)) \in Nat
         /\ Cardinality(Covered(chunks, cs)) <= TotalSize
<1>1. IsFiniteSet(Units) /\ Cardinality(Units) = TotalSize
  BY UnitsCount
<1>2. Covered(chunks, cs) \subseteq Units
  BY DEF Covered
<1>3. IsFiniteSet(Covered(chunks, cs)) /\ Cardinality(Covered(chunks, cs)) <= Cardinality(Units)
  BY <1>1, <1>2, FS_Subset
<1>4. QED BY <1>1, <1>2, <1>3, CoveredSize

\* All the chunks of the plan are the whole file.
LEMMA CoveredAll ==
  ASSUME NEW chunks, NEW cs, Indices(cs) \subseteq chunks
  PROVE  Cardinality(Covered(chunks, cs)) = TotalSize
<1>1. Covered(chunks, cs) = Units
  BY DEF Covered, Indices
<1>2. QED BY <1>1, UnitsCount

LEMMA CoveredMore ==
  ASSUME NEW chunks, NEW i, i \notin chunks, NEW cs
  PROVE  Cardinality(Covered(chunks \cup {i}, cs))
           = Cardinality(Covered(chunks, cs)) + Cardinality(Covered({i}, cs))
<1>1. /\ Covered(chunks \cup {i}, cs) = Covered(chunks, cs) \cup Covered({i}, cs)
      /\ Covered(chunks, cs) \cap Covered({i}, cs) = {}
  BY DEF Covered
<1>2. IsFiniteSet(Covered(chunks, cs)) /\ IsFiniteSet(Covered({i}, cs))
  BY CoveredBound
<1>3. Cardinality(Covered(chunks, cs) \cup Covered({i}, cs))
        = Cardinality(Covered(chunks, cs)) + Cardinality(Covered({i}, cs)) - Cardinality({})
  BY <1>1, <1>2, FS_Union
<1>4. Cardinality({}) = 0
  BY FS_EmptySet
<1>5. /\ Cardinality(Covered(chunks, cs)) \in Nat /\ Cardinality(Covered({i}, cs)) \in Nat
      /\ Cardinality(Covered(chunks \cup {i}, cs))
           = Cardinality(Covered(chunks, cs)) + Cardinality(Covered({i}, cs)) - 0
  BY <1>1, <1>3, <1>4, CoveredSize
<1>6. QED BY <1>5

Writing == {w \in Workers : pc[w] = "write"}
Counted(chunks) ==
  /\ bytesSent = Cardinality(Covered(chunks, chunkSize))
  /\ chunks \cap queue = {}
  /\ \A w \in Writing : job[w] \notin chunks \cup queue
  /\ \A v, w \in Writing : job[v] = job[w] => v = w
  /\ Failures = {} => Indices(chunkSize) \subseteq chunks \cup queue \cup {job[w] : w \in Writing}

ProgressInv ==
  /\ ProgressHonest
  /\ Running => \E chunks \in SUBSET Nat : Counted(chunks)
  /\ main = "delete" => Finished = Workers

LEMMA InitProgress == Init => ProgressInv
BY TransferAssumption DEF Init, ProgressInv, ProgressHonest, Running

LEMMA BeginProgress ==
  ASSUME TypeOK, ProgressInv, NEW r \in BOOLEAN, NEW cs \in ChunkSizes, Begin(r, cs)
  PROVE  ProgressInv'
<1>1. CASE Refuse(r, cs) \/ OpenFails(r, cs) \/ Panic(r, cs)
  BY <1>1 DEF Refuse, OpenFails, Panic, Load, Enter, ProgressInv, ProgressHonest, Running
<1>2. CASE NothingLeft(r, cs)
  BY <1>2, TransferAssumption DEF NothingLeft, Load, Enter, ProgressInv, ProgressHonest, Running
<1>3. CASE Spawn(r, cs)
  <2> PICK S : S = Base(r, cs).chunks
    OBVIOUS
  <2>1. /\ queue' = Pending(Base(r, cs), cs) /\ pc' = [w \in Workers |-> "take"]
        /\ chunkSize' = cs /\ bytesSent' = Cardinality(Covered(S, cs))
        /\ main' = "loop" /\ result' = "none"
    BY <1>3 DEF Spawn, Load, Enter
  <2>2. Writing' = {}
    BY <2>1 DEF Writing
  <2>3. Counted(S)'
    BY <2>1, <2>2 DEF Counted, Pending
  <2>4. S \in SUBSET Nat
    BY BaseType DEF Manifests
  <2>5. bytesSent' <= TotalSize
    BY <2>1, CoveredBound
  <2>6. QED BY <2>1, <2>3, <2>4, <2>5 DEF ProgressInv, ProgressHonest, Running
<1>4. QED BY <1>1, <1>2, <1>3 DEF Begin

\* The step of a worker whose call runs on.
LEMMA WorkerCounts ==
  ASSUME TypeOK, NEW w \in Workers, Worker(w), NEW S \in SUBSET Nat, Counted(S)
  PROVE  \E T \in SUBSET Nat : Counted(T)'
<1> USE DEF GoTo
<1>1. chunkSize' = chunkSize /\ chunkSize \in ChunkSizes /\ Indices(chunkSize) \subseteq Nat
  BY WorkerKeeps, IndexNat DEF TypeOK, call
<1>2. CASE Exit(w) \/ Notify(w)
  <2>1. Writing' = Writing /\ Failures' = Failures /\ UNCHANGED <<bytesSent, queue, job>>
    BY <1>2 DEF Exit, Notify, Writing, Failures, TypeOK
  <2>2. Counted(S)'
    BY <1>1, <2>1 DEF Counted
  <2>3. QED BY <2>2
<1>3. CASE TakeFails(w) \/ WriteFails(w) \/ NotifyCancelled(w)
  <2>1. /\ Writing' \subseteq Writing /\ Failures' # {} /\ UNCHANGED <<bytesSent, job>>
        /\ queue' \subseteq queue
    BY <1>3 DEF TakeFails, WriteFails, NotifyCancelled, Receive, Writing, Failures, TypeOK
  <2>2. QED BY <1>1, <2>1 DEF Counted
<1>4. CASE Take(w)
  <2>1. PICK i \in queue : Receive(i) /\ job' = [job EXCEPT ![w] = i]
    BY <1>4 DEF Take
  <2>2. /\ Writing' = Writing \cup {w} /\ w \notin Writing /\ Failures' = Failures
        /\ bytesSent' = bytesSent /\ queue' = queue \ {i} /\ job'[w] = i
        /\ \A v \in Writing : job'[v] = job[v]
    BY <1>4, <2>1 DEF Take, Receive, Writing, Failures, TypeOK
  <2>3. \A v \in Writing : job[v] # i
    BY DEF Counted
  <2>4. \A v \in Writing' : job'[v] \notin S \cup queue'
    BY <2>2 DEF Counted
  <2>5. \A u, v \in Writing' : job'[u] = job'[v] => u = v
    BY <2>2, <2>3 DEF Counted
  <2>6. {job'[v] : v \in Writing'} = {job[v] : v \in Writing} \cup {i}
    BY <2>2
  <2>7. bytesSent' = Cardinality(Covered(S, chunkSize')) /\ S \cap queue' = {}
    BY <1>1, <2>2 DEF Counted
  <2>8. ASSUME Failures' = {}
        PROVE  Indices(chunkSize') \subseteq S \cup queue' \cup {job'[v] : v \in Writing'}
    BY <1>1, <2>2, <2>6, <2>8 DEF Counted
  <2>9. Counted(S)'
    BY <2>4, <2>5, <2>7, <2>8 DEF Counted
  <2>10. QED BY <2>9
<1>5. CASE Write(w)
  <2> PICK T : T = S \cup {job[w]}
    OBVIOUS
  <2>1. /\ w \in Writing /\ Writing' = Writing \ {w} /\ Failures' = Failures
        /\ UNCHANGED <<queue, job>> /\ job[w] \in Nat
        /\ bytesSent' = bytesSent + Cardinality(Covered({job[w]}, chunkSize))
    BY <1>5 DEF Write, Span, Writing, Failures, TypeOK
  <2>2. job[w] \notin S \cup queue
    BY <2>1 DEF Counted
  <2>3. bytesSent' = Cardinality(Covered(T, chunkSize))
    BY <2>1, <2>2, CoveredMore DEF Counted
  <2>4. T \in SUBSET Nat /\ T \cap queue = {}
    BY <2>1, <2>2 DEF Counted
  <2>5. \A v \in Writing' : job[v] \notin T \cup queue
    BY <2>1 DEF Counted
  <2>6. Failures = {} => Indices(chunkSize) \subseteq T \cup queue \cup {job[v] : v \in Writing'}
    BY <2>1 DEF Counted
  <2>7. Counted(T)'
    BY <1>1, <2>1, <2>3, <2>4, <2>5, <2>6 DEF Counted
  <2>8. QED BY <2>4, <2>7
<1>6. QED BY <1>2, <1>3, <1>4, <1>5 DEF Worker

LEMMA WorkerProgress ==
  ASSUME TypeOK, IInv, ProgressInv, NEW w \in Workers, Worker(w)
  PROVE  ProgressInv'
<1>1. UNCHANGED <<main, result, chunkSize>>
  BY WorkerKeeps DEF call
<1>2. main # "delete"
  BY DEF ProgressInv, Finished, Worker, Exit, TakeFails, Take, Write, WriteFails, Notify,
     NotifyCancelled
<1>3. CASE Running
  <2>1. PICK S \in SUBSET Nat : Counted(S)
    BY <1>3 DEF ProgressInv
  <2>2. PICK T \in SUBSET Nat : Counted(T)'
    BY <2>1, WorkerCounts
  <2>3. bytesSent' <= TotalSize
    BY <2>2, CoveredBound DEF Counted
  <2>4. result' = "none"
    BY <1>1, <1>3 DEF IInv, Drains
  <2>5. QED BY <1>1, <1>2, <2>2, <2>3, <2>4 DEF ProgressInv, ProgressHonest
<1>4. CASE ~Running
  <2>1. bytesSent' = bytesSent /\ ~Running'
    BY <1>1, <1>4
    DEF Running, Worker, Exit, TakeFails, Take, Write, WriteFails, Notify, NotifyCancelled
  <2>2. Failures' = {} => Failures = {}
    BY FailuresStay
  <2>3. QED BY <1>1, <1>2, <2>1, <2>2 DEF ProgressInv, ProgressHonest
<1>5. QED BY <1>3, <1>4

\* With every worker gone and none failed, all is counted.
LEMMA AllCounted ==
  ASSUME TypeOK, IInv, ProgressInv, Running, Finished = Workers, Failures = {}
  PROVE  bytesSent = TotalSize
<1>1. PICK S \in SUBSET Nat : Counted(S)
  BY DEF ProgressInv
<1>2. Writing = {} /\ \A w \in Workers : pc[w] = "exited"
  BY DEF Finished, Failures, Writing
<1>3. queue = {}
  BY <1>2, TransferAssumption DEF IInv, Drains
<1>4. Indices(chunkSize) \subseteq S
  BY <1>1, <1>2, <1>3 DEF Counted
<1>5. QED BY <1>1, <1>4, CoveredAll DEF Counted

LEMMA MainProgress ==
  ASSUME TypeOK, IInv, ProgressInv, Main
  PROVE  ProgressInv'
<1> USE DEF durable, call, pool, Return
<1>1. /\ UNCHANGED <<bytesSent, queue, pc, job, chunkSize>>
      /\ Writing' = Writing /\ Failures' = Failures /\ Finished' = Finished
  BY DEF Main, Record, OnCancelled, OnWorkerErr, OnDone, DonePanics, Delete, Writing, Failures, Finished
<1>2. ASSUME NEW S \in SUBSET Nat PROVE Counted(S)' = Counted(S)
  BY <1>1 DEF Counted
<1>3. Running /\ result = "none"
  BY DEF Main, Record, OnCancelled, OnWorkerErr, OnDone, DonePanics, Delete, Running, IInv, Drains
<1>4. main' = "delete" => Finished = Workers
  BY DEF Main, Record, OnCancelled, OnWorkerErr, OnDone, DonePanics, Delete, ProgressInv
<1>5. result' = "ok" => Finished = Workers
  BY <1>3 DEF Main, Record, OnCancelled, OnWorkerErr, OnDone, DonePanics, Delete, ProgressInv
<1>6. result' = "ok" /\ Failures' = {} => bytesSent' = TotalSize
  BY <1>1, <1>3, <1>5, AllCounted
<1>7. QED BY <1>1, <1>2, <1>3, <1>4, <1>6 DEF ProgressInv, ProgressHonest

LEMMA AroundProgress ==
  ASSUME TypeOK, ProgressInv, Cancel \/ Crash \/ Touch \/ LoseDest
  PROVE  ProgressInv'
<1> USE DEF durable, call, pool, Return
<1>1. CASE Crash
  BY <1>1 DEF Crash, ProgressInv, ProgressHonest, Running
<1>2. CASE Cancel \/ Touch \/ LoseDest
  <2>1. UNCHANGED <<main, result, bytesSent, queue, pc, job, chunkSize>>
    BY <1>2 DEF Cancel, Touch, LoseDest
  <2>2. QED BY <2>1 DEF ProgressInv, ProgressHonest, Running, Counted, Writing, Failures, Finished
<1>3. QED BY <1>1, <1>2

\* What is reported as transferred never exceeds the file, over all attempts with one ID, and
\* is the whole file when a call returns nil with none of its workers failed.
THEOREM Progress == Spec => []ProgressHonest
<1>1. TypeOK /\ IInv /\ ProgressInv /\ [Next]_vars => ProgressInv'
  <2> SUFFICES ASSUME TypeOK, IInv, ProgressInv, [Next]_vars PROVE ProgressInv'
    OBVIOUS
  <2>1. CASE UNCHANGED vars
    BY <2>1 DEF vars, durable, call, pool, ProgressInv, ProgressHonest, Running, Counted,
       Writing, Failures, Finished
  <2>2. CASE Next
    BY <2>2, BeginProgress, WorkerProgress, MainProgress, AroundProgress DEF Next
  <2>3. QED BY <2>1, <2>2
<1>2. ProgressInv => ProgressHonest
  BY DEF ProgressInv
<1>3. QED BY InitProgress, TypeCorrect, Inductive, <1>1, <1>2, PTL DEF Spec
=============================================================================
