----------------------------- MODULE Remote_proofs -----------------------------
(***************************************************************************)
(* The parts that work over a session's connection, for any value of their *)
(* constants: transfer jobs, SFTP clients, the chain of jump hosts, the    *)
(* SSH connector and tunnels; and all of them side by side, with the paged *)
(* listing, which has a module of proofs of its own.                       *)
(***************************************************************************)
EXTENDS MCRemote, PageCache_proofs

(***************************************************************************)
(* Transfer jobs.                                                          *)
(***************************************************************************)
JobEntry == [id : TransferIDs, state : FinalStates \cup {"running"}, cancelled : BOOLEAN]

\* What the front end is told: progress, or a state.
Said == {"progress", "running"} \cup FinalStates

JobShape ==
  /\ entries \in Seq(JobEntry) /\ jobPC \in Seq({"work", "emit", "done"}) /\ told \in Seq(Seq(Said))
  /\ Len(jobPC) = Len(entries) /\ Len(told) = Len(entries)
  /\ jobs \in [TransferIDs -> 0 .. Len(entries)]

\* Work that runs is registered under its ID and not final; what has returned is final.
Registered == \A e \in JobNumbers :
  /\ jobPC[e] = "work" => entries[e].state = "running" /\ jobs[entries[e].id] = e
  /\ jobPC[e] # "work" => entries[e].state \in FinalStates

\* Before the final event only progress was told, and after it nothing.
ToldInOrder == \A e \in JobNumbers : \A i \in 1 .. Len(told[e]) :
  /\ jobPC[e] # "done" => told[e][i] = "progress"
  /\ told[e][i] # "progress" => i = Len(told[e]) /\ told[e][i] = entries[e].state

JobInv == JobShape /\ Registered /\ ToldInOrder

LEMMA JobInitInv == JobInit => JobInv
BY DEF JobInit, JobInv, JobShape, Registered, ToldInOrder, JobNumbers, NoJob

LEMMA JobNumbersAre == ASSUME JobShape PROVE JobNumbers = 1 .. Len(entries) /\ Len(entries) \in Nat
BY DEF JobShape, JobNumbers

LEMMA EntryTypes ==
  ASSUME JobShape, NEW e \in JobNumbers
  PROVE  /\ entries[e] \in JobEntry /\ entries[e].id \in TransferIDs /\ entries[e].state \in Said
         /\ e # 0 /\ told[e] \in Seq(Said) /\ Len(told[e]) \in Nat
<1>1. entries[e] \in JobEntry /\ e # 0 /\ told[e] \in Seq(Said)
  BY JobNumbersAre DEF JobShape
<1> QED
  BY <1>1 DEF JobEntry, Said

LEMMA ClassifyFinal == ASSUME NEW o, NEW c PROVE Classify(o, c) \in FinalStates /\ Classify(o, c) # "running"
BY DEF Classify, FinalStates

LEMMA JobStartInv == ASSUME JobInv, NEW id \in TransferIDs, JobStart(id) PROVE JobInv'
<1> DEFINE n == Len(entries) + 1
            new == [id |-> id, state |-> "running", cancelled |-> FALSE]
<1>1. /\ jobs[id] = NoJob /\ jobs' = [jobs EXCEPT ![id] = n] /\ entries' = Append(entries, new)
      /\ jobPC' = Append(jobPC, "work") /\ told' = Append(told, <<>>)
  BY DEF JobStart, NewEntry
<1>2. new \in JobEntry /\ new.id = id /\ new.state = "running"
  BY DEF JobEntry
<1> HIDE DEF new
<1>3. /\ Len(entries') = n /\ n \in Nat /\ n # 0 /\ JobNumbers' = 1 .. n
      /\ entries'[n] = new /\ jobPC'[n] = "work" /\ told'[n] = <<>>
      /\ \A e \in JobNumbers : entries'[e] = entries[e] /\ jobPC'[e] = jobPC[e] /\ told'[e] = told[e]
  BY <1>1, <1>2 DEF JobInv, JobShape, JobNumbers
<1>4. JobShape'
  <2>1. entries' \in Seq(JobEntry) /\ jobPC' \in Seq({"work", "emit", "done"})
    BY <1>1, <1>2 DEF JobInv, JobShape
  <2>2. told' \in Seq(Seq(Said)) /\ Len(jobPC') = Len(entries') /\ Len(told') = Len(entries')
    BY <1>1, <1>2 DEF JobInv, JobShape
  <2>3. jobs' \in [TransferIDs -> 0 .. Len(entries')]
    BY <1>1, <1>3 DEF JobInv, JobShape
  <2> QED
    BY <2>1, <2>2, <2>3 DEF JobShape
<1>5. \A e \in JobNumbers' : e = n \/ e \in JobNumbers
  BY <1>3, JobNumbersAre DEF JobInv
<1>6. Registered'
  <2> SUFFICES ASSUME NEW e \in JobNumbers'
               PROVE  /\ jobPC'[e] = "work" => entries'[e].state = "running" /\ jobs'[entries'[e].id] = e
                      /\ jobPC'[e] # "work" => entries'[e].state \in FinalStates
    BY DEF Registered
  <2>1. CASE e = n
    BY <1>1, <1>2, <1>3, <2>1 DEF JobInv, JobShape
  <2>2. CASE e \in JobNumbers
    <3>1. entries[e].id \in TransferIDs /\ e # 0
      BY <2>2, EntryTypes DEF JobInv
    <3> QED
      BY <1>1, <1>3, <2>2, <3>1 DEF JobInv, JobShape, Registered, NoJob
  <2> QED
    BY <1>5, <2>1, <2>2
<1>7. ToldInOrder'
  <2> SUFFICES ASSUME NEW e \in JobNumbers', NEW i \in 1 .. Len(told'[e])
               PROVE  /\ jobPC'[e] # "done" => told'[e][i] = "progress"
                      /\ told'[e][i] # "progress" => i = Len(told'[e]) /\ told'[e][i] = entries'[e].state
    BY DEF ToldInOrder
  <2>1. CASE e = n
    BY <1>3, <2>1
  <2>2. CASE e \in JobNumbers
    BY <1>3, <2>2 DEF JobInv, ToldInOrder
  <2> QED
    BY <1>5, <2>1, <2>2
<1> QED
  BY <1>4, <1>6, <1>7 DEF JobInv

LEMMA JobCancelInv == ASSUME JobInv, NEW id \in TransferIDs, JobCancel(id) PROVE JobInv'
<1> DEFINE n == jobs[id]
<1>1. /\ n # NoJob /\ entries' = [entries EXCEPT ![n].cancelled = TRUE] /\ UNCHANGED <<jobs, jobPC, told>>
  BY DEF JobCancel
<1>2. n \in JobNumbers /\ JobNumbers = 1 .. Len(entries)
  BY <1>1, JobNumbersAre DEF JobInv, JobShape, NoJob
<1> HIDE DEF n
<1>3. /\ entries' \in Seq(JobEntry) /\ Len(entries') = Len(entries)
      /\ \A e \in JobNumbers : entries'[e].id = entries[e].id /\ entries'[e].state = entries[e].state
  <2>1. [entries[n] EXCEPT !.cancelled = TRUE] \in JobEntry
    BY <1>2, EntryTypes DEF JobInv, JobEntry
  <2>2. entries' = [entries EXCEPT ![n] = [entries[n] EXCEPT !.cancelled = TRUE]]
    BY <1>1
  <2>3. \A e \in JobNumbers : entries'[e] = IF e = n THEN [entries[n] EXCEPT !.cancelled = TRUE] ELSE entries[e]
    BY <1>2, <2>2 DEF JobInv, JobShape
  <2>4. \A e \in JobNumbers : entries'[e].id = entries[e].id /\ entries'[e].state = entries[e].state
    BY <1>2, <2>3, EntryTypes DEF JobInv, JobEntry
  <2>5. entries' \in Seq(JobEntry) /\ Len(entries') = Len(entries)
    BY <1>2, <2>1, <2>2 DEF JobInv, JobShape
  <2> QED
    BY <2>4, <2>5
<1>4. JobShape' /\ JobNumbers' = JobNumbers
  BY <1>1, <1>3 DEF JobInv, JobShape, JobNumbers
<1> QED
  BY <1>1, <1>3, <1>4 DEF JobInv, Registered, ToldInOrder

LEMMA JobCleanupInv == JobInv /\ JobCleanup => JobInv'
<1> SUFFICES ASSUME JobInv, JobCleanup PROVE JobInv'
  OBVIOUS
<1>1. /\ jobs' = [id \in TransferIDs |-> IF id \in Removable THEN NoJob ELSE jobs[id]]
      /\ UNCHANGED <<entries, jobPC, told>>
  BY DEF JobCleanup
<1>2. JobShape' /\ JobNumbers' = JobNumbers
  BY <1>1 DEF JobInv, JobShape, JobNumbers, NoJob
<1>3. Registered'
  <2> SUFFICES ASSUME NEW e \in JobNumbers, jobPC[e] = "work" PROVE jobs'[entries[e].id] = e
    BY <1>1, <1>2 DEF JobInv, Registered
  <2>1. entries[e].state = "running" /\ jobs[entries[e].id] = e /\ entries[e].id \in TransferIDs
    BY EntryTypes DEF JobInv, Registered
  <2>2. entries[e].id \notin Removable
    BY <2>1 DEF Removable, FinalStates
  <2> QED
    BY <1>1, <2>1, <2>2
<1> QED
  BY <1>1, <1>2, <1>3 DEF JobInv, ToldInOrder

\* The front end is told one more thing of e.
LEMMA ToldMore ==
  ASSUME JobShape, NEW e \in JobNumbers, NEW what \in Said, told' = [told EXCEPT ![e] = Append(@, what)]
  PROVE  /\ told' \in Seq(Seq(Said)) /\ Len(told') = Len(told)
         /\ \A f \in JobNumbers : f # e => told'[f] = told[f]
         /\ Len(told'[e]) = Len(told[e]) + 1 /\ told'[e][Len(told[e]) + 1] = what
         /\ \A i \in 1 .. Len(told[e]) : told'[e][i] = told[e][i]
         /\ Len(told[e]) \in Nat
<1>1. e \in 1 .. Len(told) /\ told[e] \in Seq(Said) /\ JobNumbers = 1 .. Len(told)
  BY JobNumbersAre DEF JobShape
<1>2. told'[e] = Append(told[e], what) /\ \A f \in JobNumbers : f # e => told'[f] = told[f]
  BY <1>1 DEF JobShape
<1>3. told' \in Seq(Seq(Said)) /\ Len(told') = Len(told)
  BY <1>1 DEF JobShape
<1>4. /\ Len(told'[e]) = Len(told[e]) + 1 /\ told'[e][Len(told[e]) + 1] = what
      /\ \A i \in 1 .. Len(told[e]) : told'[e][i] = told[e][i]
      /\ Len(told[e]) \in Nat
  <2> DEFINE t == told[e]
  <2>1. t \in Seq(Said) /\ told'[e] = Append(t, what)
    BY <1>1, <1>2
  <2> HIDE DEF t
  <2>2. /\ Len(Append(t, what)) = Len(t) + 1 /\ Append(t, what)[Len(t) + 1] = what /\ Len(t) \in Nat
        /\ \A i \in 1 .. Len(t) : Append(t, what)[i] = t[i]
    BY <2>1
  <2> QED
    BY <2>1, <2>2 DEF t
<1> QED
  BY <1>2, <1>3, <1>4

LEMMA JobProgressInv == ASSUME JobInv, NEW e \in JobNumbers, JobProgress(e) PROVE JobInv'
<1>1. /\ jobPC[e] = "work" /\ told' = [told EXCEPT ![e] = Append(@, "progress")]
      /\ UNCHANGED <<jobs, entries, jobPC>>
  BY DEF JobProgress
<1>2. /\ told' \in Seq(Seq(Said)) /\ Len(told') = Len(told)
      /\ \A f \in JobNumbers : f # e => told'[f] = told[f]
      /\ Len(told'[e]) = Len(told[e]) + 1 /\ told'[e][Len(told[e]) + 1] = "progress"
      /\ \A i \in 1 .. Len(told[e]) : told'[e][i] = told[e][i]
      /\ Len(told[e]) \in Nat
  <2>1. JobShape /\ "progress" \in Said
    BY DEF JobInv, Said
  <2> QED
    BY <1>1, <2>1, ToldMore
<1>3. JobShape' /\ JobNumbers' = JobNumbers
  BY <1>1, <1>2 DEF JobInv, JobShape, JobNumbers
<1>4. Registered'
  BY <1>1, <1>3 DEF JobInv, Registered
<1>5. \A i \in 1 .. Len(told'[e]) : told'[e][i] = "progress"
  <2> DEFINE n == Len(told[e])
  <2>1. \A i \in 1 .. Len(told[e]) : told[e][i] = "progress"
    BY <1>1 DEF JobInv, ToldInOrder
  <2>2. n \in Nat /\ Len(told'[e]) = n + 1 /\ told'[e][n + 1] = "progress"
        /\ \A i \in 1 .. n : told'[e][i] = "progress"
    BY <1>2, <2>1
  <2> HIDE DEF n
  <2>3. \A i \in 1 .. n + 1 : i = n + 1 \/ i \in 1 .. n
    BY <2>2
  <2> QED
    BY <2>2, <2>3
<1>6. ToldInOrder'
  <2>1. ASSUME NEW f \in JobNumbers, f # e, NEW i \in 1 .. Len(told[f])
        PROVE  /\ jobPC[f] # "done" => told[f][i] = "progress"
               /\ told[f][i] # "progress" => i = Len(told[f]) /\ told[f][i] = entries[f].state
    BY <2>1 DEF JobInv, ToldInOrder
  <2>2. ASSUME NEW f \in JobNumbers, NEW i \in 1 .. Len(told'[f])
        PROVE  /\ jobPC[f] # "done" => told'[f][i] = "progress"
               /\ told'[f][i] # "progress" => i = Len(told'[f]) /\ told'[f][i] = entries[f].state
    <3>1. CASE f = e
      BY <1>5, <2>2, <3>1
    <3>2. CASE f # e
      <4>1. told'[f] = told[f]
        BY <1>2, <3>2
      <4> QED
        BY <2>1, <2>2, <3>2, <4>1
    <3> QED
      BY <3>1, <3>2
  <2> QED
    BY <1>1, <1>3, <2>2 DEF ToldInOrder
<1> QED
  BY <1>3, <1>4, <1>6 DEF JobInv

LEMMA JobReturnInv == ASSUME JobInv, NEW e \in JobNumbers, JobReturn(e) PROVE JobInv'
<1>1. PICK o \in Outcomes(e) : Finalize(e, Classify(o, entries[e].cancelled))
  BY DEF JobReturn
<1> DEFINE s == Classify(o, entries[e].cancelled)
<1>2. s \in FinalStates
  BY ClassifyFinal
<1>3. /\ jobPC[e] = "work" /\ entries' = [entries EXCEPT ![e].state = s]
      /\ jobPC' = [jobPC EXCEPT ![e] = "emit"] /\ UNCHANGED <<jobs, told>>
  BY <1>1 DEF JobReturn, Finalize
<1> HIDE DEF s
<1>4. JobNumbers = 1 .. Len(entries)
  BY JobNumbersAre DEF JobInv
<1>5. /\ entries' \in Seq(JobEntry) /\ Len(entries') = Len(entries) /\ entries'[e].state = s
      /\ \A f \in JobNumbers : f # e => entries'[f] = entries[f]
  <2>1. [entries[e] EXCEPT !.state = s] \in JobEntry /\ [entries[e] EXCEPT !.state = s].state = s
    BY <1>2, EntryTypes DEF JobInv, JobEntry
  <2>2. entries' = [entries EXCEPT ![e] = [entries[e] EXCEPT !.state = s]]
    BY <1>3
  <2> QED
    BY <1>4, <2>1, <2>2 DEF JobInv, JobShape
<1>6. /\ jobPC' \in Seq({"work", "emit", "done"}) /\ Len(jobPC') = Len(jobPC) /\ jobPC'[e] = "emit"
      /\ \A f \in JobNumbers : f # e => jobPC'[f] = jobPC[f]
  BY <1>3, <1>4 DEF JobInv, JobShape
<1>7. JobShape' /\ JobNumbers' = JobNumbers
  BY <1>3, <1>5, <1>6 DEF JobInv, JobShape, JobNumbers
<1>8. Registered'
  BY <1>2, <1>3, <1>5, <1>6, <1>7 DEF JobInv, Registered
<1>9. \A i \in 1 .. Len(told[e]) : told[e][i] = "progress"
  BY <1>3 DEF JobInv, ToldInOrder
<1>10. ToldInOrder'
  BY <1>3, <1>5, <1>6, <1>7, <1>9 DEF JobInv, ToldInOrder
<1> QED
  BY <1>7, <1>8, <1>10 DEF JobInv

LEMMA JobEmitInv == ASSUME JobInv, NEW e \in JobNumbers, JobEmit(e) PROVE JobInv'
<1> DEFINE s == entries[e].state
<1>1. /\ jobPC[e] = "emit" /\ told' = [told EXCEPT ![e] = Append(@, s)]
      /\ jobPC' = [jobPC EXCEPT ![e] = "done"] /\ UNCHANGED <<jobs, entries>>
  BY DEF JobEmit
<1>2. JobNumbers = 1 .. Len(entries) /\ s \in Said
  BY JobNumbersAre, EntryTypes DEF JobInv
<1>3. /\ told' \in Seq(Seq(Said)) /\ Len(told') = Len(told)
      /\ \A f \in JobNumbers : f # e => told'[f] = told[f]
      /\ Len(told'[e]) = Len(told[e]) + 1 /\ told'[e][Len(told[e]) + 1] = s
      /\ \A i \in 1 .. Len(told[e]) : told'[e][i] = told[e][i]
      /\ Len(told[e]) \in Nat
  BY <1>1, <1>2, ToldMore DEF JobInv
<1>4. /\ jobPC' \in Seq({"work", "emit", "done"}) /\ Len(jobPC') = Len(jobPC) /\ jobPC'[e] = "done"
      /\ \A f \in JobNumbers : f # e => jobPC'[f] = jobPC[f]
  BY <1>1, <1>2 DEF JobInv, JobShape
<1>5. JobShape' /\ JobNumbers' = JobNumbers
  BY <1>1, <1>3, <1>4 DEF JobInv, JobShape, JobNumbers
<1>6. Registered'
  BY <1>1, <1>4, <1>5 DEF JobInv, Registered
<1>7. \A i \in 1 .. Len(told'[e]) : told'[e][i] # "progress" => i = Len(told'[e]) /\ told'[e][i] = s
  <2> DEFINE n == Len(told[e])
  <2>1. \A i \in 1 .. Len(told[e]) : told[e][i] = "progress"
    BY <1>1 DEF JobInv, ToldInOrder
  <2>2. n \in Nat /\ Len(told'[e]) = n + 1 /\ told'[e][n + 1] = s
        /\ \A i \in 1 .. n : told'[e][i] = "progress"
    BY <1>3, <2>1
  <2> HIDE DEF n, s
  <2>3. \A i \in 1 .. n + 1 : i = n + 1 \/ i \in 1 .. n
    BY <2>2
  <2> QED
    BY <2>2, <2>3
<1>8. ToldInOrder'
  <2>1. ASSUME NEW f \in JobNumbers, f # e, NEW i \in 1 .. Len(told[f])
        PROVE  /\ jobPC[f] # "done" => told[f][i] = "progress"
               /\ told[f][i] # "progress" => i = Len(told[f]) /\ told[f][i] = entries[f].state
    BY <2>1 DEF JobInv, ToldInOrder
  <2>2. ASSUME NEW f \in JobNumbers, NEW i \in 1 .. Len(told'[f])
        PROVE  /\ jobPC'[f] # "done" => told'[f][i] = "progress"
               /\ told'[f][i] # "progress" => i = Len(told'[f]) /\ told'[f][i] = entries[f].state
    <3>1. CASE f = e
      BY <1>4, <1>7, <2>2, <3>1
    <3>2. CASE f # e
      <4>1. told'[f] = told[f] /\ jobPC'[f] = jobPC[f]
        BY <1>3, <1>4, <3>2
      <4> QED
        BY <2>1, <2>2, <3>2, <4>1
    <3> QED
      BY <3>1, <3>2
  <2> QED
    BY <1>1, <1>5, <2>2 DEF ToldInOrder
<1> QED
  BY <1>5, <1>6, <1>8 DEF JobInv

THEOREM JobInvariant == JobSpec => []JobInv
<1>1. JobInv /\ [JobNext]_jobVars => JobInv'
  <2> SUFFICES ASSUME JobInv, [JobNext]_jobVars PROVE JobInv'
    OBVIOUS
  <2>1. CASE UNCHANGED jobVars
    BY <2>1 DEF jobVars, JobInv, JobShape, Registered, ToldInOrder, JobNumbers
  <2> QED
    BY <2>1, JobStartInv, JobCancelInv, JobCleanupInv, JobProgressInv, JobReturnInv, JobEmitInv DEF JobNext, JobStep
<1> QED
  BY <1>1, JobInitInv, PTL DEF JobSpec

\* No two goroutines work for one transfer ID at a time, so none share a manifest.
THEOREM JobOneRunPerID == JobSpec => []OneRunPerID
<1>1. JobInv => OneRunPerID
  BY DEF JobInv, Registered, OneRunPerID
<1> QED
  BY <1>1, JobInvariant, PTL

\* Each job's one final event comes last and names the state that List shows.
THEOREM JobFinalEventOnce == JobSpec => []FinalEventOnce
<1>1. JobInv => FinalEventOnce
  BY DEF JobInv, ToldInOrder, FinalEventOnce
<1> QED
  BY <1>1, JobInvariant, PTL

(***************************************************************************)
(* SFTP clients.                                                           *)
(***************************************************************************)
SftpClient == [of : SftpSessions, open : BOOLEAN]

SftpShape ==
  /\ clients \in Seq(SftpClient)
  /\ sessionIs \in [SftpSessions -> {"none", "connecting", "established", "down"}]
  /\ managed \subseteq SftpSessions /\ toClose \subseteq swept /\ swept \subseteq SftpSessions
  /\ sftpClients \in [SftpSessions -> 0 .. Len(clients)] /\ toShut \subseteq DOMAIN clients
  /\ sftpPC \in [SftpCallers -> SftpPlaces]
  /\ sftpArg \in [SftpCallers -> SftpSessions] /\ sftpRef \in [SftpCallers -> 0 .. Len(clients)]

\* A session that has been established stays so or is down: nothing opens it again.
Past(s) == sessionIs[s] \in {"established", "down"}

\* Only such a session has clients, cached or not, and calls with one in hand or on the way.
Finds == {"check", "checkState", "drop", "evict"}
ClientsPast ==
  /\ \A s \in SftpSessions : sftpClients[s] # NoClient => Past(s)
  /\ \A n \in DOMAIN clients : Past(clients[n].of)
  /\ \A p \in SftpCallers : sftpPC[p] \in Finds \union {"opening", "insert"} => Past(sftpArg[p])

\* A call about to insert has a client of its own session, one that found a client has it in
\* hand, and one that is to evict it does so to a session that is over or that the manager has
\* forgotten.
InHand == \A p \in SftpCallers :
  /\ sftpPC[p] = "insert" => sftpRef[p] \in DOMAIN clients /\ clients[sftpRef[p]].of = sftpArg[p]
  /\ sftpPC[p] \in Finds => sftpRef[p] # NoClient
  /\ sftpPC[p] = "drop" => sftpArg[p] \notin managed
  /\ sftpPC[p] = "evict" => sessionIs[sftpArg[p]] = "down"

\* What CloseAll took is over but for what it has still to close, which is nothing when it has
\* returned.
SweptEnded ==
  /\ appIs = "up" => swept = {}
  /\ appIs \notin {"up", "sessions"} => toClose = {}
  /\ \A s \in swept \ toClose : sessionIs[s] = "down"

SftpInv == SftpShape /\ ClientsPast /\ InHand /\ SweptEnded /\ NoClientBehindTheMap

LEMMA SftpInitInv == SftpInit => SftpInv
BY DEF SftpInit, SftpInv, SftpShape, SftpPlaces, ClientsPast, InHand, Finds, SweptEnded, NoClientBehindTheMap, NoClient

LEMMA ClientTypes ==
  ASSUME SftpShape, NEW n \in DOMAIN clients
  PROVE  clients[n] \in SftpClient /\ clients[n].of \in SftpSessions /\ n # NoClient
<1>1. clients[n] \in SftpClient /\ n # NoClient
  BY DEF SftpShape, NoClient
<1> QED
  BY <1>1 DEF SftpClient

LEMMA SftpGoShape ==
  ASSUME SftpShape, NEW p \in SftpCallers, NEW from, NEW to \in SftpPlaces, SftpGo(p, from, to)
  PROVE  /\ sftpPC' \in [SftpCallers -> SftpPlaces]
         /\ sftpPC[p] = from /\ sftpPC'[p] = to /\ \A q \in SftpCallers : q # p => sftpPC'[q] = sftpPC[q]
BY DEF SftpShape, SftpGo

\* A step of one call that changes no client and no session.
LEMMA SftpMovedInv ==
  ASSUME SftpInv, NEW p \in SftpCallers, NEW from, NEW to \in SftpPlaces, SftpGo(p, from, to),
         from # "insert", to # "insert", UNCHANGED <<sessVars, sftpClients, clients, toShut, appIs>>,
         sftpArg' \in [SftpCallers -> SftpSessions], sftpRef' \in [SftpCallers -> 0 .. Len(clients)],
         \A q \in SftpCallers : q # p => sftpArg'[q] = sftpArg[q] /\ sftpRef'[q] = sftpRef[q],
         to \in Finds \union {"opening"} => Past(sftpArg'[p]),
         to \in Finds => sftpRef'[p] # NoClient,
         to = "drop" => sftpArg'[p] \notin managed,
         to = "evict" => sessionIs[sftpArg'[p]] = "down"
  PROVE  SftpInv'
<1>1. /\ sftpPC' \in [SftpCallers -> SftpPlaces]
      /\ sftpPC[p] = from /\ sftpPC'[p] = to /\ \A q \in SftpCallers : q # p => sftpPC'[q] = sftpPC[q]
  BY SftpGoShape DEF SftpInv
<1>2. UNCHANGED <<sessionIs, managed, swept, toClose, sftpClients, clients, toShut, appIs>>
  BY DEF sessVars
<1>3. SftpShape' /\ SweptEnded'
  BY <1>1, <1>2 DEF SftpInv, SftpShape, SweptEnded
<1>4. ClientsPast'
  BY <1>1, <1>2 DEF SftpInv, ClientsPast, Past
<1>5. InHand'
  BY <1>1, <1>2 DEF SftpInv, InHand, Finds
<1>6. NoClientBehindTheMap'
  BY <1>1, <1>2 DEF SftpInv, NoClientBehindTheMap, Cached, Established
<1> QED
  BY <1>3, <1>4, <1>5, <1>6 DEF SftpInv

\* The entry of the session goes: the session is over, or the manager has forgotten it and does
\* not open it again.
LEMMA SftpEvictInv == ASSUME SftpInv, NEW p \in SftpCallers, SftpEvict(p) PROVE SftpInv'
<1> DEFINE s == sftpArg[p]
<1>1. /\ s \in SftpSessions /\ sftpClients' = [sftpClients EXCEPT ![s] = NoClient]
      /\ toShut \subseteq toShut' /\ toShut' \subseteq toShut \union {sftpRef[p]}
      /\ UNCHANGED <<sessionIs, managed, swept, toClose, clients, sftpArg, sftpRef, appIs>>
  BY DEF SftpEvict, SftpInv, SftpShape, sessVars
<1>2. PICK from \in {"drop", "evict"} : SftpGo(p, from, "idle")
  BY DEF SftpEvict
<1>3. /\ sftpPC' \in [SftpCallers -> SftpPlaces] /\ sftpPC[p] \in {"drop", "evict"} /\ sftpPC'[p] = "idle"
      /\ \A q \in SftpCallers : q # p => sftpPC'[q] = sftpPC[q]
  BY <1>2, SftpGoShape DEF SftpInv, SftpPlaces
<1>4. s \notin managed \/ sessionIs[s] = "down"
  BY <1>3 DEF SftpInv, InHand
<1>5. sftpRef[p] \in DOMAIN clients
  BY <1>3 DEF SftpInv, SftpShape, InHand, Finds, NoClient
<1> HIDE DEF s
<1>6. SftpShape'
  BY <1>1, <1>3, <1>5 DEF SftpInv, SftpShape, NoClient
<1>7. ClientsPast'
  BY <1>1, <1>3 DEF SftpInv, SftpShape, ClientsPast, Past, Finds
<1>8. InHand' /\ SweptEnded'
  BY <1>1, <1>3 DEF SftpInv, InHand, Finds, SweptEnded
<1>9. NoClientBehindTheMap'
  <2> SUFFICES ASSUME NEW n \in DOMAIN clients, clients[n].of \in managed, sessionIs[clients[n].of] = "established",
                      clients[n].open
               PROVE  \/ sftpClients'[clients[n].of] = n \/ n \in toShut'
                      \/ \E q \in SftpCallers : sftpPC'[q] = "insert" /\ sftpRef[q] = n
    BY <1>1 DEF NoClientBehindTheMap, Cached, Established
  <2>1. clients[n].of # s /\ clients[n].of \in SftpSessions
    BY <1>4, ClientTypes DEF SftpInv
  <2>2. sftpClients[clients[n].of] = n \/ n \in toShut \/ \E q \in SftpCallers : sftpPC[q] = "insert" /\ sftpRef[q] = n
    BY DEF SftpInv, NoClientBehindTheMap, Cached, Established
  <2>3. sftpClients'[clients[n].of] = sftpClients[clients[n].of]
    BY <1>1, <2>1 DEF SftpInv, SftpShape
  <2> QED
    BY <1>1, <1>3, <2>2, <2>3
<1> QED
  BY <1>6, <1>7, <1>8, <1>9 DEF SftpInv

LEMMA SftpOpenInv == ASSUME SftpInv, NEW p \in SftpCallers, SftpOpen(p) PROVE SftpInv'
<1> DEFINE n == Len(clients) + 1
           new == [of |-> sftpArg[p], open |-> TRUE]
<1>1. /\ SftpGo(p, "opening", "insert") /\ clients' = Append(clients, new) /\ sftpRef' = [sftpRef EXCEPT ![p] = n]
      /\ UNCHANGED <<sessionIs, managed, swept, toClose, sftpClients, toShut, sftpArg, appIs>>
  BY DEF SftpOpen, sessVars
<1>2. new \in SftpClient /\ new.of = sftpArg[p]
  BY DEF SftpInv, SftpShape, SftpClient
<1> HIDE DEF new
<1>3. /\ clients' \in Seq(SftpClient) /\ Len(clients') = n /\ n \in Nat /\ n \in DOMAIN clients' /\ clients'[n] = new
      /\ \A m \in DOMAIN clients : clients'[m] = clients[m] /\ m \in DOMAIN clients'
      /\ \A m \in DOMAIN clients' : m = n \/ m \in DOMAIN clients
      /\ 0 .. Len(clients) \subseteq 0 .. n
  BY <1>1, <1>2 DEF SftpInv, SftpShape
<1>4. /\ sftpPC' \in [SftpCallers -> SftpPlaces] /\ sftpPC[p] = "opening" /\ sftpPC'[p] = "insert"
      /\ \A q \in SftpCallers : q # p => sftpPC'[q] = sftpPC[q]
  BY <1>1, SftpGoShape DEF SftpInv, SftpPlaces
<1>5. sftpRef' \in [SftpCallers -> 0 .. n] /\ sftpRef'[p] = n /\ \A q \in SftpCallers : q # p => sftpRef'[q] = sftpRef[q]
  BY <1>1, <1>3 DEF SftpInv, SftpShape
<1> HIDE DEF n
<1>6. SftpShape'
  <2>1. sftpClients' \in [SftpSessions -> 0 .. Len(clients')] /\ toShut' \subseteq DOMAIN clients'
    BY <1>1, <1>3 DEF SftpInv, SftpShape
  <2> QED
    BY <1>1, <1>3, <1>4, <1>5, <2>1 DEF SftpInv, SftpShape
<1>7. Past(sftpArg[p]) /\ ClientsPast'
  <2>1. Past(sftpArg[p])
    BY <1>4 DEF SftpInv, ClientsPast
  <2>2. \A m \in DOMAIN clients' : Past(clients'[m].of)
    BY <1>2, <1>3, <2>1 DEF SftpInv, ClientsPast
  <2>3. \A q \in SftpCallers : sftpPC'[q] \in Finds \union {"opening", "insert"} => Past(sftpArg[q])
    BY <1>4, <2>1 DEF SftpInv, ClientsPast
  <2>4. \A s \in SftpSessions : sftpClients[s] # NoClient => Past(s)
    BY DEF SftpInv, ClientsPast
  <2> QED
    BY <1>1, <2>1, <2>2, <2>3, <2>4 DEF ClientsPast, Past
<1>8. InHand'
  BY <1>1, <1>2, <1>3, <1>4, <1>5 DEF SftpInv, InHand, Finds
<1>9. SweptEnded'
  BY <1>1 DEF SftpInv, SweptEnded
<1>10. NoClientBehindTheMap'
  BY <1>1, <1>3, <1>4, <1>5 DEF SftpInv, NoClientBehindTheMap, Cached, Established
<1> QED
  BY <1>6, <1>7, <1>8, <1>9, <1>10 DEF SftpInv

LEMMA SftpInsertInv == ASSUME SftpInv, NEW p \in SftpCallers, SftpInsert(p) PROVE SftpInv'
<1> DEFINE s == sftpArg[p]
           r == sftpRef[p]
<1>1. SftpGo(p, "insert", "use") /\ UNCHANGED <<sessionIs, managed, swept, toClose, clients, sftpArg, appIs>>
  BY DEF SftpInsert, sessVars
<1>2. /\ sftpPC' \in [SftpCallers -> SftpPlaces] /\ sftpPC[p] = "insert" /\ sftpPC'[p] = "use"
      /\ \A q \in SftpCallers : q # p => sftpPC'[q] = sftpPC[q]
  BY <1>1, SftpGoShape DEF SftpInv, SftpPlaces
<1>3. s \in SftpSessions /\ r \in DOMAIN clients /\ r \in 0 .. Len(clients) /\ clients[r].of = s /\ Past(s)
  BY <1>2 DEF SftpInv, SftpShape, InHand, ClientsPast
<1>4. CASE /\ sftpClients[s] = NoClient
           /\ sftpClients' = [sftpClients EXCEPT ![s] = r] /\ UNCHANGED <<toShut, sftpRef>>
  <2> HIDE DEF s, r
  <2>1. SftpShape' /\ SweptEnded'
    BY <1>1, <1>2, <1>3, <1>4 DEF SftpInv, SftpShape, SweptEnded
  <2>2. ClientsPast'
    BY <1>1, <1>2, <1>3, <1>4 DEF SftpInv, SftpShape, ClientsPast, Past, Finds
  <2>3. InHand'
    BY <1>1, <1>2, <1>4 DEF SftpInv, InHand, Finds
  <2>4. \A m \in DOMAIN clients : m # NoClient /\ clients[m].of \in SftpSessions
    BY ClientTypes DEF SftpInv
  <2>5. NoClientBehindTheMap'
    <3> SUFFICES ASSUME NEW m \in DOMAIN clients, clients[m].of \in managed, sessionIs[clients[m].of] = "established",
                        clients[m].open
                 PROVE  \/ sftpClients'[clients[m].of] = m \/ m \in toShut
                        \/ \E q \in SftpCallers : sftpPC'[q] = "insert" /\ sftpRef[q] = m
      BY <1>1, <1>4 DEF NoClientBehindTheMap, Cached, Established
    <3>1. sftpClients[clients[m].of] = m \/ m \in toShut \/ \E q \in SftpCallers : sftpPC[q] = "insert" /\ sftpRef[q] = m
      BY DEF SftpInv, NoClientBehindTheMap, Cached, Established
    <3>2. CASE m = r
      BY <1>3, <1>4, <3>2 DEF SftpInv, SftpShape
    <3>3. CASE m # r
      BY <1>2, <1>3, <1>4, <2>4, <3>1, <3>3 DEF SftpInv, SftpShape, r
    <3> QED
      BY <3>2, <3>3
  <2> QED
    BY <2>1, <2>2, <2>3, <2>5 DEF SftpInv
<1>5. CASE /\ toShut' = toShut \union {r} /\ sftpRef' = [sftpRef EXCEPT ![p] = sftpClients[s]] /\ UNCHANGED sftpClients
  <2>1. sftpRef' \in [SftpCallers -> 0 .. Len(clients)] /\ \A q \in SftpCallers : q # p => sftpRef'[q] = sftpRef[q]
    BY <1>3, <1>5 DEF SftpInv, SftpShape
  <2>2. SftpShape' /\ SweptEnded'
    BY <1>1, <1>2, <1>3, <1>5, <2>1 DEF SftpInv, SftpShape, SweptEnded
  <2>3. ClientsPast'
    BY <1>1, <1>2, <1>5 DEF SftpInv, ClientsPast, Past, Finds
  <2>4. InHand'
    BY <1>1, <1>2, <2>1 DEF SftpInv, InHand, Finds
  <2>5. NoClientBehindTheMap'
    <3> SUFFICES ASSUME NEW m \in DOMAIN clients, clients[m].of \in managed, sessionIs[clients[m].of] = "established",
                        clients[m].open, m # r
                 PROVE  \/ sftpClients[clients[m].of] = m \/ m \in toShut
                        \/ \E q \in SftpCallers : sftpPC'[q] = "insert" /\ sftpRef'[q] = m
      BY <1>1, <1>5 DEF NoClientBehindTheMap, Cached, Established
    <3> QED
      BY <1>2, <2>1 DEF SftpInv, NoClientBehindTheMap, Cached, Established
  <2> QED
    BY <2>2, <2>3, <2>4, <2>5 DEF SftpInv
<1> QED
  BY <1>4, <1>5 DEF SftpInsert

LEMMA SftpShutInv == ASSUME SftpInv, NEW n \in DOMAIN clients, SftpShut(n) PROVE SftpInv'
<1> DEFINE new == [clients[n] EXCEPT !.open = FALSE]
<1>1. /\ toShut' = toShut \ {n} /\ clients' = [clients EXCEPT ![n] = new]
      /\ UNCHANGED <<sessionIs, managed, swept, toClose, sftpClients, sftpPC, sftpArg, sftpRef, appIs>>
  BY DEF SftpShut, sessVars, callVars
<1>2. new \in SftpClient /\ new.of = clients[n].of /\ ~new.open
  BY ClientTypes DEF SftpInv, SftpClient
<1> HIDE DEF new
<1>3. /\ clients' \in Seq(SftpClient) /\ Len(clients') = Len(clients) /\ DOMAIN clients' = DOMAIN clients
      /\ \A m \in DOMAIN clients : clients'[m].of = clients[m].of /\ (clients'[m].open => m # n /\ clients[m].open)
  BY <1>1, <1>2 DEF SftpInv, SftpShape
<1>4. SftpShape'
  BY <1>1, <1>3 DEF SftpInv, SftpShape
<1>5. ClientsPast'
  BY <1>1, <1>3 DEF SftpInv, ClientsPast, Past
<1>6. InHand' /\ SweptEnded'
  BY <1>1, <1>3 DEF SftpInv, InHand, SweptEnded
<1>7. NoClientBehindTheMap'
  BY <1>1, <1>3 DEF SftpInv, NoClientBehindTheMap, Cached, Established
<1> QED
  BY <1>4, <1>5, <1>6, <1>7 DEF SftpInv

\* A step of the sessions: none that was established is opened again or found again, none is
\* established twice.
LEMMA SessionMovedInv ==
  ASSUME SftpInv, UNCHANGED <<sftpClients, clients, toShut, callVars>>,
         sessionIs' \in [SftpSessions -> {"none", "connecting", "established", "down"}],
         managed' \subseteq SftpSessions, toClose' \subseteq swept', swept' \subseteq SftpSessions, SweptEnded',
         \A s \in SftpSessions : Past(s) =>
           /\ sessionIs'[s] = sessionIs[s] \/ sessionIs'[s] = "down"
           /\ s \in managed' => s \in managed
  PROVE  SftpInv'
<1>1. UNCHANGED <<sftpClients, clients, toShut, sftpPC, sftpArg, sftpRef>>
  BY DEF callVars
<1>2. SftpShape'
  BY <1>1 DEF SftpInv, SftpShape
<1>3. \A n \in DOMAIN clients : clients[n].of \in SftpSessions /\ Past(clients[n].of)
  BY ClientTypes DEF SftpInv, ClientsPast
<1>4. \A p \in SftpCallers : sftpArg[p] \in SftpSessions
  BY DEF SftpInv, SftpShape
<1>5. \A s \in SftpSessions : Past(s) => sessionIs'[s] \in {"established", "down"}
  BY DEF Past
<1>6. ClientsPast'
  BY <1>1, <1>3, <1>4, <1>5 DEF SftpInv, ClientsPast, Past
<1>7. InHand'
  <2>1. \A p \in SftpCallers : sftpPC[p] = "drop" => sftpArg[p] \notin managed'
    BY <1>4 DEF SftpInv, InHand, ClientsPast, Finds
  <2>2. \A p \in SftpCallers : sftpPC[p] = "evict" => sessionIs'[sftpArg[p]] = "down"
    BY <1>4 DEF SftpInv, InHand, ClientsPast, Finds
  <2> QED
    BY <1>1, <2>1, <2>2 DEF SftpInv, InHand
<1>8. NoClientBehindTheMap'
  BY <1>1, <1>3 DEF SftpInv, NoClientBehindTheMap, Cached, Established
<1> QED
  BY <1>2, <1>6, <1>7, <1>8 DEF SftpInv

LEMMA SessionStepsInv ==
  ASSUME SftpInv, NEW s \in SftpSessions,
         SessionOpens(s) \/ SessionEstablished(s) \/ SessionDown(s) \/ SessionForgotten(s) \/ CloseNext(s)
  PROVE  SftpInv'
<1>0. /\ sessionIs \in [SftpSessions -> {"none", "connecting", "established", "down"}]
      /\ managed \subseteq SftpSessions /\ toClose \subseteq swept /\ swept \subseteq SftpSessions
      /\ SweptEnded
  BY DEF SftpInv, SftpShape
<1>1. UNCHANGED <<swept, sftpClients, clients, toShut, callVars, appIs>>
  BY DEF SessionOpens, SessionEstablished, SessionDown, SessionForgotten, CloseNext
<1>2. CASE SessionOpens(s)
  <2>1. /\ sessionIs[s] = "none" /\ sessionIs' = [sessionIs EXCEPT ![s] = "connecting"]
        /\ managed' = managed \union {s} /\ toClose' = toClose
    BY <1>2 DEF SessionOpens
  <2>2. SweptEnded'
    BY <1>0, <1>1, <2>1 DEF SweptEnded
  <2> QED
    BY <1>0, <1>1, <2>1, <2>2, SessionMovedInv DEF Past
<1>3. CASE SessionEstablished(s)
  <2>1. /\ sessionIs[s] = "connecting" /\ sessionIs' = [sessionIs EXCEPT ![s] = "established"]
        /\ UNCHANGED <<managed, toClose>>
    BY <1>3 DEF SessionEstablished
  <2>2. SweptEnded'
    BY <1>0, <1>1, <2>1 DEF SweptEnded
  <2> QED
    BY <1>0, <1>1, <2>1, <2>2, SessionMovedInv DEF Past
<1>4. CASE SessionDown(s)
  <2>1. sessionIs' = [sessionIs EXCEPT ![s] = "down"] /\ UNCHANGED <<managed, toClose>>
    BY <1>4 DEF SessionDown
  <2>2. SweptEnded'
    BY <1>0, <1>1, <2>1 DEF SweptEnded
  <2> QED
    BY <1>0, <1>1, <2>1, <2>2, SessionMovedInv DEF Past
<1>5. CASE SessionForgotten(s)
  <2>1. managed' = managed \ {s} /\ UNCHANGED <<sessionIs, toClose>>
    BY <1>5 DEF SessionForgotten
  <2>2. SweptEnded'
    BY <1>0, <1>1, <2>1 DEF SweptEnded
  <2> QED
    BY <1>0, <1>1, <2>1, <2>2, SessionMovedInv DEF Past
<1>6. CASE CloseNext(s)
  <2>1. sessionIs' = [sessionIs EXCEPT ![s] = "down"] /\ toClose' = toClose \ {s} /\ UNCHANGED managed
    BY <1>6 DEF CloseNext
  <2>2. SweptEnded'
    BY <1>0, <1>1, <2>1 DEF SweptEnded
  <2> QED
    BY <1>0, <1>1, <2>1, <2>2, SessionMovedInv DEF Past
<1> QED
  BY <1>2, <1>3, <1>4, <1>5, <1>6

LEMMA ShutdownInv == SftpInv /\ Shutdown => SftpInv'
<1> SUFFICES ASSUME SftpInv, Shutdown PROVE SftpInv'
  OBVIOUS
<1>0. /\ sessionIs \in [SftpSessions -> {"none", "connecting", "established", "down"}]
      /\ managed \subseteq SftpSessions /\ toClose \subseteq swept /\ swept \subseteq SftpSessions
      /\ SweptEnded
  BY DEF SftpInv, SftpShape
<1>1. CASE CloseAll
  <2>1. /\ appIs' = "sessions" /\ swept' = managed /\ toClose' = managed /\ managed' = {}
        /\ UNCHANGED <<sessionIs, sftpClients, clients, toShut, callVars>>
    BY <1>1 DEF CloseAll
  <2>2. SweptEnded'
    BY <2>1 DEF SweptEnded
  <2> QED
    BY <1>0, <2>1, <2>2, SessionMovedInv
<1>2. CASE CloseAllReturns
  <2>1. /\ appIs = "sessions" /\ appIs' = "clients" /\ toClose = {}
        /\ UNCHANGED <<sessionIs, managed, swept, toClose, sftpClients, clients, toShut, callVars>>
    BY <1>2 DEF CloseAllReturns, sessVars
  <2>2. SweptEnded'
    BY <1>0, <2>1 DEF SweptEnded
  <2> QED
    BY <1>0, <2>1, <2>2, SessionMovedInv
<1>3. CASE CloseClients
  <2>1. /\ appIs = "clients" /\ appIs' = "down"
        /\ toShut' = toShut \union ({sftpClients[s] : s \in SftpSessions} \ {NoClient})
        /\ sftpClients' = [s \in SftpSessions |-> NoClient]
        /\ UNCHANGED <<sessionIs, managed, swept, toClose, clients, sftpPC, sftpArg, sftpRef>>
    BY <1>3 DEF CloseClients, sessVars, callVars
  <2>2. SftpShape'
    <3>1. \A s \in SftpSessions : sftpClients[s] \in 0 .. Len(clients)
      BY DEF SftpInv, SftpShape
    <3>2. DOMAIN clients = 1 .. Len(clients) /\ Len(clients) \in Nat
      BY DEF SftpInv, SftpShape
    <3>3. toShut' \subseteq DOMAIN clients /\ sftpClients' \in [SftpSessions -> 0 .. Len(clients)]
      BY <2>1, <3>1, <3>2 DEF SftpInv, SftpShape, NoClient
    <3> QED
      BY <2>1, <3>3 DEF SftpInv, SftpShape
  <2>3. ClientsPast' /\ InHand' /\ SweptEnded'
    BY <2>1 DEF SftpInv, ClientsPast, Past, InHand, SweptEnded
  <2>4. NoClientBehindTheMap'
    BY <2>1, ClientTypes DEF SftpInv, NoClientBehindTheMap, Cached, Established
  <2> QED
    BY <2>2, <2>3, <2>4 DEF SftpInv
<1> QED
  BY <1>1, <1>2, <1>3 DEF Shutdown

\* A step of a call that only goes on.
LEMMA SftpOnInv ==
  ASSUME SftpInv, NEW p \in SftpCallers, NEW from, NEW to \in SftpPlaces, SftpOn(p, from, to),
         from # "insert", to # "insert",
         to \in Finds => from \in Finds,
         to = "opening" => Past(sftpArg[p]),
         to = "drop" => sftpArg[p] \notin managed,
         to = "evict" => sessionIs[sftpArg[p]] = "down"
  PROVE  SftpInv'
<1>1. SftpGo(p, from, to) /\ sftpPC[p] = from /\ UNCHANGED <<sessVars, sftpClients, clients, toShut, sftpArg, sftpRef, appIs>>
  BY DEF SftpOn, SftpGo
<1>2. sftpArg' \in [SftpCallers -> SftpSessions] /\ sftpRef' \in [SftpCallers -> 0 .. Len(clients)]
  BY <1>1 DEF SftpInv, SftpShape
<1>3. to \in Finds => Past(sftpArg[p]) /\ sftpRef[p] # NoClient
  BY <1>1 DEF SftpInv, ClientsPast, InHand
<1> QED
  BY <1>1, <1>2, <1>3, SftpMovedInv

LEMMA SftpStepInv == SftpInv /\ [SftpNext]_sftpVars => SftpInv'
<1> SUFFICES ASSUME SftpInv, [SftpNext]_sftpVars PROVE SftpInv'
  OBVIOUS
<1>0. /\ sftpArg \in [SftpCallers -> SftpSessions] /\ sftpRef \in [SftpCallers -> 0 .. Len(clients)]
      /\ sftpClients \in [SftpSessions -> 0 .. Len(clients)]
  BY DEF SftpInv, SftpShape
<1>1. ASSUME NEW p \in SftpCallers, NEW s \in SftpSessions, SftpLookup(p, s) PROVE SftpInv'
  <2>1. PICK to \in {"miss", "check"} : SftpGo(p, "idle", to) /\ (to = "check" => sftpClients[s] # NoClient)
    BY <1>1 DEF SftpLookup
  <2>2. UNCHANGED <<sessVars, sftpClients, clients, toShut, appIs>>
    BY <1>1 DEF SftpLookup
  <2>3. /\ sftpArg' \in [SftpCallers -> SftpSessions] /\ sftpRef' \in [SftpCallers -> 0 .. Len(clients)]
        /\ \A q \in SftpCallers : q # p => sftpArg'[q] = sftpArg[q] /\ sftpRef'[q] = sftpRef[q]
        /\ sftpArg'[p] = s /\ sftpRef'[p] = sftpClients[s]
    BY <1>0, <1>1 DEF SftpLookup
  <2>4. to = "check" => Past(s)
    BY <2>1 DEF SftpInv, ClientsPast
  <2>5. to \in Finds => to = "check"
    BY <2>1 DEF Finds
  <2>6. to \in SftpPlaces /\ to \notin {"insert", "opening", "drop", "evict"}
    BY DEF SftpPlaces
  <2> QED
    BY <2>1, <2>2, <2>3, <2>4, <2>5, <2>6, SftpMovedInv
<1>2. ASSUME NEW p \in SftpCallers, SftpGet(p) PROVE SftpInv'
  BY <1>2, SftpOnInv DEF SftpGet, SftpPlaces, Finds
<1>3. ASSUME NEW p \in SftpCallers, SftpGetFails(p) PROVE SftpInv'
  BY <1>3, SftpOnInv DEF SftpGetFails, SftpPlaces, Finds
<1>4. ASSUME NEW p \in SftpCallers, SftpStale(p) PROVE SftpInv'
  <2>1. ~Established(sftpArg[p]) /\ SftpOn(p, "checkState", "evict") /\ sftpPC[p] = "checkState"
    BY <1>4 DEF SftpStale, SftpOn, SftpGo
  <2>2. sessionIs[sftpArg[p]] = "down"
    BY <2>1 DEF SftpInv, ClientsPast, Finds, Past, Established
  <2> QED
    BY <2>1, <2>2, SftpOnInv DEF SftpPlaces, Finds
<1>5. ASSUME NEW p \in SftpCallers, SftpMiss(p) PROVE SftpInv'
  <2>1. PICK to \in {"opening", "idle"} : SftpOn(p, "missState", to) /\ (to = "opening" => Past(sftpArg[p]))
    BY <1>5 DEF SftpMiss, Past, Established
  <2> QED
    BY <2>1, SftpOnInv DEF SftpPlaces, Finds
<1>6. ASSUME NEW p \in SftpCallers, SftpHit(p) \/ SftpOpenFails(p) \/ SftpCheckOpen(p) \/ SftpCall(p) PROVE SftpInv'
  <2>1. PICK from \in {"checkState", "opening", "use", "calling"}, to \in {"use", "idle", "calling", "panic"} :
          SftpOn(p, from, to)
    BY <1>6 DEF SftpHit, SftpOpenFails, SftpCheckOpen, SftpCall
  <2> QED
    BY <2>1, SftpOnInv DEF SftpPlaces, Finds
<1>7. CASE UNCHANGED sftpVars
  BY <1>7 DEF sftpVars, sessVars, callVars, SftpInv, SftpShape, ClientsPast, Past, InHand, SweptEnded,
       NoClientBehindTheMap, Cached, Established
<1> QED
  BY <1>1, <1>2, <1>3, <1>4, <1>5, <1>6, <1>7, SftpEvictInv, SftpOpenInv, SftpInsertInv, SftpShutInv,
     SessionStepsInv, ShutdownInv DEF SftpNext

THEOREM SftpInvariant == SftpSpec => []SftpInv
BY SftpInitInv, SftpStepInv, PTL DEF SftpSpec

\* While a session is established and the manager has it, no open client of it is out of the
\* map's reach, but for one that is about to be inserted or closed.
THEOREM SftpNoClientBehindTheMap == SftpSpec => []NoClientBehindTheMap
<1>1. SftpInv => NoClientBehindTheMap
  BY DEF SftpInv
<1> QED
  BY <1>1, SftpInvariant, PTL

\* Once CloseAll has returned, no call sets out to open a client of a session it took, also one
\* that got the session before the map was swapped.
THEOREM SftpShutdownStopsOpening == SftpSpec => ShutdownStopsOpening
<1>1. SftpInv /\ [SftpNext]_sftpVars =>
        [\A p \in SftpCallers :
           appIs \notin {"up", "sessions"} /\ sftpArg[p] \in swept /\ sftpPC[p] # "opening"
             => sftpPC'[p] # "opening"]_sftpVars
  <2> SUFFICES ASSUME SftpInv, SftpNext, NEW p \in SftpCallers, appIs \notin {"up", "sessions"},
                      sftpArg[p] \in swept, sftpPC[p] # "opening"
               PROVE  sftpPC'[p] # "opening"
    BY DEF SftpInv
  <2>1. ASSUME NEW q \in SftpCallers, NEW from, NEW to, to = "opening" => q # p, SftpGo(q, from, to)
        PROVE  sftpPC'[p] # "opening"
    BY <2>1 DEF SftpInv, SftpShape, SftpGo
  <2>2. CASE UNCHANGED sftpPC
    BY <2>2
  <2>3. ASSUME NEW q \in SftpCallers, SftpMiss(q) PROVE sftpPC'[p] # "opening"
    <3>1. ~Established(sftpArg[p])
      BY DEF SftpInv, SweptEnded, Established
    <3> QED
      BY <2>1, <2>3, <3>1 DEF SftpMiss, SftpOn
  <2>4. ASSUME NEW q \in SftpCallers, NEW s \in SftpSessions, SftpLookup(q, s) PROVE sftpPC'[p] # "opening"
    BY <2>1, <2>4 DEF SftpLookup
  <2>5. ASSUME NEW q \in SftpCallers, SftpGet(q) \/ SftpGetFails(q) \/ SftpHit(q) \/ SftpStale(q)
                                      \/ SftpOpenFails(q) \/ SftpCheckOpen(q) \/ SftpCall(q)
        PROVE sftpPC'[p] # "opening"
    BY <2>1, <2>5 DEF SftpGet, SftpGetFails, SftpHit, SftpStale, SftpOpenFails, SftpCheckOpen, SftpCall, SftpOn
  <2>6. ASSUME NEW q \in SftpCallers, SftpEvict(q) \/ SftpOpen(q) \/ SftpInsert(q) PROVE sftpPC'[p] # "opening"
    BY <2>1, <2>6 DEF SftpEvict, SftpOpen, SftpInsert
  <2>7. ASSUME NEW n \in DOMAIN clients, SftpShut(n) PROVE sftpPC'[p] # "opening"
    BY <2>2, <2>7 DEF SftpShut, callVars
  <2>8. ASSUME NEW s \in SftpSessions,
               SessionOpens(s) \/ SessionEstablished(s) \/ SessionDown(s) \/ SessionForgotten(s) \/ CloseNext(s)
        PROVE  sftpPC'[p] # "opening"
    BY <2>2, <2>8 DEF SessionOpens, SessionEstablished, SessionDown, SessionForgotten, CloseNext, callVars
  <2>9. CASE Shutdown
    BY <2>2, <2>9 DEF Shutdown, CloseAll, CloseAllReturns, CloseClients, callVars
  <2> QED
    BY <2>3, <2>4, <2>5, <2>6, <2>7, <2>8, <2>9 DEF SftpNext
<1> QED
  BY <1>1, SftpInvariant, PTL DEF SftpSpec, ShutdownStopsOpening

(***************************************************************************)
(* The chain of jump hosts, for any number of hops.                        *)
(***************************************************************************)
Stages == {"dial", "register", "forward", "handshake", "built", "failed", "closed"}
ChainRecord == [strategy : Strategies, hops : 0 .. MaxHops, at : Stages]

\* How many clients there are while the build is at each of its steps; a channel is open only
\* during a handshake, and a build that failed has released all it made.
ChainBuilt ==
  /\ chain.at = "dial" => links = <<>>
  /\ chain.at = "register" => Len(links) = 1
  /\ chain.at \in {"forward", "handshake"} => Len(links) \in 1 .. chain.hops
  /\ chain.at \in {"built", "closed"} => Len(links) = chain.hops + 1

HopInv ==
  /\ HopTypeOK /\ chain \in ChainRecord
  /\ ChainBuilt /\ FailedBuildReleases
  /\ channel => chain.at = "handshake"

LEMMA HopInitInv == HopInit => HopInv
<1> SUFFICES ASSUME HopInit PROVE HopInv
  OBVIOUS
<1> PICK s \in Strategies, n \in 0 .. MaxHops : chain = [strategy |-> s, hops |-> n, at |-> "dial"]
  BY DEF HopInit
<1>1. chain \in ChainRecord /\ chain.at = "dial" /\ chain.hops \in Nat
  BY HopAssumption DEF ChainRecord, Stages
<1>2. HopTypeOK
  <2>1. links \in Seq(BOOLEAN) /\ Len(links) = 0
    BY DEF HopInit
  <2>2. channel \in BOOLEAN /\ ctxDone \in BOOLEAN
    BY DEF HopInit
  <2>3. keep \in KeepStates /\ doneChan \in {"none", "unlisted", "listed", "closed"}
    BY DEF HopInit, KeepStates
  <2>4. chain.at \in {"dial", "register", "forward", "handshake", "built", "failed", "closed"}
        /\ Len(links) <= chain.hops + 1
    BY <1>1, <2>1
  <2> QED
    BY <2>1, <2>2, <2>3, <2>4 DEF HopTypeOK
<1>3. ChainBuilt /\ FailedBuildReleases /\ (channel => chain.at = "handshake")
  BY <1>1 DEF HopInit, ChainBuilt, FailedBuildReleases
<1> QED
  BY <1>1, <1>2, <1>3 DEF HopInv

LEMMA CutLinks ==
  ASSUME HopInv, NEW k \in Nat
  PROVE  Cut(k) \in Seq(BOOLEAN) /\ Len(Cut(k)) = Len(links) /\ \A i \in DOMAIN links : i >= k => ~Cut(k)[i]
<1>1. links \in Seq(BOOLEAN) /\ DOMAIN links = 1 .. Len(links) /\ Len(links) \in Nat
  BY DEF HopInv, HopTypeOK
<1> DEFINE c == [i \in 1 .. Len(links) |-> IF i >= k THEN FALSE ELSE links[i]]
<1>2. Cut(k) = c
  BY <1>1 DEF Cut
<1>3. ASSUME NEW i \in 1 .. Len(links) PROVE c[i] \in BOOLEAN /\ (i >= k => ~c[i])
  <2>1. CASE i >= k
    BY <1>1, <2>1
  <2>2. CASE ~(i >= k)
    BY <1>1, <2>2
  <2> QED
    BY <2>1, <2>2
<1>4. c = [i \in 1 .. Len(links) |-> c[i]]
  OBVIOUS
<1> HIDE DEF c
<1>5. c \in Seq(BOOLEAN) /\ Len(c) = Len(links)
  BY <1>1, <1>3, <1>4
<1> QED
  BY <1>1, <1>2, <1>3, <1>5

LEMMA HopMoves ==
  ASSUME HopInv, NEW from, NEW to \in Stages,
         ChainGo(from, to)
  PROVE  /\ chain.at = from /\ chain'.at = to /\ chain'.hops = chain.hops /\ chain.hops \in Nat
         /\ chain' \in ChainRecord
BY HopAssumption DEF HopInv, ChainGo, ChainRecord

LEMMA HopStepInv == HopInv /\ [HopNext]_hopVars => HopInv'
<1> SUFFICES ASSUME HopInv, [HopNext]_hopVars PROVE HopInv'
  OBVIOUS
<1>1. CASE HopDial
  <2>1. chain.at = "dial" /\ chain'.at = "register" /\ chain'.hops = chain.hops /\ chain.hops \in Nat
        /\ chain' \in ChainRecord
    BY <1>1, HopMoves DEF Stages, HopDial
  <2> QED
    BY <1>1, <2>1 DEF HopDial, HopInv, HopTypeOK, ChainBuilt, FailedBuildReleases, KeepStates
<1>2. CASE HopDialFails
  <2>1. chain.at = "dial" /\ chain'.at = "failed" /\ chain'.hops = chain.hops /\ chain.hops \in Nat
        /\ chain' \in ChainRecord
    BY <1>2, HopMoves DEF Stages, HopDialFails
  <2> QED
    BY <1>2, <2>1 DEF HopDialFails, HopInv, HopTypeOK, ChainBuilt, FailedBuildReleases, KeepStates
<1>3. CASE HopRegister
  <2>1. chain.at = "register" /\ chain'.at = (IF chain.hops = 0 THEN "built" ELSE "forward")
        /\ chain'.hops = chain.hops /\ chain.hops \in Nat
        /\ chain' \in ChainRecord
    BY <1>3, HopMoves DEF Stages, HopRegister
  <2>2. UNCHANGED <<links, channel, keep, ctxDone>> /\ doneChan' = "listed" /\ ~channel /\ Len(links) = 1
    BY <1>3, <2>1 DEF HopRegister, HopInv, HopTypeOK, ChainBuilt
  <2>3. HopTypeOK' /\ FailedBuildReleases' /\ (channel' => chain'.at = "handshake")
    BY <2>1, <2>2 DEF HopInv, HopTypeOK, FailedBuildReleases, Stages
  <2>4. ChainBuilt'
    BY <2>1, <2>2 DEF ChainBuilt
  <2> QED
    BY <2>1, <2>3, <2>4 DEF HopInv
<1>4. CASE HopOpenChannel
  <2>1. chain.at = "forward" /\ chain'.at = "handshake" /\ chain'.hops = chain.hops /\ chain.hops \in Nat
        /\ chain' \in ChainRecord
    BY <1>4, HopMoves DEF Stages, HopOpenChannel
  <2> QED
    BY <1>4, <2>1 DEF HopOpenChannel, HopInv, HopTypeOK, ChainBuilt, FailedBuildReleases
<1>5. CASE HopHandshake
  <2>1. chain.at = "handshake" /\ chain'.at = (IF Last = chain.hops THEN "built" ELSE "forward")
        /\ chain'.hops = chain.hops /\ chain.hops \in Nat
        /\ chain' \in ChainRecord
    BY <1>5, HopMoves DEF Stages, HopHandshake
  <2>2. links' \in Seq(BOOLEAN) /\ Len(links') = Len(links) + 1 /\ Len(links) \in 1 .. chain.hops
    BY <1>5, <2>1 DEF HopHandshake, HopInv, HopTypeOK, ChainBuilt
  <2>3. UNCHANGED <<keep, doneChan, ctxDone>> /\ channel' = FALSE
    BY <1>5 DEF HopHandshake
  <2>4. HopTypeOK'
    <3>1. chain'.at \in {"dial", "register", "forward", "handshake", "built", "failed", "closed"}
          /\ Len(links') <= chain'.hops + 1
      BY <2>1, <2>2
    <3>2. channel' \in BOOLEAN
      BY <2>3
    <3> QED
      BY <2>2, <2>3, <3>1, <3>2 DEF HopInv, HopTypeOK
  <2>5. FailedBuildReleases' /\ (channel' => chain'.at = "handshake")
    BY <2>1, <2>3 DEF FailedBuildReleases
  <2>6. ChainBuilt'
    BY <2>1, <2>2 DEF ChainBuilt, Last
  <2> QED
    BY <2>1, <2>4, <2>5, <2>6 DEF HopInv
<1>6. CASE HopForwardFails
  <2>1. chain.at \in {"forward", "handshake"} /\ chain'.at = "failed" /\ chain'.hops = chain.hops /\ chain.hops \in Nat
        /\ chain' \in ChainRecord
    BY <1>6, HopMoves DEF Stages, HopForwardFails
  <2>2. links' = Cut(1) /\ links' \in Seq(BOOLEAN) /\ Len(links') = Len(links) /\ \A i \in DOMAIN links : i >= 1 => ~links'[i]
    BY <1>6, CutLinks DEF HopForwardFails, CloseChain
  <2>3. \A i \in DOMAIN links' : ~links'[i]
    BY <2>2 DEF HopInv, HopTypeOK
  <2> QED
    BY <1>6, <2>1, <2>2, <2>3 DEF HopForwardFails, HopInv, HopTypeOK, ChainBuilt, FailedBuildReleases
<1>7. CASE OwnerClose
  <2>1. chain.at = "built" /\ chain'.at = "closed" /\ chain'.hops = chain.hops /\ chain.hops \in Nat
        /\ chain' \in ChainRecord
    BY <1>7, HopMoves DEF Stages, OwnerClose
  <2>2. links' \in Seq(BOOLEAN) /\ Len(links') = Len(links)
    BY <1>7, CutLinks DEF OwnerClose, Last, HopInv, HopTypeOK
  <2> QED
    BY <1>7, <2>1, <2>2 DEF OwnerClose, HopInv, HopTypeOK, ChainBuilt, FailedBuildReleases
<1>8. CASE LinkDies
  <2> PICK k \in DOMAIN links : links[k] /\ links' = Cut(k)
    BY <1>8 DEF LinkDies
  <2>1. links' \in Seq(BOOLEAN) /\ Len(links') = Len(links) /\ chain.at # "failed"
    BY CutLinks DEF HopInv, HopTypeOK, FailedBuildReleases
  <2>2. chain.at = "dial" => links' = <<>>
    BY <2>1 DEF HopInv, HopTypeOK, ChainBuilt
  <2> QED
    BY <1>8, <2>1, <2>2 DEF LinkDies, HopInv, HopTypeOK, ChainBuilt, FailedBuildReleases
<1>9. CASE CancelContext \/ DialerClose
  <2>1. UNCHANGED <<chain, links, channel, keep>>
    BY <1>9 DEF CancelContext, DialerClose
  <2>2. ctxDone' \in BOOLEAN /\ doneChan' \in {"none", "unlisted", "listed", "closed"}
    BY <1>9 DEF CancelContext, DialerClose, HopInv, HopTypeOK
  <2> QED
    BY <2>1, <2>2 DEF HopInv, HopTypeOK, ChainBuilt, FailedBuildReleases
<1>10. CASE HopKeepStep \/ HopKeepTimeout
  <2>1. keep' \in KeepStates
    BY <1>10 DEF HopKeepStep, HopKeepTimeout, KeepWith, KeepNext, KeepTimeout, KeepAnswers, KeepStates
  <2> QED
    BY <1>10, <2>1 DEF HopKeepStep, HopKeepTimeout, KeepWith, HopInv, HopTypeOK, ChainBuilt, FailedBuildReleases
<1>11. CASE UNCHANGED hopVars
  BY <1>11 DEF hopVars, HopInv, HopTypeOK, ChainBuilt, FailedBuildReleases
<1> QED
  BY <1>1, <1>2, <1>3, <1>4, <1>5, <1>6, <1>7, <1>8, <1>9, <1>10, <1>11 DEF HopNext

LEMMA HopInvariant == HopSpec => []HopInv
BY HopInitInv, HopStepInv, PTL DEF HopSpec

\* A build that returned an error has left no client and no channel open, wherever in the chain
\* it failed and however long the chain is (internal/agent/strategy.go).
THEOREM NoLeftoverHops == HopSpec => []FailedBuildReleases
<1>1. HopInv => FailedBuildReleases
  BY DEF HopInv
<1> QED
  BY <1>1, HopInvariant, PTL

(***************************************************************************)
(* The SSH connector.                                                      *)
(***************************************************************************)
SshShape ==
  /\ sshAt \in {"dial", "handshake", "dialed", "pty", "pipes", "shell", "open",
                "noshell", "refused", "closed"}
  /\ tcp \in BOOLEAN /\ shell \in BOOLEAN /\ sshDone \in BOOLEAN
  /\ rawClient \in {"none", "open", "closed"} /\ sshKeep \in KeepStates

\* TCP is made before the client, the client before the shell, and a failure at any step has
\* undone the step before it.
SshOrder ==
  /\ FailureLeavesNothing
  /\ sshAt = "dial" => ~tcp
  /\ sshAt \in {"dial", "handshake", "refused"} => rawClient = "none"
  /\ shell => sshAt \in {"pty", "pipes", "shell", "open"}

SshInv == SshShape /\ SshOrder

LEMMA SshInitInv == SshInit => SshInv
BY DEF SshInit, SshInv, SshShape, SshOrder, FailureLeavesNothing, KeepStates

LEMMA SshStepInv == SshInv /\ [SshNext]_sshVars => SshInv'
<1> SUFFICES ASSUME SshInv, [SshNext]_sshVars PROVE SshShape' /\ SshOrder'
  BY DEF SshInv
<1> USE DEF SshInv, SshGo
<1>1. CASE SshTcp \/ SshTcpFails \/ SshHandshake \/ SshHandshakeFails
  <2> USE DEF SshTcp, SshTcpFails, SshHandshake, SshHandshakeFails
  <2>1. SshShape'
    BY <1>1 DEF SshShape, KeepStates
  <2>2. SshOrder'
    BY <1>1 DEF SshOrder, FailureLeavesNothing
  <2> QED
    BY <2>1, <2>2
<1>2. CASE SshNewSession \/ SshNewSessionFails \/ SshPrepare \/ SshPrepareFails
  <2> USE DEF SshNewSession, SshNewSessionFails, SshPrepare, SshPrepareFails
  <2>1. SshShape'
    BY <1>2 DEF SshShape
  <2>2. SshOrder'
    BY <1>2 DEF SshOrder, FailureLeavesNothing
  <2> QED
    BY <2>1, <2>2
<1>3. CASE SshShellClose \/ SshConnClose \/ SshBreaks \/ ConnectorClose
  <2> USE DEF SshShellClose, SshConnClose, SshBreaks, ConnectorClose
  <2>1. SshShape'
    BY <1>3 DEF SshShape
  <2>2. SshOrder'
    BY <1>3 DEF SshOrder, FailureLeavesNothing, SshShape
  <2> QED
    BY <2>1, <2>2
<1>4. CASE SshKeepStep \/ SshKeepTimeout
  BY <1>4 DEF SshKeepStep, SshKeepTimeout, SshKeepWith, KeepNext, KeepTimeout, KeepAnswers, KeepStates,
              SshShape, SshOrder, FailureLeavesNothing
<1>5. CASE UNCHANGED sshVars
  BY <1>5 DEF sshVars, SshShape, SshOrder, FailureLeavesNothing
<1> QED
  BY <1>1, <1>2, <1>3, <1>4, <1>5 DEF SshNext

LEMMA SshInvariant == SshSpec => []SshInv
BY SshInitInv, SshStepInv, PTL DEF SshSpec

\* A failed Dial has left no TCP connection and no client, a failed OpenSession no channel, at
\* whichever of its steps it failed (internal/sshclient).
THEOREM NothingLeft == SshSpec => []FailureLeavesNothing
<1>1. SshInv => FailureLeavesNothing
  BY DEF SshInv, SshOrder
<1> QED
  BY <1>1, SshInvariant, PTL

(***************************************************************************)
(* Tunnels, for any number of them, modes and connections.                 *)
(***************************************************************************)
TunnelRecord ==
  [id : TunnelIDs, mode : Modes, state : {"new", "active", "stopped"},
   opening : {"starting", "started", "registered", "refused"}, raced : BOOLEAN,
   listener : {"none", "open", "closed"}, loop : BOOLEAN,
   stop : {"no", "signalled", "closing", "waiting", "returned"}]
ConnRecord ==
  [of : Nat, at : Running \cup {"none", "over"}, near : EndStates, far : EndStates,
   up : CopyStates, down : CopyStates, watched : BOOLEAN]

TunShape ==
  /\ tunnels \in Seq(TunnelRecord)
  /\ tunnelOf \in [TunnelIDs -> 0 .. Len(tunnels)]
  /\ conns \in [Conns -> ConnRecord]
  /\ \A c \in Conns : conns[c].of \in 0 .. Len(tunnels)

\* What the map holds is registered, under its own ID, and nobody has called its Stop.
MapKept == \A id \in TunnelIDs : tunnelOf[id] # NoTunnel =>
  /\ tunnels[tunnelOf[id]].id = id
  /\ tunnels[tunnelOf[id]].opening = "registered" /\ tunnels[tunnelOf[id]].stop = "no"

\* Of two tunnels of one ID, one still being opened, the other opening or in use, the other is
\* marked: the duplicate check found the ID free while it was on its way.
Opening(t) == tunnels[t].opening \in {"starting", "started"}
InUse(t) == tunnels[t].opening = "registered" /\ tunnels[t].stop = "no"
RacesMarked == \A t, u \in TunnelNumbers :
  t # u /\ tunnels[t].id = tunnels[u].id /\ Opening(u) /\ (Opening(t) \/ InUse(t)) => tunnels[t].raced

\* Until Start nothing of a tunnel runs, and until it is registered nobody stops it; a Stop that
\* waits, for its listener or for goroutines, has closed the listener.
StartsQuiet == \A t \in TunnelNumbers :
  /\ tunnels[t].opening = "starting" =>
       tunnels[t].listener = "none" /\ ~tunnels[t].loop /\ \A c \in Conns : conns[c].of # t
  /\ Opening(t) => tunnels[t].stop = "no"
  /\ tunnels[t].stop \in {"closing", "waiting"} => tunnels[t].listener = "closed"

\* A connection has a tunnel from its Accept on, and only then a watcher; the accept loop runs
\* while it holds one, and the end of its goroutine closes both ends.
ConnsKept == \A c \in Conns :
  /\ conns[c].at = "none" <=> conns[c].of = NoTunnel
  /\ conns[c].at = "accepted" => tunnels[conns[c].of].loop
  /\ conns[c].at = "over" => conns[c].near # "open" /\ conns[c].far # "open"
  /\ conns[c].watched => conns[c].at # "none"

TunInv == TunShape /\ MapKept /\ RacesMarked /\ OpenedIsReachable /\ StartsQuiet /\ ConnsKept /\ StopIsQuiet

-----------------------------------------------------------------------------
LEMMA NumbersAre == ASSUME TunShape PROVE TunnelNumbers = 1 .. Len(tunnels) /\ Len(tunnels) \in Nat
BY DEF TunShape, TunnelNumbers

LEMMA TunnelTypes == ASSUME TunShape, NEW t \in TunnelNumbers PROVE tunnels[t] \in TunnelRecord /\ t # NoTunnel
BY NumbersAre DEF TunShape, NoTunnel

\* A change of one tunnel's record.
LEMMA RecordPut ==
  ASSUME TunShape, NEW t \in TunnelNumbers, NEW r \in TunnelRecord, tunnels' = [tunnels EXCEPT ![t] = r]
  PROVE  /\ tunnels' \in Seq(TunnelRecord) /\ Len(tunnels') = Len(tunnels) /\ TunnelNumbers' = TunnelNumbers
         /\ tunnels'[t] = r /\ \A u \in TunnelNumbers : u # t => tunnels'[u] = tunnels[u]
BY NumbersAre DEF TunShape, TunnelNumbers

LEMMA TunInitInv == TunInit => TunInv
BY DEF TunInit, TunInv, TunShape, MapKept, RacesMarked, OpenedIsReachable, StartsQuiet, ConnsKept,
       StopIsQuiet, TunnelNumbers, NoTunnel, NoConn, ConnRecord, Running, EndStates, CopyStates

\* A step that leaves the tunnels and the map alone and ends or moves on one connection.
LEMMA ConnMoved ==
  ASSUME TunInv, NEW c \in Conns, NEW r \in ConnRecord, conns[c].at # "none",
         conns' = [conns EXCEPT ![c] = r], UNCHANGED <<tunnelOf, tunnels>>,
         r.of = conns[c].of, r.at # "none", r.at = "accepted" => conns[c].at = "accepted",
         r.at = "over" => r.near # "open" /\ r.far # "open", conns[c].at = "over" => r.at = "over" /\ r.near # "open" /\ r.far # "open"
  PROVE  TunInv'
<1>1. conns' \in [Conns -> ConnRecord] /\ conns'[c] = r /\ \A d \in Conns : d # c => conns'[d] = conns[d]
  BY DEF TunInv, TunShape
<1>2. TunShape' /\ TunnelNumbers' = TunnelNumbers
  BY <1>1 DEF TunInv, TunShape, TunnelNumbers
<1>3. MapKept' /\ RacesMarked' /\ OpenedIsReachable'
  BY <1>2 DEF TunInv, MapKept, RacesMarked, OpenedIsReachable, Opening, InUse
<1>4. StartsQuiet'
  BY <1>1, <1>2 DEF TunInv, StartsQuiet, Opening
<1>5. ConnsKept'
  BY <1>1 DEF TunInv, ConnsKept
<1>6. StopIsQuiet'
  BY <1>1, <1>2 DEF TunInv, StopIsQuiet
<1> QED
  BY <1>2, <1>3, <1>4, <1>5, <1>6 DEF TunInv

LEMMA NewTunnelInv ==
  ASSUME TunInv, NEW id \in TunnelIDs, NEW m \in Modes, TunOpen(id, m)
  PROVE  TunInv'
<1> DEFINE n == Len(tunnels) + 1
           marked == [t \in TunnelNumbers |-> IF t \in Rivals(id) THEN [tunnels[t] EXCEPT !.raced = TRUE] ELSE tunnels[t]]
           new == [id |-> id, mode |-> m, state |-> "new", opening |-> "starting", raced |-> Rivals(id) # {},
                   listener |-> "none", loop |-> FALSE, stop |-> "no"]
<1>1. tunnelOf[id] = NoTunnel /\ tunnels' = Append(marked, new) /\ UNCHANGED <<tunnelOf, conns>>
  BY DEF TunOpen, NewTunnel
<1>2. new \in TunnelRecord /\ new.id = id /\ new.opening = "starting" /\ new.raced = (Rivals(id) # {})
      /\ new.listener = "none" /\ new.loop = FALSE /\ new.stop = "no"
  BY DEF TunnelRecord
<1>3. \A t \in TunnelNumbers :
        /\ marked[t] \in TunnelRecord /\ marked[t].id = tunnels[t].id /\ marked[t].opening = tunnels[t].opening
        /\ marked[t].stop = tunnels[t].stop /\ marked[t].listener = tunnels[t].listener
        /\ marked[t].loop = tunnels[t].loop /\ marked[t].raced = (tunnels[t].raced \/ t \in Rivals(id))
  <2> SUFFICES ASSUME NEW t \in TunnelNumbers
               PROVE  /\ marked[t] \in TunnelRecord /\ marked[t].id = tunnels[t].id /\ marked[t].opening = tunnels[t].opening
                      /\ marked[t].stop = tunnels[t].stop /\ marked[t].listener = tunnels[t].listener
                      /\ marked[t].loop = tunnels[t].loop /\ marked[t].raced = (tunnels[t].raced \/ t \in Rivals(id))
    OBVIOUS
  <2>1. tunnels[t] \in TunnelRecord
    BY TunnelTypes DEF TunInv
  <2> QED
    BY <2>1 DEF TunnelRecord
<1>4. marked \in Seq(TunnelRecord) /\ Len(marked) = Len(tunnels)
  <2>1. marked = [t \in 1 .. Len(tunnels) |-> marked[t]] /\ \A t \in 1 .. Len(tunnels) : marked[t] \in TunnelRecord
    BY <1>3, NumbersAre DEF TunInv
  <2> HIDE DEF marked
  <2> QED
    BY <2>1, NumbersAre DEF TunInv
<1> HIDE DEF new, marked
<1>5. /\ tunnels' \in Seq(TunnelRecord) /\ Len(tunnels') = n /\ n \in Nat /\ TunnelNumbers' = TunnelNumbers \cup {n}
      /\ n \notin TunnelNumbers /\ n # NoTunnel
      /\ tunnels'[n] = new /\ \A t \in TunnelNumbers : tunnels'[t] = marked[t]
      /\ 0 .. Len(tunnels) \subseteq 0 .. n
  <2>1. TunnelNumbers = 1 .. Len(tunnels) /\ Len(tunnels) \in Nat
    BY NumbersAre DEF TunInv
  <2>2. tunnels' \in Seq(TunnelRecord) /\ Len(tunnels') = n /\ tunnels'[n] = new
        /\ \A t \in 1 .. Len(tunnels) : tunnels'[t] = marked[t]
    BY <1>1, <1>2, <1>4, <2>1
  <2>3. TunnelNumbers' = 1 .. n
    BY <2>2 DEF TunnelNumbers
  <2> QED
    BY <2>1, <2>2, <2>3 DEF NoTunnel
<1> HIDE DEF n
<1>6. TunShape'
  BY <1>1, <1>5 DEF TunInv, TunShape
<1>61. \A t \in TunnelNumbers :
         /\ t # n /\ tunnels'[t].id = tunnels[t].id /\ tunnels'[t].opening = tunnels[t].opening
         /\ tunnels'[t].stop = tunnels[t].stop /\ tunnels'[t].listener = tunnels[t].listener
         /\ tunnels'[t].loop = tunnels[t].loop /\ (tunnels'[t].raced <=> tunnels[t].raced \/ t \in Rivals(id))
  BY <1>3, <1>5
<1>62. /\ tunnels'[n].id = id /\ tunnels'[n].opening = "starting" /\ (tunnels'[n].raced <=> Rivals(id) # {})
       /\ tunnels'[n].listener = "none" /\ ~tunnels'[n].loop /\ tunnels'[n].stop = "no"
  BY <1>2, <1>5
<1>63. TunnelNumbers' = TunnelNumbers \cup {n} /\ n # NoTunnel
  BY <1>5
<1>64. \A c \in Conns : conns'[c] = conns[c] /\ conns[c].of # n
  BY <1>1, <1>5, NumbersAre DEF TunInv, TunShape, NoTunnel
<1>7. MapKept'
  <2>1. \A i \in TunnelIDs : tunnelOf[i] # NoTunnel => tunnelOf[i] \in TunnelNumbers
    BY NumbersAre DEF TunInv, TunShape, NoTunnel
  <2> SUFFICES ASSUME NEW i \in TunnelIDs, tunnelOf[i] # NoTunnel
               PROVE  tunnels'[tunnelOf[i]].id = i /\ tunnels'[tunnelOf[i]].opening = "registered"
                      /\ tunnels'[tunnelOf[i]].stop = "no"
    BY <1>1 DEF MapKept
  <2> QED
    BY <1>61, <2>1 DEF TunInv, MapKept
<1>8. \A t \in TunnelNumbers : tunnels[t].id = id /\ Opening(t) => t \in Rivals(id)
  BY DEF Rivals, Opening
<1>9. \A t \in TunnelNumbers : tunnels[t].id = id /\ InUse(t) => tunnels[t].raced
  <2> SUFFICES ASSUME NEW t \in TunnelNumbers, tunnels[t].id = id, InUse(t), ~tunnels[t].raced PROVE FALSE
    BY TunnelTypes DEF TunInv, TunnelRecord
  <2>1. tunnelOf[tunnels[t].id] = t
    BY DEF TunInv, OpenedIsReachable, InUse
  <2> QED
    BY <1>1, <2>1, TunnelTypes DEF TunInv
<1>10. RacesMarked'
  <2> SUFFICES ASSUME NEW t \in TunnelNumbers', NEW u \in TunnelNumbers', t # u, tunnels'[t].id = tunnels'[u].id,
                      Opening(u)', Opening(t)' \/ InUse(t)'
               PROVE  tunnels'[t].raced
    BY DEF RacesMarked
  <2>1. CASE t = n
    BY <1>61, <1>62, <1>63, <1>8, <2>1 DEF Opening
  <2>2. CASE u = n
    BY <1>61, <1>62, <1>63, <1>8, <1>9, <2>2 DEF Opening, InUse
  <2>3. CASE t # n /\ u # n
    BY <1>61, <1>63, <2>3 DEF Opening, InUse, TunInv, RacesMarked
  <2> QED
    BY <2>1, <2>2, <2>3
<1>11. OpenedIsReachable'
  <2> SUFFICES ASSUME NEW t \in TunnelNumbers', tunnels'[t].opening = "registered", tunnels'[t].stop = "no",
                      ~tunnels'[t].raced
               PROVE  tunnelOf'[tunnels'[t].id] = t
    BY DEF OpenedIsReachable
  <2> QED
    BY <1>1, <1>61, <1>62, <1>63 DEF TunInv, OpenedIsReachable
<1>12. StartsQuiet'
  <2> SUFFICES ASSUME NEW t \in TunnelNumbers'
               PROVE  /\ tunnels'[t].opening = "starting" =>
                           tunnels'[t].listener = "none" /\ ~tunnels'[t].loop /\ \A c \in Conns : conns'[c].of # t
                      /\ tunnels'[t].opening \in {"starting", "started"} => tunnels'[t].stop = "no"
                      /\ tunnels'[t].stop \in {"closing", "waiting"} => tunnels'[t].listener = "closed"
    BY DEF StartsQuiet, Opening
  <2>1. CASE t = n
    BY <1>62, <1>64, <2>1
  <2>2. CASE t # n
    BY <1>61, <1>63, <1>64, <2>2 DEF TunInv, StartsQuiet, Opening
  <2> QED
    BY <2>1, <2>2
<1>13. ConnsKept'
  <2>1. \A c \in Conns : conns[c].at = "accepted" => conns[c].of \in TunnelNumbers
    BY NumbersAre DEF TunInv, TunShape, ConnsKept, NoTunnel
  <2> QED
    BY <1>1, <1>61, <2>1 DEF TunInv, ConnsKept
<1>14. StopIsQuiet'
  <2> SUFFICES ASSUME NEW t \in TunnelNumbers', tunnels'[t].stop = "returned"
               PROVE  /\ tunnels'[t].listener # "open" /\ ~tunnels'[t].loop
                      /\ \A c \in Conns : conns'[c].of = t => conns'[c].at = "over" /\ conns'[c].near # "open" /\ conns'[c].far # "open"
    BY DEF StopIsQuiet
  <2>1. t \in TunnelNumbers
    BY <1>62, <1>63
  <2> QED
    BY <1>61, <1>64, <2>1 DEF TunInv, StopIsQuiet
<1> QED
  BY <1>6, <1>7, <1>10, <1>11, <1>12, <1>13, <1>14 DEF TunInv

\* What a change of one tunnel's record must respect, whatever becomes of the map.
LEMMA TunnelPut ==
  ASSUME TunInv, NEW t \in TunnelNumbers, NEW r \in TunnelRecord, tunnels' = [tunnels EXCEPT ![t] = r],
         UNCHANGED conns, tunnelOf' \in [TunnelIDs -> 0 .. Len(tunnels)],
         r.id = tunnels[t].id, r.raced = tunnels[t].raced,
         r.opening \in {"starting", "started"} => Opening(t) /\ r.stop = "no",
         r.opening = "registered" /\ r.stop = "no" => Opening(t) \/ InUse(t),
         r.opening # "starting", r.stop \in {"closing", "waiting"} => r.listener = "closed",
         r.stop = "returned" => r.listener # "open" /\ ~r.loop,
         r.stop = "returned" => \A c \in Conns : conns[c].of = t => conns[c].at = "over" /\ conns[c].near # "open" /\ conns[c].far # "open",
         Held(t) => r.loop
  PROVE  TunShape' /\ RacesMarked' /\ StartsQuiet' /\ ConnsKept' /\ StopIsQuiet'
<1>1. /\ tunnels' \in Seq(TunnelRecord) /\ Len(tunnels') = Len(tunnels) /\ TunnelNumbers' = TunnelNumbers
      /\ tunnels'[t] = r /\ \A u \in TunnelNumbers : u # t => tunnels'[u] = tunnels[u]
  BY RecordPut DEF TunInv
<1>2. TunShape'
  BY <1>1 DEF TunInv, TunShape
<1>3. RacesMarked'
  <2> SUFFICES ASSUME NEW x \in TunnelNumbers, NEW u \in TunnelNumbers, x # u, tunnels'[x].id = tunnels'[u].id,
                      Opening(u)', Opening(x)' \/ InUse(x)'
               PROVE  tunnels'[x].raced
    BY <1>1 DEF RacesMarked
  <2>1. tunnels[x].id = tunnels[u].id /\ tunnels'[x].raced = tunnels[x].raced
    BY <1>1
  <2>2. Opening(u)
    BY <1>1 DEF Opening
  <2>3. Opening(x) \/ InUse(x)
    BY <1>1 DEF Opening, InUse
  <2> QED
    BY <2>1, <2>2, <2>3 DEF TunInv, RacesMarked
<1>4. StartsQuiet'
  BY <1>1 DEF TunInv, StartsQuiet, Opening
<1>5. ConnsKept'
  <2> SUFFICES ASSUME NEW c \in Conns, conns[c].at = "accepted" PROVE tunnels'[conns[c].of].loop
    BY DEF TunInv, ConnsKept
  <2>1. conns[c].of \in TunnelNumbers /\ tunnels[conns[c].of].loop
    BY NumbersAre DEF TunInv, TunShape, ConnsKept, NoTunnel
  <2>2. conns[c].of = t => Held(t)
    BY DEF Held
  <2> QED
    BY <1>1, <2>1, <2>2
<1>6. StopIsQuiet'
  BY <1>1 DEF TunInv, StopIsQuiet
<1> QED
  BY <1>2, <1>3, <1>4, <1>5, <1>6

\* The map, too, when it is left alone and the tunnel is in use or not as before.
LEMMA TunnelPutInPlace ==
  ASSUME TunInv, NEW t \in TunnelNumbers, NEW r \in TunnelRecord, tunnels' = [tunnels EXCEPT ![t] = r],
         UNCHANGED <<conns, tunnelOf>>,
         r.id = tunnels[t].id, r.raced = tunnels[t].raced,
         r.opening \in {"starting", "started"} => Opening(t) /\ r.stop = "no",
         r.opening = "registered" /\ r.stop = "no" <=> InUse(t),
         r.opening # "starting", r.stop \in {"closing", "waiting"} => r.listener = "closed",
         r.stop = "returned" => r.listener # "open" /\ ~r.loop,
         r.stop = "returned" => \A c \in Conns : conns[c].of = t => conns[c].at = "over" /\ conns[c].near # "open" /\ conns[c].far # "open",
         Held(t) => r.loop
  PROVE  TunInv'
<1>1. tunnelOf' \in [TunnelIDs -> 0 .. Len(tunnels)]
  BY DEF TunInv, TunShape
<1>2. TunShape' /\ RacesMarked' /\ StartsQuiet' /\ ConnsKept' /\ StopIsQuiet'
  BY <1>1, TunnelPut
<1>3. TunnelNumbers' = TunnelNumbers /\ tunnels'[t] = r /\ \A u \in TunnelNumbers : u # t => tunnels'[u] = tunnels[u]
  BY RecordPut DEF TunInv
<1>4. MapKept'
  <2> SUFFICES ASSUME NEW i \in TunnelIDs, tunnelOf[i] # NoTunnel
               PROVE  tunnels'[tunnelOf[i]].id = i /\ tunnels'[tunnelOf[i]].opening = "registered"
                      /\ tunnels'[tunnelOf[i]].stop = "no"
    BY DEF MapKept
  <2>1. tunnelOf[i] \in TunnelNumbers
    BY NumbersAre DEF TunInv, TunShape, NoTunnel
  <2> QED
    BY <1>3, <2>1 DEF TunInv, MapKept, InUse
<1>5. OpenedIsReachable'
  <2> SUFFICES ASSUME NEW u \in TunnelNumbers, tunnels'[u].opening = "registered", tunnels'[u].stop = "no",
                      ~tunnels'[u].raced
               PROVE  tunnelOf[tunnels'[u].id] = u
    BY <1>3 DEF OpenedIsReachable
  <2> QED
    BY <1>3 DEF TunInv, OpenedIsReachable, InUse
<1> QED
  BY <1>2, <1>4, <1>5 DEF TunInv

LEMMA TunListenInv == ASSUME TunInv, NEW t \in TunnelNumbers, TunListen(t) PROVE TunInv'
<1> DEFINE r == [tunnels[t] EXCEPT !.opening = "started", !.state = "active", !.listener = "open", !.loop = TRUE]
<1>1. tunnels[t] \in TunnelRecord /\ tunnels[t].opening = "starting" /\ tunnels[t].stop = "no"
  BY TunnelTypes DEF TunInv, TunListen, StartsQuiet, Opening
<1>2. /\ r \in TunnelRecord /\ r.id = tunnels[t].id /\ r.raced = tunnels[t].raced /\ r.opening = "started"
      /\ r.stop = "no" /\ r.loop
  BY <1>1 DEF TunnelRecord
<1>3. tunnels' = [tunnels EXCEPT ![t] = r] /\ UNCHANGED <<conns, tunnelOf>>
  BY DEF TunListen
<1> HIDE DEF r
<1> QED
  BY <1>1, <1>2, <1>3, TunnelPutInPlace DEF Opening, InUse

LEMMA TunListenFailsInv == ASSUME TunInv, NEW t \in TunnelNumbers, TunListenFails(t) PROVE TunInv'
<1> DEFINE r == [tunnels[t] EXCEPT !.opening = "refused", !.state = "stopped", !.stop = "returned"]
<1>1. /\ tunnels[t] \in TunnelRecord /\ tunnels[t].opening = "starting" /\ tunnels[t].listener = "none"
      /\ ~tunnels[t].loop /\ \A c \in Conns : conns[c].of # t
  BY TunnelTypes DEF TunInv, TunListenFails, StartsQuiet, Opening
<1>2. /\ r \in TunnelRecord /\ r.id = tunnels[t].id /\ r.raced = tunnels[t].raced /\ r.opening = "refused"
      /\ r.stop = "returned" /\ r.listener = "none" /\ ~r.loop
  BY <1>1 DEF TunnelRecord
<1>3. tunnels' = [tunnels EXCEPT ![t] = r] /\ UNCHANGED <<conns, tunnelOf>>
  BY DEF TunListenFails
<1> HIDE DEF r
<1> QED
  BY <1>1, <1>2, <1>3, TunnelPutInPlace DEF Opening, InUse, Held

LEMMA StopListenerInv == ASSUME TunInv, NEW t \in TunnelNumbers, StopListener(t) PROVE TunInv'
<1> DEFINE r == [tunnels[t] EXCEPT !.stop = "closing", !.listener = "closed"]
<1>1. tunnels[t] \in TunnelRecord /\ tunnels[t].stop = "signalled" /\ ~Opening(t) /\ (Held(t) => tunnels[t].loop)
  BY TunnelTypes DEF TunInv, StopListener, StartsQuiet, ConnsKept, Held
<1>2. /\ r \in TunnelRecord /\ r.id = tunnels[t].id /\ r.raced = tunnels[t].raced
      /\ r.opening = tunnels[t].opening /\ r.stop = "closing" /\ r.listener = "closed" /\ r.loop = tunnels[t].loop
  BY <1>1 DEF TunnelRecord
<1>3. tunnels' = [tunnels EXCEPT ![t] = r] /\ UNCHANGED <<conns, tunnelOf>>
  BY DEF StopListener
<1> HIDE DEF r
<1> QED
  BY <1>1, <1>2, <1>3, TunnelPutInPlace DEF Opening, InUse

LEMMA ListenerClosedInv == ASSUME TunInv, NEW t \in TunnelNumbers, ListenerClosed(t) PROVE TunInv'
<1> DEFINE r == [tunnels[t] EXCEPT !.stop = "waiting", !.state = "stopped"]
<1>1. /\ tunnels[t] \in TunnelRecord /\ tunnels[t].stop = "closing" /\ ~Opening(t) /\ (Held(t) => tunnels[t].loop)
      /\ tunnels[t].listener = "closed"
  BY TunnelTypes DEF TunInv, ListenerClosed, StartsQuiet, ConnsKept, Held
<1>2. /\ r \in TunnelRecord /\ r.id = tunnels[t].id /\ r.raced = tunnels[t].raced
      /\ r.opening = tunnels[t].opening /\ r.stop = "waiting" /\ r.listener = "closed" /\ r.loop = tunnels[t].loop
  BY <1>1 DEF TunnelRecord
<1>3. tunnels' = [tunnels EXCEPT ![t] = r] /\ UNCHANGED <<conns, tunnelOf>>
  BY DEF ListenerClosed
<1> HIDE DEF r
<1> QED
  BY <1>1, <1>2, <1>3, TunnelPutInPlace DEF Opening, InUse

\* wg.Wait is over: the accept loop has ended and with it every connection it accepted.
LEMMA StopReturnInv == ASSUME TunInv, NEW t \in TunnelNumbers, StopReturn(t) PROVE TunInv'
<1> DEFINE r == [tunnels[t] EXCEPT !.stop = "returned"]
<1>1. /\ tunnels[t] \in TunnelRecord /\ tunnels[t].stop = "waiting" /\ ~Opening(t)
      /\ tunnels[t].listener = "closed" /\ ~tunnels[t].loop
  BY TunnelTypes DEF TunInv, StopReturn, StartsQuiet, Counted
<1>2. /\ r \in TunnelRecord /\ r.id = tunnels[t].id /\ r.raced = tunnels[t].raced
      /\ r.opening = tunnels[t].opening /\ r.stop = "returned" /\ r.listener = "closed" /\ ~r.loop
  BY <1>1 DEF TunnelRecord
<1>3. ASSUME NEW c \in Conns, conns[c].of = t PROVE conns[c].at = "over" /\ conns[c].near # "open" /\ conns[c].far # "open"
  <2>1. conns[c].at \in Running \cup {"none", "over"} /\ conns[c].at # "none"
    BY <1>3, TunnelTypes DEF TunInv, TunShape, ConnRecord, ConnsKept
  <2>2. conns[c].at # "accepted"
    BY <1>1, <1>3 DEF TunInv, ConnsKept
  <2>3. conns[c].at \notin Running \ {"accepted"}
    BY <1>3 DEF StopReturn, Counted
  <2> QED
    BY <2>1, <2>2, <2>3 DEF TunInv, ConnsKept
<1>4. tunnels' = [tunnels EXCEPT ![t] = r] /\ UNCHANGED <<conns, tunnelOf>>
  BY DEF StopReturn
<1>5. ~Held(t)
  BY <1>3 DEF Held
<1> HIDE DEF r
<1> QED
  BY <1>1, <1>2, <1>3, <1>4, <1>5, TunnelPutInPlace DEF Opening, InUse

LEMMA LoopOverInv ==
  ASSUME TunInv, NEW t \in TunnelNumbers, LoopOver(t), tunnels[t].listener # "none" PROVE TunInv'
<1> DEFINE r == [tunnels[t] EXCEPT !.loop = FALSE]
<1>1. tunnels[t] \in TunnelRecord /\ tunnels[t].loop /\ ~Held(t) /\ tunnels[t].stop # "returned"
  BY TunnelTypes DEF TunInv, LoopOver, StopIsQuiet
<1>2. /\ r \in TunnelRecord /\ r.id = tunnels[t].id /\ r.raced = tunnels[t].raced
      /\ r.opening = tunnels[t].opening /\ r.stop = tunnels[t].stop /\ r.listener = tunnels[t].listener
  BY <1>1 DEF TunnelRecord
<1>3. tunnels' = [tunnels EXCEPT ![t] = r] /\ UNCHANGED <<conns, tunnelOf>>
  BY DEF LoopOver
<1>4. /\ tunnels[t].opening # "starting" /\ (Opening(t) => tunnels[t].stop = "no")
      /\ (tunnels[t].stop \in {"closing", "waiting"} => tunnels[t].listener = "closed")
  BY DEF TunInv, StartsQuiet
<1> HIDE DEF r
<1> QED
  BY <1>1, <1>2, <1>3, <1>4, TunnelPutInPlace DEF Opening, InUse

\* The tunnel that Open registers: another one of the ID is marked.
LEMMA TunRegisterInv == ASSUME TunInv, NEW t \in TunnelNumbers, TunRegister(t) PROVE TunInv'
<1> DEFINE r == [tunnels[t] EXCEPT !.opening = "registered"]
<1>1. tunnels[t] \in TunnelRecord /\ tunnels[t].opening = "started" /\ tunnels[t].stop = "no" /\ Opening(t)
  BY TunnelTypes DEF TunInv, TunRegister, StartsQuiet, Opening
<1>2. /\ r \in TunnelRecord /\ r.id = tunnels[t].id /\ r.raced = tunnels[t].raced
      /\ r.opening = "registered" /\ r.stop = "no" /\ r.loop = tunnels[t].loop
  BY <1>1 DEF TunnelRecord
<1>3. /\ tunnels' = [tunnels EXCEPT ![t] = r] /\ UNCHANGED conns
      /\ tunnelOf' = [tunnelOf EXCEPT ![tunnels[t].id] = t]
  BY DEF TunRegister
<1> HIDE DEF r
<1>4. tunnels[t].id \in TunnelIDs /\ t \in 0 .. Len(tunnels)
  BY <1>1, NumbersAre DEF TunInv, TunnelRecord
<1>5. /\ tunnelOf' \in [TunnelIDs -> 0 .. Len(tunnels)] /\ tunnelOf'[tunnels[t].id] = t
      /\ \A i \in TunnelIDs : i # tunnels[t].id => tunnelOf'[i] = tunnelOf[i]
  BY <1>3, <1>4 DEF TunInv, TunShape
<1>6. Held(t) => tunnels[t].loop
  BY DEF TunInv, ConnsKept, Held
<1>7. TunShape' /\ RacesMarked' /\ StartsQuiet' /\ ConnsKept' /\ StopIsQuiet'
  BY <1>1, <1>2, <1>3, <1>5, <1>6, TunnelPut
<1>8. TunnelNumbers' = TunnelNumbers /\ tunnels'[t] = r /\ \A u \in TunnelNumbers : u # t => tunnels'[u] = tunnels[u]
  BY <1>2, <1>3, RecordPut DEF TunInv
<1>9. MapKept'
  <2> SUFFICES ASSUME NEW i \in TunnelIDs, tunnelOf'[i] # NoTunnel
               PROVE  tunnels'[tunnelOf'[i]].id = i /\ tunnels'[tunnelOf'[i]].opening = "registered"
                      /\ tunnels'[tunnelOf'[i]].stop = "no"
    BY DEF MapKept, NoTunnel
  <2>1. CASE i = tunnels[t].id
    BY <1>2, <1>5, <1>8, <2>1
  <2>2. CASE i # tunnels[t].id
    <3>1. tunnelOf[i] # NoTunnel /\ tunnelOf[i] \in TunnelNumbers /\ tunnelOf'[i] = tunnelOf[i]
      BY <1>5, <2>2, NumbersAre DEF TunInv, TunShape, NoTunnel
    <3>2. tunnelOf[i] # t
      BY <1>1, <3>1 DEF TunInv, MapKept
    <3> QED
      BY <1>8, <3>1, <3>2 DEF TunInv, MapKept
  <2> QED
    BY <2>1, <2>2
<1>10. OpenedIsReachable'
  <2> SUFFICES ASSUME NEW u \in TunnelNumbers, tunnels'[u].opening = "registered", tunnels'[u].stop = "no",
                      ~tunnels'[u].raced
               PROVE  tunnelOf'[tunnels'[u].id] = u
    BY <1>8 DEF OpenedIsReachable
  <2>1. CASE u = t
    BY <1>2, <1>5, <1>8, <2>1
  <2>2. CASE u # t
    <3>1. tunnels'[u] = tunnels[u] /\ InUse(u)
      BY <1>8, <2>2 DEF InUse
    <3>2. tunnels[u].id # tunnels[t].id
      BY <1>1, <2>2, <3>1 DEF TunInv, RacesMarked
    <3>3. tunnels[u].id \in TunnelIDs
      BY TunnelTypes DEF TunInv, TunnelRecord
    <3> QED
      BY <1>5, <3>1, <3>2, <3>3 DEF TunInv, OpenedIsReachable
  <2> QED
    BY <2>1, <2>2
<1> QED
  BY <1>7, <1>9, <1>10 DEF TunInv

LEMMA TunCloseInv == ASSUME TunInv, NEW id \in TunnelIDs, TunClose(id) PROVE TunInv'
<1> DEFINE t == tunnelOf[id]
           r == [tunnels[t] EXCEPT !.stop = "signalled"]
<1>1. /\ t \in TunnelNumbers /\ tunnels[t] \in TunnelRecord /\ tunnels[t].id = id
      /\ tunnels[t].opening = "registered" /\ tunnels[t].stop = "no"
  BY NumbersAre, TunnelTypes DEF TunInv, TunShape, MapKept, TunClose, NoTunnel
<1>2. /\ r \in TunnelRecord /\ r.id = tunnels[t].id /\ r.raced = tunnels[t].raced
      /\ r.opening = "registered" /\ r.stop = "signalled" /\ r.loop = tunnels[t].loop
  BY <1>1 DEF TunnelRecord
<1>3. /\ tunnels' = [tunnels EXCEPT ![t] = r] /\ UNCHANGED conns
      /\ tunnelOf' = [tunnelOf EXCEPT ![id] = NoTunnel]
  BY DEF TunClose
<1> HIDE DEF r
<1>4. /\ tunnelOf' \in [TunnelIDs -> 0 .. Len(tunnels)] /\ tunnelOf'[id] = NoTunnel
      /\ \A i \in TunnelIDs : i # id => tunnelOf'[i] = tunnelOf[i]
  BY <1>3, NumbersAre DEF TunInv, TunShape, NoTunnel
<1>5. Held(t) => tunnels[t].loop
  BY DEF TunInv, ConnsKept, Held
<1>6. TunShape' /\ RacesMarked' /\ StartsQuiet' /\ ConnsKept' /\ StopIsQuiet'
  BY <1>1, <1>2, <1>3, <1>4, <1>5, TunnelPut
<1>7. TunnelNumbers' = TunnelNumbers /\ tunnels'[t] = r /\ \A u \in TunnelNumbers : u # t => tunnels'[u] = tunnels[u]
  BY <1>1, <1>2, <1>3, RecordPut DEF TunInv
<1>8. MapKept'
  <2> SUFFICES ASSUME NEW i \in TunnelIDs, tunnelOf'[i] # NoTunnel
               PROVE  tunnels'[tunnelOf'[i]].id = i /\ tunnels'[tunnelOf'[i]].opening = "registered"
                      /\ tunnels'[tunnelOf'[i]].stop = "no"
    BY DEF MapKept, NoTunnel
  <2>1. i # id /\ tunnelOf'[i] = tunnelOf[i] /\ tunnelOf[i] \in TunnelNumbers
    BY <1>4, NumbersAre DEF TunInv, TunShape, NoTunnel
  <2>2. tunnelOf[i] # t
    BY <1>1, <2>1 DEF TunInv, MapKept
  <2> QED
    BY <1>7, <2>1, <2>2 DEF TunInv, MapKept
<1>9. OpenedIsReachable'
  <2> SUFFICES ASSUME NEW u \in TunnelNumbers, tunnels'[u].opening = "registered", tunnels'[u].stop = "no",
                      ~tunnels'[u].raced
               PROVE  tunnelOf'[tunnels'[u].id] = u
    BY <1>7 DEF OpenedIsReachable
  <2>1. u # t /\ tunnels'[u] = tunnels[u]
    BY <1>2, <1>7
  <2>2. tunnelOf[tunnels[u].id] = u /\ tunnels[u].id \in TunnelIDs
    BY <2>1, TunnelTypes DEF TunInv, OpenedIsReachable, TunnelRecord
  <2> QED
    BY <1>4, <2>1, <2>2
<1> QED
  BY <1>6, <1>8, <1>9 DEF TunInv

-----------------------------------------------------------------------------
\* Accept gives a connection its tunnel, whose Stop has not returned: the loop runs.
LEMMA AcceptInv == ASSUME TunInv, NEW t \in TunnelNumbers, NEW c \in Conns, Accept(t, c) PROVE TunInv'
<1> DEFINE r == [conns[c] EXCEPT !.of = t, !.at = "accepted", !.near = "open"]
<1>1. conns' = [conns EXCEPT ![c] = r] /\ UNCHANGED <<tunnelOf, tunnels>> /\ tunnels[t].loop
  BY DEF Accept
<1>2. t \in 0 .. Len(tunnels) /\ t \in Nat /\ t # NoTunnel
  BY NumbersAre DEF TunInv, NoTunnel
<1>3. r \in ConnRecord /\ r.of = t /\ r.at = "accepted"
  BY <1>2 DEF TunInv, TunShape, ConnRecord, Running, EndStates
<1> HIDE DEF r
<1>4. conns' \in [Conns -> ConnRecord] /\ conns'[c] = r /\ \A d \in Conns : d # c => conns'[d] = conns[d]
  BY <1>1, <1>3 DEF TunInv, TunShape
<1>5. TunShape' /\ TunnelNumbers' = TunnelNumbers
  BY <1>1, <1>2, <1>3, <1>4 DEF TunInv, TunShape, TunnelNumbers
<1>6. MapKept' /\ RacesMarked' /\ OpenedIsReachable'
  BY <1>1, <1>5 DEF TunInv, MapKept, RacesMarked, OpenedIsReachable, Opening, InUse
<1>7. tunnels[t].stop # "returned" /\ tunnels[t].opening # "starting"
  BY <1>1 DEF TunInv, StopIsQuiet, StartsQuiet
<1>8. StartsQuiet'
  BY <1>1, <1>3, <1>4, <1>5, <1>7 DEF TunInv, StartsQuiet, Opening
<1>9. ConnsKept'
  BY <1>1, <1>2, <1>3, <1>4 DEF TunInv, ConnsKept
<1>10. StopIsQuiet'
  BY <1>1, <1>3, <1>4, <1>5, <1>7 DEF TunInv, StopIsQuiet
<1> QED
  BY <1>5, <1>6, <1>8, <1>9, <1>10 DEF TunInv

\* The connection's own steps: it moves on, or is over and closed.
LEMMA MovesOn ==
  ASSUME TunInv, NEW c \in Conns, conns[c].at \in Running, NEW r \in ConnRecord, r.of = conns[c].of,
         r.at \in Running \ {"accepted"}, conns' = [conns EXCEPT ![c] = r], UNCHANGED <<tunnelOf, tunnels>>
  PROVE  TunInv'
BY ConnMoved DEF Running

LEMMA EndsClosed ==
  ASSUME TunShape, NEW c \in Conns
  PROVE  /\ NearClosed(c) \in EndStates \ {"open"} /\ FarClosed(c) \in EndStates \ {"open"}
         /\ conns[c].near # "open" => NearClosed(c) = conns[c].near
         /\ conns[c].far # "open" => FarClosed(c) = conns[c].far
BY DEF TunShape, ConnRecord, EndStates, NearClosed, FarClosed

LEMMA GoesOver ==
  ASSUME TunInv, NEW c \in Conns, conns[c].at \in Running, Over(c), UNCHANGED <<tunnelOf, tunnels>>
  PROVE  TunInv'
<1> DEFINE r == [conns[c] EXCEPT !.at = "over", !.near = NearClosed(c), !.far = FarClosed(c)]
<1>1. conns[c] \in ConnRecord
  BY DEF TunInv, TunShape
<1>2. r \in ConnRecord /\ r.of = conns[c].of /\ r.at = "over" /\ r.near # "open" /\ r.far # "open"
  BY <1>1, EndsClosed DEF TunInv, ConnRecord
<1>3. conns' = [conns EXCEPT ![c] = r] /\ conns[c].at \notin {"none", "over"}
  BY DEF Over, Running
<1> HIDE DEF r
<1> QED
  BY <1>2, <1>3, ConnMoved

LEMMA WatchInv == ASSUME TunInv, NEW c \in Conns, Watch(c) PROVE TunInv'
<1> DEFINE r == [conns[c] EXCEPT !.watched = FALSE, !.near = NearClosed(c)]
<1>1. conns[c] \in ConnRecord
  BY DEF TunInv, TunShape
<1>2. r \in ConnRecord /\ r.of = conns[c].of /\ r.at = conns[c].at /\ r.near # "open" /\ r.far = conns[c].far
  BY <1>1, EndsClosed DEF TunInv, ConnRecord
<1>3. conns' = [conns EXCEPT ![c] = r] /\ UNCHANGED <<tunnelOf, tunnels>> /\ conns[c].at # "none"
      /\ (conns[c].at = "over" => conns[c].far # "open")
  BY DEF Watch, TunInv, ConnsKept
<1> HIDE DEF r
<1> QED
  BY <1>2, <1>3, ConnMoved

\* The two copies: only they and the ends they read and write change.
LEMMA CopiesInv ==
  ASSUME TunInv, NEW c \in Conns, CopyRead(c) \/ CopyWritten(c) \/ CopyEnds(c) \/ ChannelGone(c)
  PROVE  TunInv'
<1>1. conns[c] \in ConnRecord /\ conns[c].at = "copying" /\ UNCHANGED <<tunnelOf, tunnels>>
  BY DEF TunInv, TunShape, CopyRead, CopyWritten, CopyEnds, UpOver, DownOver, ChannelGone, At
<1>2. ASSUME NEW r \in ConnRecord, r.of = conns[c].of, r.at = conns[c].at, conns' = [conns EXCEPT ![c] = r]
      PROVE  TunInv'
  BY <1>1, <1>2, MovesOn DEF Running
<1>3. ASSUME NEW to \in CopyStates, conns' = [conns EXCEPT ![c].up = to] PROVE TunInv'
  <2> DEFINE r == [conns[c] EXCEPT !.up = to]
  <2>1. r \in ConnRecord /\ r.of = conns[c].of /\ r.at = conns[c].at
    BY <1>1 DEF ConnRecord
  <2>2. conns' = [conns EXCEPT ![c] = r]
    BY <1>3
  <2> HIDE DEF r
  <2> QED
    BY <1>2, <2>1, <2>2
<1>4. ASSUME NEW to \in CopyStates, conns' = [conns EXCEPT ![c].down = to] PROVE TunInv'
  <2> DEFINE r == [conns[c] EXCEPT !.down = to]
  <2>1. r \in ConnRecord /\ r.of = conns[c].of /\ r.at = conns[c].at
    BY <1>1 DEF ConnRecord
  <2>2. conns' = [conns EXCEPT ![c] = r]
    BY <1>4
  <2> HIDE DEF r
  <2> QED
    BY <1>2, <2>1, <2>2
<1>5. CASE CopyRead(c) \/ CopyWritten(c)
  BY <1>3, <1>4, <1>5 DEF CopyRead, CopyWritten, CopyStates
<1>6. CASE UpOver(c)
  <2> DEFINE r == [conns[c] EXCEPT !.up = "over", !.near = NearClosed(c), !.far = FarClosed(c)]
  <2>1. r \in ConnRecord /\ r.of = conns[c].of /\ r.at = conns[c].at
    BY <1>1, EndsClosed DEF TunInv, ConnRecord, CopyStates
  <2>2. conns' = [conns EXCEPT ![c] = r]
    BY <1>6 DEF UpOver
  <2> HIDE DEF r
  <2> QED
    BY <1>2, <2>1, <2>2
<1>7. CASE DownOver(c)
  <2> DEFINE r == [conns[c] EXCEPT !.down = "over", !.near = NearClosed(c), !.far = FarClosed(c)]
  <2>1. r \in ConnRecord /\ r.of = conns[c].of /\ r.at = conns[c].at
    BY <1>1, EndsClosed DEF TunInv, ConnRecord, CopyStates
  <2>2. conns' = [conns EXCEPT ![c] = r]
    BY <1>7 DEF DownOver
  <2> HIDE DEF r
  <2> QED
    BY <1>2, <2>1, <2>2
<1>8. CASE ChannelGone(c)
  <2>1. PICK near \in EndStates, far \in EndStates : conns' = [conns EXCEPT ![c].near = near, ![c].far = far]
    <3>1. PICK near, far : /\ near = IF conns[c].near = "closed" THEN "gone" ELSE conns[c].near
                           /\ far = IF conns[c].far = "closed" THEN "gone" ELSE conns[c].far
      OBVIOUS
    <3>2. near \in EndStates /\ far \in EndStates
      BY <1>1, <3>1 DEF ConnRecord, EndStates
    <3>3. [conns[c] EXCEPT !.near = near].far = conns[c].far
      BY <1>1 DEF ConnRecord
    <3>4. conns' = [conns EXCEPT ![c].near = near, ![c].far = far]
      BY <1>8, <3>1, <3>3 DEF ChannelGone, TunInv, TunShape
    <3> QED
      BY <3>2, <3>4
  <2> DEFINE r == [conns[c] EXCEPT !.near = near, !.far = far]
  <2>2. r \in ConnRecord /\ r.of = conns[c].of /\ r.at = conns[c].at
    BY <1>1, <2>1 DEF ConnRecord
  <2>3. conns' = [conns EXCEPT ![c] = r]
    BY <2>1
  <2> HIDE DEF r
  <2> QED
    BY <1>2, <2>2, <2>3
<1> QED
  BY <1>5, <1>6, <1>7, <1>8 DEF CopyEnds

LEMMA ConnStepsInv ==
  ASSUME TunInv, NEW c \in Conns,
         \/ ConnStep(c) \/ Handshake(c) \/ HandshakeFails(c) \/ DialOk(c) \/ DialFails(c)
         \/ CopyRead(c) \/ CopyWritten(c) \/ CopyEnds(c) \/ ChannelGone(c)
  PROVE  TunInv'
<1> USE DEF At, Running
<1>1. conns[c] \in ConnRecord
  BY DEF TunInv, TunShape
<1>2. ASSUME NEW w \in Running \ {"accepted"}, conns[c].at \in Running, conns' = [conns EXCEPT ![c].at = w],
             UNCHANGED <<tunnelOf, tunnels>>
      PROVE  TunInv'
  <2> DEFINE r == [conns[c] EXCEPT !.at = w]
  <2>1. r \in ConnRecord /\ r.of = conns[c].of /\ r.at = w
    BY <1>1 DEF ConnRecord
  <2>2. conns' = [conns EXCEPT ![c] = r]
    BY <1>2
  <2> HIDE DEF r
  <2> QED
    BY <1>2, <2>1, <2>2, MovesOn
<1>3. CASE Dispatch(c)
  BY <1>2, <1>3, GoesOver DEF Dispatch
<1>4. CASE HandleConn(c)
  <2> DEFINE w == IF Mode(c) = "dynamic" THEN "handshake" ELSE "dialing"
             r == [conns[c] EXCEPT !.watched = TRUE, !.at = w]
  <2>1. r \in ConnRecord /\ r.of = conns[c].of /\ r.at \in Running \ {"accepted"} /\ conns[c].at \in Running
    BY <1>1, <1>4 DEF ConnRecord, HandleConn
  <2>2. conns' = [conns EXCEPT ![c] = r] /\ UNCHANGED <<tunnelOf, tunnels>>
    BY <1>4 DEF HandleConn
  <2> HIDE DEF w, r
  <2> QED
    BY <2>1, <2>2, MovesOn
<1>5. CASE Handshake(c)
  BY <1>2, <1>5 DEF Handshake
<1>6. CASE HandshakeFails(c)
  BY <1>6, GoesOver DEF HandshakeFails
<1>7. CASE DialOk(c)
  <2> DEFINE r == [conns[c] EXCEPT !.at = "copying", !.far = "open", !.up = "reading", !.down = "reading"]
  <2>1. r \in ConnRecord /\ r.of = conns[c].of /\ r.at = "copying"
    BY <1>1 DEF ConnRecord, EndStates, CopyStates
  <2>2. conns[c].at = "dialing" /\ UNCHANGED <<tunnelOf, tunnels>> /\ (Over(c) \/ conns' = [conns EXCEPT ![c] = r])
    BY <1>7 DEF DialOk
  <2> HIDE DEF r
  <2> QED
    BY <2>1, <2>2, MovesOn, GoesOver
<1>8. CASE DialFails(c)
  BY <1>8, GoesOver DEF DialFails
<1>9. CASE CopyDone(c)
  BY <1>9, GoesOver DEF CopyDone
<1>10. CASE Watch(c)
  BY <1>10, WatchInv
<1>11. CopyCut(c) => CopyEnds(c)
  BY DEF CopyCut, CopyEnds
<1> QED
  BY <1>3, <1>4, <1>5, <1>6, <1>7, <1>8, <1>9, <1>10, <1>11, CopiesInv DEF ConnStep

LEMMA TunStepInv == TunInv /\ [TunNext]_tunnelVars => TunInv'
<1> SUFFICES ASSUME TunInv, [TunNext]_tunnelVars PROVE TunInv'
  OBVIOUS
<1>1. ASSUME NEW id \in TunnelIDs, TunClose(id) PROVE TunInv'
  BY <1>1, TunCloseInv
<1>2. ASSUME NEW id \in TunnelIDs, NEW m \in Modes, TunOpen(id, m) PROVE TunInv'
  BY <1>2, NewTunnelInv
<1>3. ASSUME NEW t \in TunnelNumbers, TunListen(t) PROVE TunInv'
  BY <1>3, TunListenInv
<1>4. ASSUME NEW t \in TunnelNumbers, TunListenFails(t) PROVE TunInv'
  BY <1>4, TunListenFailsInv
<1>5. ASSUME NEW t \in TunnelNumbers, TunRegister(t) PROVE TunInv'
  BY <1>5, TunRegisterInv
<1>6. ASSUME NEW t \in TunnelNumbers, AcceptFails(t) \/ AcceptClosed(t) PROVE TunInv'
  BY <1>6, LoopOverInv DEF AcceptFails, AcceptClosed
<1>7. ASSUME NEW t \in TunnelNumbers, StopListener(t) PROVE TunInv'
  BY <1>7, StopListenerInv
<1>71. ASSUME NEW t \in TunnelNumbers, ListenerClosed(t) PROVE TunInv'
  BY <1>71, ListenerClosedInv
<1>8. ASSUME NEW t \in TunnelNumbers, StopReturn(t) PROVE TunInv'
  BY <1>8, StopReturnInv
<1>9. ASSUME NEW t \in TunnelNumbers, NEW c \in Conns, Accept(t, c) PROVE TunInv'
  BY <1>9, AcceptInv
<1>10. ASSUME NEW c \in Conns,
              \/ ConnStep(c) \/ Handshake(c) \/ HandshakeFails(c) \/ DialOk(c) \/ DialFails(c)
              \/ CopyRead(c) \/ CopyWritten(c) \/ CopyEnds(c) \/ ChannelGone(c)
       PROVE  TunInv'
  BY <1>10, ConnStepsInv
<1>11. CASE UNCHANGED tunnelVars
  BY <1>11 DEF tunnelVars, TunInv, TunShape, MapKept, RacesMarked, OpenedIsReachable, StartsQuiet, ConnsKept,
       StopIsQuiet, Opening, InUse, TunnelNumbers
<1> QED
  BY <1>1, <1>2, <1>3, <1>4, <1>5, <1>6, <1>7, <1>71, <1>8, <1>9, <1>10, <1>11 DEF TunNext, TunStep

\* When Stop has returned, the tunnel has no listener, no accept loop, no goroutine and no open
\* end of a connection left, whatever was accepted while it was under way (Stop of local.go, remote.go
\* and dynamic.go, wg and the watchers).
THEOREM StopQuiet == TunSpec => []StopIsQuiet
<1>1. TunInv => StopIsQuiet
  BY DEF TunInv
<1> QED
  BY <1>1, TunInitInv, TunStepInv, PTL DEF TunSpec

\* A tunnel that Open registered is the one found under its ID until somebody closes it, unless
\* two Opens of the ID overlapped (MemoryManager of tunnel.go).
THEOREM Reachable == TunSpec => []OpenedIsReachable
<1>1. TunInv => OpenedIsReachable
  BY DEF TunInv
<1> QED
  BY <1>1, TunInitInv, TunStepInv, PTL DEF TunSpec

\* The types, too.
THEOREM TunnelsTyped == TunSpec => []TunTypeOK
<1>1. TunInv => TunTypeOK
  <2> SUFFICES ASSUME TunInv PROVE TunTypeOK
    OBVIOUS
  <2>1. TunnelNumbers \cup {NoTunnel} = 0 .. Len(tunnels)
    BY NumbersAre DEF TunInv, NoTunnel
  <2>2. \A t \in TunnelNumbers : tunnels[t] \in TunnelRecord
    BY TunnelTypes DEF TunInv
  <2>3. conns \in [Conns -> [of : TunnelNumbers \cup {NoTunnel}, at : Running \cup {"none", "over"},
                             near : EndStates, far : EndStates, up : CopyStates, down : CopyStates, watched : BOOLEAN]]
    <3> SUFFICES ASSUME NEW c \in Conns
                 PROVE  conns[c] \in [of : TunnelNumbers \cup {NoTunnel}, at : Running \cup {"none", "over"},
                                      near : EndStates, far : EndStates, up : CopyStates, down : CopyStates, watched : BOOLEAN]
      BY DEF TunInv, TunShape
    <3>1. conns[c] \in ConnRecord /\ conns[c].of \in TunnelNumbers \cup {NoTunnel}
      BY <2>1 DEF TunInv, TunShape
    <3> QED
      BY <3>1 DEF ConnRecord
  <2> QED
    BY <2>1, <2>2, <2>3 DEF TunTypeOK, TunInv, TunShape, TunnelRecord
<1> QED
  BY <1>1, TunInitInv, TunStepInv, PTL DEF TunSpec

(***************************************************************************)
(* The parts side by side: the specification that TLC checks implies the   *)
(* specification of each part, so what is proved of a part holds of it.    *)
(***************************************************************************)
LEMMA PartsStart == Init => JobInit /\ TunInit /\ SftpInit /\ PageInit /\ HopInit /\ SshInit
BY DEF Init

LEMMA PartsStep ==
  ASSUME [Next]_vars
  PROVE  /\ [JobNext]_jobVars /\ [TunNext]_tunnelVars /\ [SftpNext]_sftpVars
         /\ [PageNext]_pageVars /\ [HopNext]_hopVars /\ [SshNext]_sshVars
<1>1. CASE OnJobs(JobNext)
  BY <1>1 DEF OnJobs
<1>2. CASE OnTunnels(TunNext)
  BY <1>2 DEF OnTunnels
<1>3. CASE OnSftp(SftpNext)
  BY <1>3 DEF OnSftp
<1>4. CASE OnPages(PageNext)
  BY <1>4 DEF OnPages
<1>5. CASE OnHops(HopNext)
  BY <1>5 DEF OnHops
<1>6. CASE OnSsh(SshNext)
  BY <1>6 DEF OnSsh
<1>7. CASE UNCHANGED vars
  BY <1>7 DEF vars
<1> QED
  BY <1>1, <1>2, <1>3, <1>4, <1>5, <1>6, <1>7 DEF Next

LEMMA PartsSpec ==
  Spec => JobSpec /\ TunSpec /\ SftpSpec /\ PageSpec /\ HopSpec /\ SshSpec
BY PartsStart, PartsStep, PTL
   DEF Spec, JobSpec, TunSpec, SftpSpec, PageSpec, HopSpec, SshSpec

LEMMA JobTyped == JobInv => JobTypeOK
<1> SUFFICES ASSUME JobInv PROVE JobTypeOK
  OBVIOUS
<1>1. JobShape /\ JobNumbers = 1 .. Len(entries) /\ Len(entries) \in Nat
  BY JobNumbersAre DEF JobInv
<1>2. jobs \in [TransferIDs -> JobNumbers \cup {NoJob}]
  <2>1. JobNumbers \cup {NoJob} = 0 .. Len(entries)
    BY <1>1 DEF NoJob
  <2> QED
    BY <1>1, <2>1 DEF JobShape
<1>3. ASSUME NEW e \in JobNumbers
      PROVE  /\ entries[e] \in JobEntry
             /\ jobPC[e] \in {"work", "emit", "done"}
  BY <1>1 DEF JobShape
<1> QED
  BY <1>2, <1>3 DEF JobTypeOK, JobEntry

LEMMA SftpTyped == SftpInv => SftpTypeOK
<1> SUFFICES ASSUME SftpInv PROVE SftpTypeOK
  OBVIOUS
<1>1. SftpShape /\ DOMAIN clients = 1 .. Len(clients) /\ Len(clients) \in Nat
  BY DEF SftpInv, SftpShape
<1>2. DOMAIN clients \cup {NoClient} = 0 .. Len(clients)
  BY <1>1 DEF NoClient
<1>3. ASSUME NEW n \in DOMAIN clients PROVE clients[n] \in SftpClient
  BY <1>1 DEF SftpShape
<1>4. /\ sftpClients \in [SftpSessions -> DOMAIN clients \cup {NoClient}]
      /\ sftpRef \in [SftpCallers -> DOMAIN clients \cup {NoClient}]
  BY <1>1, <1>2 DEF SftpShape
<1> QED
  BY <1>1, <1>3, <1>4 DEF SftpShape, SftpClient, SftpTypeOK

\* Jobs, tunnels, SFTP clients, listings, the hop chain and the connection have their types.
THEOREM RemoteTyped == Spec => []TypeOK
<1>1. HopInv => HopTypeOK
  BY DEF HopInv
<1>2. SshInv => SshTypeOK
  BY DEF SshInv, SshShape, SshTypeOK
<1>3. JobTypeOK /\ TunTypeOK /\ SftpTypeOK /\ PageTypeOK /\ HopTypeOK /\ SshTypeOK => TypeOK
  BY DEF TypeOK
<1> QED
  BY <1>1, <1>2, <1>3, JobTyped, SftpTyped, PartsSpec, JobInvariant, TunnelsTyped, SftpInvariant,
     PagesTyped, HopInvariant, SshInvariant, PTL
=============================================================================
