# MossTerm in TLA+

TLA+ models of the concurrent core of MossTerm (the Go code under
`src/internal`), checked with TLC on small instances; the most important
theorems are proved with TLAPS for every value of the constants.

`PROJECT.json` lists the components, the TLC runs, what each definition stands
for in the source (`map`), the mutants each property was tried against, the
findings, the hazards and the theorems.

## 1. The system

MossTerm is a desktop SSH client: a Go backend (about 12.7k lines) and a
TypeScript front end connected by Wails events. The backend's parts, the state
they keep and what makes them correct:

| Part (`src/internal/...`) | State | Operations | Interaction | Correct when |
|---|---|---|---|---|
| session (`session/manager.go`, `session_impl.go`) | map of sessions; per session: state, connection and protocol session, input queue, event channel, subscribers, drop counters | Open, Close, CloseAll, Input, Resize, Subscribe; background dial; read, write and fan-out loops | three loops, a reader goroutine, the dialer and any number of callers; `publishMu`, `connMu`, `subMu`, `closeOnce`, atomics | nothing leaks, every connection is closed once, state events reach listeners in order, drops are reported, Close ends and the loops exit |
| streaming transfer (`transfer/streaming.go`, `manifest.go`) | manifest on disk, chunk queue, workers, hashes | Upload, Download, resume | worker pool, context, select over five channels | success means complete; what the manifest records is in place |
| transfer manager (`transfer/manager.go`) | job map | Start, Cancel, List, Cleanup | one goroutine per job; events to the front end | one run per ID; every job ends in one final state and one event |
| known hosts (`knownhosts/knownhosts.go`) | entries, file, waiting dialogues | callback, Add, Authorize, ReplyTrust | handshakes wait for the user with a timeout | only the user's answer to this request makes a key trusted; it is known after a restart; everybody who waits returns |
| tunnels (`tunnel/*.go`) | map of tunnels, listener, connections | Open, Close, accept loops | a goroutine per connection, `wg`, `stopOnce` | an opened tunnel can be closed; Stop ends and nothing is left running |
| SFTP client, page cache (`sftpclient/*.go`), its cache in `app/app.go` | client per session; LRU of listings | sftpFor, List with page tokens, shutdown | several bindings call at once | no client stays open behind the map; pages cover a listing |
| secrets (`secret/file.go`, `keyring.go`) | encrypted file; keyring index | Set, Get, Delete, SetPassphrase | read-modify-write of the index, asynchronous flush | what is listed can be fetched; Set is all or nothing; what can be read can be read after a restart |
| configuration (`config/manager.go`) | data, TOML file | Update, Add/Update/DeleteProfile, SetSetting | snapshot under the lock, write outside | the file is whole at any moment and ends up with the last data |
| jump hosts (`agent/strategy.go`, `app/agent_dialer.go`), ssh connector (`sshclient/*.go`) | chain of clients, keepalive goroutines | Dial through hops, Close | over x/crypto/ssh | a failed dial leaves nothing open; keepalive goroutines end |
| registry, bindings, pty, plugin, ai, front end | - | - | thin or single-threaded | not modelled, see section 8 |

What is hard about it: every goroutine of a session may call `Close`; the dial
outlives the session it dials for; all publication is lossy and non-blocking;
transfers survive restarts; several stores change memory and disk in separate
steps. The hazards are listed one by one in `PROJECT.json`.

## 2. Modules and plan

Written so far:

| Module | Role |
|---|---|
| `SessionStates` | the six states and the order of a session's life (constant level) |
| `SessionBadge` | abstract specification: a session and the status badges its listeners draw |
| `SessionEvents` | events channel, subscribers, drop counters and `fanoutLoop`: operators that leave the rest of the session open |
| `Session` | the session, composing `SessionEvents` with Open, the dialer, Close, the loops and Input; its properties |
| `SessionInv` | the inductive invariants |
| `Session_proofs`, `SessionOrder_proofs` | the proofs: types, ownership; order, badges, drops, a failed dial |
| `Transfer` | Upload and Download of one transfer ID over several calls, with the manifest that joins them |
| `Transfer_proofs` | its proofs |
| `TransferManager` | the map of transfer jobs around a transfer of which only the result matters |
| `Tunnel` | the map of tunnels and the life they share in the three modes: listener, accept loop, connections with their two ends, copying goroutines and watchers, Stop |
| `SftpCache` | the SFTP clients of the app: look-up, eviction, opening, the sessions under them, shutdown, and the client that is closed under its user |
| `PageCache` | paged listings over the LRU of whole listings |
| `KeepAlive` | the keepalive goroutine, as operators used by the next two |
| `HopChain` | a client reached through hops, its dialer, and what a failed build releases |
| `SshConnector` | Dial and OpenSession and what they leave behind when they fail half way |
| `HostPattern` | patterns and addresses of known_hosts as functions on texts (constant level) |
| `KnownHosts` | host key callbacks, the trust dialogue, ReplyTrust, records and file; uses `HostPattern` |
| `ConfigStore` | the configuration in memory and its file, as inodes and names |
| `KeyringIndex` | secrets in the system keyring, with the index kept as one item |
| `SecretFile` | secrets in the encrypted file, salt, mark and keys |
| `PageCache_proofs` | the proofs of `PageCache`: the list as an LRU, the pages of a walk |
| `Remote_proofs` | the proofs for the other components of `MCRemote`, and the types of all |
| `Induction_proofs` | least and greatest members of sets of numbers, on which the next one argues |
| `KnownHosts_proofs` | the proofs for `HostPattern` and `KnownHosts` |
| `Stores_proofs` | the proofs of the other three stores, and the types of all |
| `MCSession`, `MCTransfer`, `MCRemote`, `MCStores` + their `.cfg` | TLC instances |

`Session` composes `SessionEvents`; `HopChain` and `SshConnector` compose
`KeepAlive`; `KnownHosts` composes `HostPattern`. `MCRemote` and `MCStores` put
several components side by side that share no state in the code: a behaviour
follows one of them, named by the variable `part`, so that one run and one
`.cfg` check them all without multiplying their states.

The modules lean on each other's properties where the code does:
`Transfer` takes calls with one ID to follow each other, which is `OneRunPerID`
of `TransferManager`; that takes a transfer to return, which is `CallEnds` of
`Transfer`; `Session` takes a failed Dial or OpenSession for one that never was,
which is `FailureLeavesNothing` of `SshConnector`.

Still worth doing: `Transfer` with a source that changes size during a call, and
the fate of its workers after an early return; what a late subscriber can expect.

## 3. How the modules correspond to the code

### Session

One action is one step between two synchronisation points: a region of a lock,
a channel operation, an atomic, or a blocking call. Program counters name where
each goroutine is (`openPC`, `dialPC`, `closePC`, `readPC`, `readerPC`,
`writePC`, `fanPC`, `inputPC`).

* **publishMu.** `setStateAndPublish` and `setStateAndPublishIf` are two
  actions: take the lock and set the state (`AcquireAndSet`, `CasSet`), then
  publish and unlock (`PublishAndRelease`). Others cannot act on the lock in
  between, but `Input`, `waitForSess` and `Subscribe` read the state without it.
* **connMu** guards single steps (`SetDialedSess`, `CloseTake`), so it needs no
  variable. `subMu` likewise.
* **closeOnce.** The first caller moves `closePC` from `idle`; everybody else
  waits for `finished` (`readLoop`, `writeLoop`) or is the environment.
  Since one body only ever runs, the checks for "already Closing or Closed"
  inside `Close` cannot fail and are not modelled.
* **tryPublish** is the disjunction `Enqueue \/ DropClosed \/ Overflows`, as the
  Go `select` chooses; the accounting of a dropped data event
  (`overflowBytes`, then `overflowPending`) is two further actions of
  `readLoop`, since `fanoutLoop` reads them concurrently.
* **fanoutLoop** receives, broadcasts, then clears the flag, swaps the counter
  and reports the subscribers' drops: five actions. Its drain loop repeats the
  same steps, so `FanReturn` needs `done` and an empty channel.
* **waitForSess** polls; a polling round has no effect, so one action gives its
  possible outcomes.
* **The connector** is outside: `Dial` and `OpenSession` succeed, fail or never
  return. The remote may send up to `MaxChunks` chunks and hang up at any time.
* Data is counted in chunks, not bytes; `MaxAccum` is the number of chunks that
  forces a flush.
* `early` is a history variable: who subscribed while the session was alive.

`conn` and `sshSess` say what the resource is (none, open, closed); `dialed`,
`sess` and `taken` say which references exist.

### Transfer

Upload and Download have the same body up to names, so one module stands for
both; `direction` decides the one place where they differ in what they do with
the manifest. A file is a number of units, a chunk the units of `[Start, End)`,
content a version number that is also the modification time.

* **Calls.** `Begin` is everything before the workers: `Refuse` (nothing can be
  opened, or the manifest is for another version), `NothingLeft` (the shortcut
  when all chunks are recorded), `OpenFails`, `Panic` (a recorded index the plan
  has not got) and `Spawn`. Each starts from the manifest on disk, which
  `Resume=false` tries to delete. Calls with one ID follow each other; the
  manager's job map sees to that.
* **Workers** take from a closed channel, read, write and report: `Take`,
  `Write`, `Notify`, each with its failure. `Take` includes the read, because
  what the read sees matters and not when within the step.
* **emitLoop.** Each case of the `select` is an action, all of those ready may
  be taken. Saving a manifest is atomic (a rename) and may fail.
* **After a return** the files are closed: what workers do afterwards cannot
  reach the destination or the manifest. A write under way at that moment is
  taken to be over; the SFTP file's Close waits for it, a local one may land a
  moment later.
* **Around it**: `Cancel`, `Crash` (dest and manifest survive, memory does not),
  `Touch` (the source gets another version), `LoseDest`.
* `misfit` and `losses` are history variables: they mark behaviours with a
  changed chunk size or a removed destination. The code does not guard against
  these, so `ManifestTruthful` and `SuccessUnlessFailed` set them aside;
  `transfer_resize` shows what the first leads to.

### Transfer jobs, tunnels, clients, chains

* **TransferManager.** One action per region of `m.mu`: `JobStart`, `JobCancel`,
  `JobCleanup`, `Finalize` (through `JobReturn`), and outside the lock the work
  and the two emits. `told` is what the front end heard, per job.
* **Tunnel.** `TunOpen` is the duplicate check, `TunListen` Start, `TunRegister`
  the registration; a connection is a process with a place (`At`) and a watcher.
  Its ends are `near`, what was accepted and what the watcher closes, and `far`, what
  was dialled; one of them is a TCP connection, gone as soon as it is closed, the other
  an SSH channel, gone when the server has answered (`ChannelGone`). Two goroutines
  copy, `up` and `down`, and each blocks in a Read or a Write (`CopyRead`,
  `CopyWritten`); the first that ends closes both ends. Stop is `TunClose`,
  `StopListener`, `ListenerClosed` (which for a remote tunnel waits for the server's
  answer) and `StopReturn`, which waits for the wait-group. That the SSH connection
  itself takes a message (a close, an end of data) is assumed. The SOCKS5 handshake
  is one step that may fail or hang. The field `raced` marks Opens of one ID that
  overlapped.
* **SftpCache.** One action per region of `sftpMu` or of the session manager's lock,
  per unlocked read of a session's state, and per Close: `sessions.Get` (`SftpGet`)
  and `sess.State` (`SftpHit`, `SftpStale`, `SftpMiss`) are two steps, and `CloseAll`
  takes the map in one and then closes a session per step (`CloseNext`), in any
  order, as Go iterates a map; only then (`CloseAllReturns`) come the clients. A call
  keeps its session after the manager has forgotten it, and sessions may be opened
  while shutdown is under way. `swept` is the list `CloseAll` took, `toShut` the
  clients somebody is about to close. `Client`'s methods look whether `sc` is set and
  then use it (`SftpCheckOpen`, `SftpCall`).
* **PageCache.** A listing is a version of a directory, a page an interval of it,
  a token an offset; `lru` is the linked list. `usedSince` is history: the paths
  used since each path was.
* **HopChain, SshConnector.** A client is open or not; `links` is the chain in
  the order of dialling. A broken connection closes what runs over it (`Cut`).

### Stores

* **KnownHosts.** A callback goes from its look-up (one region of `m.mu`: any
  matching record with the key accepts, else any match refuses, else ask) to
  `Ask` (register, then emit), the `select` (`TakeReply` or `TrustTimeout`, either
  when both are ready), `AddOk` or `AddFails` (memory first, then the file, in one
  region), and `Leave` (the deferred delete). `ReplyTrust` is a look-up under
  `trustMu` and a send without it, which a full channel holds for five seconds.
  `ragged` is a last line without a line feed, as an editor may leave it and as
  `loadFromFile` accepts it: what Add writes then continues that line, so that the
  new record is lost and the old one may be (`AddOk`); `glued`, which is history, has
  both. A last line of blanks does no harm and counts as ended. IDs are unique; the
  fallback of `generateTrustID` to a zero ID is left out, and so is a line the system
  writes in part, which is a failed write here. `trusted` is history.
* **HostPattern.** Texts are sequences of characters because the match, the
  brackets and the colons are what the properties are about; a port is one token.
  `net.SplitHostPort` is written from its documented behaviour.
* **ConfigStore.** A save is a snapshot, `OpenTmp` (which truncates), `WriteTmp`
  and `RenameTmp`, each of which can fail or be the last before a crash. Names
  point to inodes, so a writer may hold a file that another has renamed. Bytes
  written over longer bytes leave `Torn` content. A crash is the end of the
  process; a loss of power could also lose written but unsynced data, since the
  code does not call fsync, and is not modelled. `cfgDoubt` is history: whether
  saves overlapped or failed since the last good save that ran alone.
* **KeyringIndex.** Each keyring call is a step of its own. `ringStale`, `ghosts`
  and `orphans` are history: an index written from an outdated copy, and what
  operations that reported an error, or a stop in the middle, left behind.
* **SecretFile.** Every operation runs under the lock and is one action with two
  outcomes of the flush. A key is salt and passphrase; an item is the key it was
  sealed under; Get opens what the present key sealed.

## 4. Runs

| Run | Shows |
|---|---|
| `session_safety` | one session, one subscriber, all interleavings: types, ownership, order of state events, drop accounting, a failed dial is not lost, and the refinement of `SessionBadge` |
| `session_live` | Close ends; after `done` the loops return |
| `session_leak` (violation) | Close between OpenSession and SetDialedSess leaves the connection open |
| `session_end` (violation) | subscriber channels are closed before Closing was delivered |
| `transfer` | two calls, two workers: types, the manifest is true, success is complete unless a worker failed, progress counts no byte twice, a resume loses nothing, every call returns |
| `transfer_race` (violation) | a call with a failed worker returns nil |
| `transfer_resize` (violation) | a resume with another chunk size returns nil without the whole file |
| `remote` | the job map, tunnels, SFTP clients, page cache, hop chain and connector: one run and one last event per job, Stop is quiet and ends, an opened tunnel stays reachable, no client of a living session behind the map, no opening over CloseAll's sessions once it has returned, the LRU and the coverage of pages, failed dials leave nothing, keepalives end |
| `stores` | known hosts, configuration, keyring, encrypted file: only what the user trusted is accepted, it is remembered unless its line could not be written or was run together with another, every wait ends, the match agrees with its reference, the file is whole and up to date unless saves overlapped, the index is exact unless written from an old copy, Set is all or nothing, what is readable stays readable |
| `hosts_ipv6` (violation) | a trusted IPv6 host on port 22 is unknown after a restart |
| `config_torn` (violation) | two saves at a time leave an empty or cut configuration file |
| `vault_passphrase` (violation) | after SetPassphrase, earlier secrets cannot be read |

**Bounds.** `session_safety`: one subscriber (subscribers do not interact with
each other), channels of two events, so that both room and a full channel occur
while five state events and a data event compete; one chunk is enough for a
drop while `fanoutLoop` is between clearing the flag and swapping the counter.
`FailureNotLost` needs the two slots: with one, Failed itself can be dropped.
`session_live`: no subscriber (delivery never blocks), channels of one, one
chunk and one input so that `readLoop` and `writeLoop` are both busy when the
session ends. The proofs of section 5 remove the bounds for the safety properties.

`transfer`: two units and chunk sizes one and two give two chunks or one, so the
two workers run side by side and a plan may lack an index the other has; a
`manifestCh` of one is full while the second worker reports; two calls are
enough for a manifest to be written and resumed, two versions for it to be
outdated. The violations use three units, so that a worker takes a second chunk.

`remote`: three jobs of one ID, so that a cleaned-up job has a successor while
its last event is pending; one tunnel with two connections (part "tunnels"), or
two Opens of one ID without connections (part "opens"); two calls that need an SFTP
client, either of one session with up to three clients (part "sftp"), so that an
eviction meets an insertion, or of two sessions with one client (part "closing"), so
that `CloseAll` has closed one session and not the other;
three paths over a cache of two with two walkers, listings of two and three
entries in pages of two, so that a last page is full or short; up to two hops
and the target, so that a chain has a middle.

`stores`: two callbacks for any of two addresses and two keys, two answers, one
restart: enough for a decision to meet the other request, for a duplicate and a
late answer, and for the two keys of one host; a name and an IPv6 address, and a
file with a hashed line and a two-pattern line with a star, either of which may be
the last and lack its line feed. All patterns of up
to four and strings of up to three characters. Two callers of the configuration,
two edits and one crash, which a save needs to meet another and the next start;
in `hosts_ipv6` the IPv6 address has port 22. Two IDs and two callers of the
keyring; two items, two passphrases, three salts and one pending write of the
encrypted file. Callers take the lowest free number and calls begin in the
order of their numbers, which loses no behaviour but its renamings.

**Fairness.** Weak fairness for each goroutine's own steps: Go's scheduler runs
every runnable goroutine. None for `Dial`, `OpenSession`, a successful `Read` or
`Write`, a hang-up, or anything the user does. Strong fairness is nowhere
needed: `publishMu` has two users and the dialer gives it back for good. In
`Transfer`, weak fairness for the main goroutine and each worker: it presumes
that reads and writes of files return, for which the code sets no timeout.
In `MCRemote`, weak fairness for jobs, for the steps of a Stop, of accept loops and
of connections that need no peer (`TunStep`, `ConnStep`), and for keepalives, whose
timers fire; none for the user, peers or the arrival of connections, hence none for
a dial, for a Read or a Write that is not cut off, for the server's answer to the close
of a channel or to the cancellation of a remote forwarding. `StopsEnd` therefore
excepts tunnels of which something waits for one of these again and again (`OnPeer`):
the watcher closes what was accepted and nothing else, so a goroutine that writes to a
far end that does not read holds Stop in the code too. In `MCStores`, weak
fairness for a callback and a ReplyTrust, both of which hold a running timer;
none for the user's answer.

## 5. What is proved

Every invariant and every action property of a passing run is a theorem, for every
value of the constants the named assumptions allow. The argument of each:

### Session (any finite set of subscribers, all capacities and bounds)

* `TypeCorrect`: `Spec => []TypeOK`. `accum` needs `AccumInv` to stay in range.
* `Ownership`: `Spec => []OneOwner` and `Usability`:
  `Spec => []EstablishedIsUsable`, from `LifeInv`: who holds `publishMu`
  (`LockInv`), what the positions of Close and of the dialer say about the state
  (`CloseInv`, `DialInv`) and about the references (`RefInv`).
* `Order`: `Spec => []StateEventsInOrder`. The invariant alone is not inductive:
  `AnnounceInv` adds that while `publishMu` is held, the state already set is
  later than everything published.
* `Badges`: `Spec => BadgeContract`, the refinement: each step is a step of
  `SessionBadge` or a stutter, by `Order`.
* `Drops`: `Spec => []DropsFlagged`, inductive with the types.
* `FailureTold`: `Spec => []FailureNotLost`, under the hypothesis `RoomForTwo`
  (two places in every channel; the code has 64, and with one place the property
  is false). `FailInv` says of a session that nobody closed and that has no
  protocol session yet (`Young`): the loops wait, nothing was dropped, channels
  hold only what the dialer announced, `done` comes after the dialer's last word.
  With `Order`, at most one event can be in a channel before Failed
  (`OneBeforeFailure`), so Failed finds room, in `events` and in every subscriber's
  channel.

### Transfer (every file size, set of chunk sizes and workers, capacity and bound)

* `TypeCorrect` of `Transfer_proofs`: `Spec => []TypeOK`.
* `Truthful` and `Success`: `Spec => []ManifestTruthful` and
  `Spec => []SuccessUnlessFailed`, both parts of `IInv`. They need what a running
  call knows: `Ages` (the manifest is no newer than the call's version, which no
  worker's data precedes), `Claims` (what is recorded, reported or about to be
  reported is in the destination) and `Accounted` (without a failed worker every
  chunk is queued, held, reported or recorded), with `Drains` for the moment
  `emitLoop` ends.
* `Progress`: `Spec => []ProgressHonest`: the bytes reported are the units of a set
  of chunks, each counted when it is written, and no two workers hold the same
  chunk; so no byte counts twice and the whole plan counts the whole file.
* `RecordKept`: `Spec => NothingRecordedIsLost`, from `Remembers`: during a
  resumed call the disk records nothing that memory does not.

### The components of MCRemote

Each is proved alone (`JobSpec`, `TunSpec`, `SftpSpec`, `PageSpec`, `HopSpec`,
`SshSpec`) for any sets of IDs, callers, paths and connections and any bounds;
`RemoteTyped` joins the type invariants under `Spec` of `MCRemote`.

* `JobOneRunPerID` and `JobFinalEventOnce`, from `JobInv`: work that runs is the
  entry registered under its ID and not final (`Registered`), which is why neither
  `JobStart` nor `JobCleanup` can make room for a second; and before the final
  event only progress was told, after it nothing (`ToldInOrder`).
* `StopQuiet` and `Reachable`, from `TunInv`: a connection has a tunnel
  while it lives, the accept loop runs while it holds one, and its goroutine ends with both
  of its ends closed (`ConnsKept`); a Stop that waits, for its listener or for goroutines,
  has closed the listener (`StartsQuiet`), so what the wait-group counts is all that can
  still run and nothing starts behind it. The map holds registered tunnels that
  nobody stopped, each under its own ID (`MapKept`); one leaves it only through the
  Close that stops it or through the registration of another, of the same ID, whose
  duplicate check overlapped its opening (`RacesMarked`): the case the property
  sets aside, and a hazard in PROJECT.json.
* `SftpNoClientBehindTheMap` and `SftpShutdownStopsOpening`, from `SftpInv`: only
  a session that has been established has clients, cached or on the way (`ClientsPast`);
  a call at its insertion holds a client of its own session, and one at an eviction has seen
  the session ended or forgotten, which is final (`InHand`); what `CloseAll` took is
  over but for what it has still to close (`SweptEnded`). So neither an eviction nor the
  emptied map leaves a client of a living session behind, and a call that reads the state
  after `CloseAll` has returned finds its session over. Nothing is claimed, because the
  code does not provide it, for the clients of ended sessions, for one inserted behind
  `closeSftpClients`, and for sessions opened, or taken by a Close, during the shutdown.
* `ListingsLRU`: the list is in the order of the last uses, the directory at place k
  having been followed by exactly the k - 1 before it (`CacheInv`); a hit, a second
  put and an eviction are each a rotation of it (`Rotated`).
* `WalksCover`: what a walk has seen of a listing is its entries up to its offset.
* `NoLeftoverHops` and `NothingLeft`: a failed build or dial closes what the steps
  before it opened, at whichever step it failed.

### The stores

* `ConfigWhole` and `ConfigSaved` (`CfgSpec`), from `CfgInv`: a save that is alone
  writes to the inode of `path.tmp`, which is never that of `path` (`AloneKept`,
  `TmpKept`), so the file is whole before and after its rename (`PathKept`); its
  snapshot is memory's data unless an Update has still to save its own (`SnapKept`),
  and with nobody at work and no doubt the file is memory (`MemKept`). That a new
  file finds a free inode is a pigeonhole argument over the names and the callers.
* `RingIndexExact` (`RingSpec`): while no outdated index was written, an entry
  without content is a ghost and a content without entry an orphan or the unlisted ID
  of a Set under way (`IndexKept`). Needed are that such a Set owns its ID,
  which is in no index and in no other call's view of one (`SetsAlone`, `Listed`),
  and that a Delete's content is gone when it turns to the index (`DeletesGone`).
* `VaultSetIsAllOrNothing` (`VaultSpec`), from `FateKept`: what an unsuccessful Set
  took back is in neither memory nor file, so no later flush can bring it.
* `VaultReadableAgain`, from `KeysKept`: memory's key is made of memory's salt
  (`KeyOfSalt`), every salt used was made (`SaltsMade`), so a new one differs from
  all, and the file has the mark of memory's salt or no item sealed under it
  (`FileOfSalt`).
* `MatchIsCut`: the match of `wildcardMatch`, which is a recursive function on
  positions, accepts exactly the texts that can be cut at the pattern's stars. Induction
  runs over positions, downwards, as the argument of a least counterexample
  (`Induction_proofs`), since the prover cannot apply the induction theorems that
  take an operator. `ProbesMatch` is the instance the run checks.
* `OnlyTrusted` and `FoundAgain` (`HostSpec`), from `HostInv`: an answer "trust" that
  is in a channel or with a callback that adds was given for that callback's address
  and key; every record and every line was trusted or matches nothing that can be
  dialled; what was accepted is in memory, and in the file unless its write failed
  or the line was run together with an unterminated one (`HeldRecords` adds those lines to what
  the file holds). `FoundAgain` has the same two exceptions and rests on what a written pattern is read back as, for every host name and
  port (`FormatPattern` and `ParseAddr`), with the exception the run `hosts_ipv6` shows.
* `StoresTyped`: the types of all four under `Spec` of `MCStores`.

### Assumptions

The `ASSUME`s of the modules, which TLC evaluates in the runs: capacities, sizes and
versions are positive, bounds are natural numbers; `Workers`, `Paths`, the salts and
the callers of the configuration are not empty; `Subscribers` is finite. Of the texts
that can be dialled `HostAssumption` says that their host is a name without the
characters that mean something to the file, and their port a port. `RoomForTwo` is a
hypothesis of one theorem. No other fact is taken on trust.

Records and lines of known_hosts are sets: neither their order nor a repetition
tells in the code, where any match decides.

### Only model-checked

Liveness (`CloseCompletes`, `LoopsExit`, `CallEnds`, `EveryJobReported`, `StopsEnd`,
`HopKeepEnds`, `SshKeepEnds`, `CallbacksEnd`): liveness under fairness is outside the
prover. The properties of the violation runs are false, so there is nothing to prove.

## 6. Findings

* `session_leak`: `dialInBackground` calls `SetDialedSess` before the
  compare-and-swap and trusts Close to take the references; Close may already
  have taken them, as nil. The comments at `manager.go:154` and `326` say this
  cannot leak.
* `session_end`: the comment at `session_impl.go:747` says the drain at shutdown
  lets subscribers see the complete sequence; Close closes their channels
  without waiting for the drain.

* `transfer_race`: `emitLoop` prefers nothing when `workerErrCh` (or `ctx.Done`)
  and `doneCh` are ready together; on `doneCh` a failed transfer succeeds and
  its manifest is deleted. `Success` says this is the only way to a false nil
  when chunk size and destination are left alone.
* `transfer_resize`: the chunk size recorded in the manifest is never compared
  with the request's.
* `hosts_ipv6`: `formatPattern` writes `[::1]` for port 22 and `parsePattern`
  reads that as a host with brackets in its name, because `net.SplitHostPort`
  wants a port. The user is asked again after every start, and a changed key is
  taken for a new host.
* `config_torn`: `manager.go:85` says the atomic rename prevents half-written
  files; all writers share one `path.tmp` outside the lock. `WholeUnlessOverlapped`
  says this is the only way, and that a save that runs alone repairs it.
* `vault_passphrase`: `file.go:345` says SetPassphrase may be called at any time
  to change the master password; items keep the old key, and on a protected
  store nothing is written at all.

Behaviour met while modelling that no run states as a finding: `ReplyTrust`
reports success for an answer that comes between the timeout and the deferred
delete; Add after a known_hosts line without a line feed loses the new record, and
possibly the old one, although it reports success; Stop of a tunnel hangs on a
goroutine that writes to a far end that does not read; a key whose write failed is accepted from memory until the restart;
`touchLastUsed` of a Get may write an index without an entry that a concurrent
Set has added; two overlapping Opens of one tunnel ID both register; hop clients
outlive their target (a TODO in `strategy.go` says so).

## 7. Properties and mutants

Each property of a passing run is checked against a mutated definition that
stands for a plausible bug (an earlier version's, where the change log names
one): `SetUnlocked` is the state change before `publishMu` existed, `SetAnyway`
the store before the compare-and-swap, `FanReturnAtOnce` a `fanoutLoop` without
its drain, `SendToAny` the one reply channel of v0.5.0, `WatchContext` the watcher
of v0.6.1 before its fix, `OpenInPlace` a save without the rename. The mutants sit beside the definitions they replace, marked `Mutant`.

## 8. Not modelled

`PROJECT.json` gives the reason per component. In the session: Resize and Info
(display data), the validation of requests, logging, and the Go memory model
(shared fields are atomics or under locks). In the transfer: the checksum,
progress throttling, empty files, sizes that change during a call, and the fate of workers
after an early return (they may stay blocked on a full `manifestCh`). In the known hosts: hashed hosts
and markers (skipped by the code), Authorize (tests only). In the tunnels: bytes,
statistics, the wire format of SOCKS5, an SSH connection that takes no messages. In the SFTP client: the file operations
that forward to the library, and the preview. In the stores: time stamps, field
contents, Argon2 and AES beyond "only the sealing key opens", two processes on
one file, the loss of power (the comment at `loader.go:165` has an fsync, the code has
none). Outside altogether: the connector registry and dial conversion (locked
map, copying), the front end, pty, plugins and ai (placeholders or pure I/O).
