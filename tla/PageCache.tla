----------------------------- MODULE PageCache -----------------------------
(***************************************************************************)
(* sftpclient's paged listing: Client.List over the LRU of whole directory *)
(* listings in pagecache.go.  SFTP lists a directory in one go; the client *)
(* caches the result and cuts pages out of it, and the token of the next   *)
(* page is an offset.                                                      *)
(*                                                                         *)
(* Entries are numbered within one state of a directory, so a page is an   *)
(* interval.  Tokens carry the path and List refuses those of another      *)
(* path, so a walk through a directory keeps its path.                     *)
(***************************************************************************)
EXTENDS Naturals, Sequences, FiniteSets
SeqExt == INSTANCE SequencesExt

CONSTANTS
  Paths,        \* directories
  Walkers,      \* front-end components that list directories page by page
  Sizes,        \* numbers of entries a directory may have
  PageSize,     \* entries of a page, after List has bounded the request
  CacheCap,     \* maxCacheEntries
  MaxChanges    \* bound: changes of remote directories

ASSUME PageAssumption ==
  /\ PageSize \in Nat \ {0} /\ CacheCap \in Nat \ {0} /\ Sizes \subseteq Nat /\ MaxChanges \in Nat
  /\ Paths # {}

VARIABLES
  remote,    \* each directory as it is: the last change to it, and its size
  lru,       \* the cached listings, most recently used first
  walk,      \* each walker: path, next offset, where its call is, what it has seen
  usedSince  \* history: the paths used since a path was last used, Paths if never

pageVars == <<remote, lru, walk, usedSince>>

\* Every change has a number of its own.
Changes == CHOOSE n \in {remote[p].version : p \in Paths} : \A p \in Paths : remote[p].version <= n
Listing == [version : 0 .. MaxChanges, size : Sizes]

NotRead == [version |-> 0, size |-> 0]

IsCached(p) == \E i \in DOMAIN lru : lru[i].path = p
PlaceOf(p) == CHOOSE i \in DOMAIN lru : lru[i].path = p
CachedListing(p) == lru[PlaceOf(p)].listing
Others(p) == SeqExt!RemoveAt(lru, PlaceOf(p))
Entry(p, l) == [path |-> p, listing |-> l]

\* Mutant of Touched: a hit does not move to the front.
TouchedInPlace(p) == lru

\* pageCache.get: the element found moves to the front.
Touched(p) == <<Entry(p, CachedListing(p))>> \o Others(p)

\* Mutant of Put: nothing is evicted.
PutUnbounded(p, l) == <<Entry(p, l)>> \o (IF IsCached(p) THEN Others(p) ELSE lru)

\* pageCache.put: a known path is replaced, a new one evicts from the back.
Put(p, l) ==
  <<Entry(p, l)>> \o (IF IsCached(p) THEN Others(p)
                      ELSE IF Len(lru) < CacheCap THEN lru
                      ELSE SubSeq(lru, 1, CacheCap - 1))

\* Every other path has been used since; this one has not.
Use(p) == usedSince' = [q \in Paths |-> IF q = p THEN {} ELSE usedSince[q] \union {p}]

\* Mutant of Page: one entry too many.
PageInclusive(size, offset) == offset + 1 .. (IF size > offset + PageSize THEN offset + PageSize + 1 ELSE size)

\* slicePage: the entries of a page, and the offset of the next.
Page(size, offset) == offset + 1 .. (IF size > offset + PageSize THEN offset + PageSize ELSE size)
LastPage == 0
NextOffset(size, offset) == IF size > offset + PageSize THEN offset + PageSize ELSE LastPage

PageInit ==
  /\ remote \in [Paths -> [version : {0}, size : Sizes]]
  /\ lru = <<>>
  /\ walk = [w \in Walkers |-> [path |-> CHOOSE p \in Paths : TRUE, offset |-> 0, at |-> "idle",
                                read |-> NotRead, seen |-> {}, from |-> {}]]
  /\ usedSince = [p \in Paths |-> Paths]

-----------------------------------------------------------------------------
\* Somebody changes the directory, by this client or another: nothing in the client
\* drops its listing.
RemoteChange(p) ==
  /\ Changes < MaxChanges
  /\ \E n \in Sizes : remote' = [remote EXCEPT ![p] = [version |-> Changes + 1, size |-> n]]
  /\ UNCHANGED <<lru, walk, usedSince>>

\* A walk begins: List with an empty token.
Walk(w, p) ==
  /\ walk[w].at = "idle"
  /\ walk' = [walk EXCEPT ![w] = [@ EXCEPT !.path = p, !.offset = 0, !.at = "listing", !.seen = {}, !.from = {}]]
  /\ UNCHANGED <<remote, lru, usedSince>>

\* List with the token of the page before.
Continue(w) ==
  /\ walk[w].at = "paused"
  /\ walk' = [walk EXCEPT ![w].at = "listing"]
  /\ UNCHANGED <<remote, lru, usedSince>>

\* The user leaves the directory.
Abandon(w) ==
  /\ walk[w].at = "paused"
  /\ walk' = [walk EXCEPT ![w] = [@ EXCEPT !.at = "idle", !.seen = {}, !.from = {}]]
  /\ UNCHANGED <<remote, lru, usedSince>>

\* The page cut from a listing, and the token for the next.
Take(w, l) ==
  LET v == walk[w]
      next == NextOffset(l.size, v.offset)
  IN walk' = [walk EXCEPT ![w] =
       [v EXCEPT !.at = IF next = LastPage THEN "idle" ELSE "paused", !.offset = next,
                 !.seen = @ \union {<<l.version, i>> : i \in Page(l.size, v.offset)},
                 !.from = @ \union {l}, !.read = NotRead]]

ListHit(w) ==
  LET p == walk[w].path IN
  /\ walk[w].at = "listing" /\ IsCached(p)
  /\ lru' = Touched(p)
  /\ Use(p)
  /\ Take(w, CachedListing(p))
  /\ UNCHANGED remote

\* A miss reads the directory, without a lock, ...
ListMiss(w) ==
  /\ walk[w].at = "listing" /\ ~IsCached(walk[w].path)
  /\ walk' = [walk EXCEPT ![w].at = "reading"]
  /\ UNCHANGED <<remote, lru, usedSince>>

ReadDir(w) ==
  /\ walk[w].at = "reading"
  /\ walk' = [walk EXCEPT ![w].at = "put", ![w].read = remote[walk[w].path]]
  /\ UNCHANGED <<remote, lru, usedSince>>

ReadDirFails(w) ==
  /\ walk[w].at = "reading"
  /\ walk' = [walk EXCEPT ![w].at = "idle"]
  /\ UNCHANGED <<remote, lru, usedSince>>

\* ... puts the listing and cuts its page from what it has read.
ListPut(w) ==
  LET p == walk[w].path IN
  /\ walk[w].at = "put"
  /\ lru' = Put(p, walk[w].read)
  /\ Use(p)
  /\ Take(w, walk[w].read)
  /\ UNCHANGED remote

PageNext ==
  \/ \E p \in Paths : RemoteChange(p) \/ \E w \in Walkers : Walk(w, p)
  \/ \E w \in Walkers :
       \/ Continue(w) \/ Abandon(w) \/ ListHit(w) \/ ListMiss(w)
       \/ ReadDir(w) \/ ReadDirFails(w) \/ ListPut(w)

PageSpec == PageInit /\ [][PageNext]_pageVars

-----------------------------------------------------------------------------
PageTypeOK ==
  /\ remote \in [Paths -> Listing]
  /\ lru \in Seq([path : Paths, listing : Listing]) /\ Len(lru) <= CacheCap
  /\ \A w \in Walkers : walk[w].at \in {"idle", "listing", "paused", "reading", "put"} /\ walk[w].path \in Paths

\* The cache is an LRU: a path is cached exactly when it has been used and fewer
\* than CacheCap other paths have been since, by any interleaving of walkers that
\* hit, miss and put the same path twice.
CacheIsLRU ==
  \A p \in Paths : IsCached(p) <=> p \notin usedSince[p] /\ Cardinality(usedSince[p]) < CacheCap

\* The pages of a walk cover the listing they were cut from: when they all came
\* from one, what has been seen is its first entries, all of them at the end.
\* (After an eviction or a second put a token may continue in another listing.)
WalkCovers ==
  \A w \in Walkers : \A l \in walk[w].from :
    walk[w].from = {l} =>
      walk[w].seen = {<<l.version, i>> :
        i \in 1 .. (IF walk[w].at = "idle" /\ walk[w].offset = LastPage THEN l.size ELSE walk[w].offset)}
=============================================================================
