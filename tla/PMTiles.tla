------------------------------ MODULE PMTiles ------------------------------
(***************************************************************************)
(* The PMTiles client of the map pages (src/app/static/js/pmtiles.js): one *)
(* PMTiles object over a FetchSource and a SharedPromiseCache, as the      *)
(* pages of a trip, a charge and a vehicle build it, reading an archive    *)
(* that its operator may replace by a newer one at any moment.             *)
(*                                                                         *)
(* The bytes of an answer are known by the version of the archive they     *)
(* come from.  A promise of the cache is a job; requests wait for jobs,    *)
(* several for the same one, and only tile and metadata bytes are fetched  *)
(* by the request itself.                                                  *)
(***************************************************************************)
EXTENDS Integers, Sequences, FiniteSets

CONSTANTS
  Requests,          \* the calls a page makes, in any order and overlapping
  Kind,              \* of each: "tile" (getZxy), "meta" (getMetadata) or "header" (getHeader)
  MaxVersion,        \* bound: how often the archive is replaced, plus one
  OldFormat,         \* the versions of the archive that are written in format 1 or 2
  Dirs, Root,        \* where directories are in the file
  Entry,             \* Entry[v][d][r]: what directory d of version v holds for r
  Strong,            \* does the server send strong ETags?
  MaxCacheEntries,   \* entries at which the cache prunes
  MaxFaults          \* bound: answers that fail

Versions == 1..MaxVersion
Tile == "tile"       \* an entry with a run: the tile's bytes; otherwise a leaf directory
Absent == "absent"
Outside == "outside" \* of the root: the zoom levels of the header do not hold r

ASSUME PMTilesAssumption ==
  /\ MaxVersion \in Nat /\ MaxVersion > 0 /\ OldFormat \subseteq Versions
  /\ Kind \in [Requests -> {"tile", "meta", "header"}]
  /\ Root \in Dirs /\ {Tile, Absent, Outside} \intersect Dirs = {}
  /\ Entry \in [Versions -> [Dirs -> [Requests -> Dirs \union {Tile, Absent, Outside}]]]
  /\ Strong \in BOOLEAN
  /\ MaxCacheEntries \in Nat /\ MaxFaults \in Nat

VARIABLES
  version,           \* of the archive on the server
  faults,            \* answers that failed so far
  noStore,           \* FetchSource: chromeWindowsNoCache, which the map pages set
  mustReload,        \* FetchSource: bypass the browser's cache from now on
  cache,             \* the Map, least recently used first: [key, job]
  jobs,              \* every promise made so far
  invalidating,      \* the entry of invalidations: a header job, 0 if there is none
  req                \* of each request, where it is

vars == << version, faults, noStore, mustReload, cache, jobs, invalidating, req >>

----------------------------------------------------------------------------
(* Answers of the server: a version, or one of these. *)
Failed == -1         \* network error, abort, bad status or missing length
Short == -2          \* 416: the file has no such range

Etag(v) == IF Strong THEN v ELSE 0            \* a weak tag is dropped: 0

\* What a fetch may be answered with.  expected is the version whose header gave
\* the range: only another version can be too short for it.
Answers(reload, expected) ==
  {version} \union (IF ~noStore /\ ~reload THEN 1..version ELSE {})
  \union (IF faults < MaxFaults THEN {Failed} ELSE {})
  \union (IF faults < MaxFaults /\ expected # version THEN {Short} ELSE {})

\* getBytes() after the answer: an exception, or the bytes.
Outcome(a, etag) ==
  IF a = Failed THEN "error"
  ELSE IF a = Short \/ (etag # 0 /\ Etag(a) # 0 /\ Etag(a) # etag) THEN "mismatch"
  ELSE "ok"

----------------------------------------------------------------------------
(* The cache. *)

HeaderKey == [of |-> "header", etag |-> 0, at |-> Root]

\* Mutant: the directories of all versions share their keys.
DirKeyNoTag(v, at) == [of |-> "dir", etag |-> 0, at |-> at]
DirKey(v, at) == [of |-> "dir", etag |-> Etag(v), at |-> at]

Cached(c, key) == \E i \in 1..Len(c) : c[i].key = key
Place(c, key) == CHOOSE i \in 1..Len(c) : c[i].key = key
JobOf(c, key) == c[Place(c, key)].job
Without(c, key) ==
  IF Cached(c, key)
  THEN [i \in 1..(Len(c) - 1) |-> c[IF i < Place(c, key) THEN i ELSE i + 1]]
  ELSE c
Used(c, key, j) == Append(Without(c, key), [key |-> key, job |-> j])

prune(c) == IF c # << >> /\ Len(c) >= MaxCacheEntries THEN Tail(c) ELSE c

\* A new promise: its fetch is on its way at once.  hdr is the version whose
\* header it belongs to (0 for a header), got the version of its value.
NewJob(key, hdr, reload) ==
  [key |-> key, hdr |-> hdr, step |-> "sent", reload |-> reload, round |-> 1, answer |-> 0, got |-> 0]
Resolved(key, v) == [NewJob(key, v, FALSE) EXCEPT !.step = "done", !.got = v]

\* getHeader(), getDirectory(), getArrayBuffer(): join the promise in the cache or
\* make one.  The result is the cache, the jobs and the job to wait for.
Promise(c, js, key, hdr, reload) ==
  IF Cached(c, key)
  THEN [cache |-> Used(c, key, JobOf(c, key)), jobs |-> js, job |-> JobOf(c, key)]
  ELSE [cache |-> Used(c, key, Len(js) + 1), jobs |-> Append(js, NewJob(key, hdr, reload)),
        job |-> Len(js) + 1]

----------------------------------------------------------------------------
(* Requests. *)

Idle == [pc |-> "idle", attempt |-> 0, job |-> 0, at |-> Root, depth |-> 0, hdr |-> 0,
         reload |-> FALSE, answer |-> 0, dirs |-> {}, result |-> "none", got |-> 0,
         began |-> 0, ended |-> 0]

Init ==
  /\ version = 1 /\ faults = 0 /\ noStore \in BOOLEAN /\ mustReload = FALSE /\ cache = << >> /\ jobs = << >>
  /\ invalidating = 0
  /\ req = [r \in Requests |-> Idle]

Finish(r, result, got) ==
  req' = [req EXCEPT ![r].pc = "done", ![r].result = result, ![r].got = got, ![r].ended = version]

\* Wait for the promise of a key: p is the result of Promise.
Await(r, pc, p, hdr, at, depth, dirs) ==
  req' = [req EXCEPT ![r].pc = pc, ![r].job = p.job, ![r].hdr = hdr, ![r].at = at,
                     ![r].depth = depth, ![r].dirs = dirs]

\* getZxyAttempt() and getMetadataAttempt() start with the header.
Attempt(r, n, c, js, reload, inv) ==
  LET p == Promise(c, js, HeaderKey, 0, reload)
  IN  /\ cache' = p.cache
      /\ jobs' = p.jobs
      /\ invalidating' = inv
      /\ req' = [req EXCEPT ![r] = [Idle EXCEPT !.pc = "header", !.attempt = n, !.job = p.job,
                                                !.began = IF n = 1 THEN version ELSE req[r].began]]

Start(r) ==
  /\ req[r].pc = "idle"
  /\ Attempt(r, 1, cache, jobs, mustReload, invalidating)
  /\ UNCHANGED << version, noStore, faults, mustReload >>

\* Mutant: the second attempt starts with the header that the first one had.
RetryStale(r) == Attempt(r, 2, cache, jobs, TRUE, invalidating)

\* invalidate() and the second attempt, in one go: the header is dropped and read
\* anew, unless an invalidation is under way (or has failed: it is never removed).
Retry(r) ==
  IF invalidating # 0
  THEN Attempt(r, 2, cache, jobs, TRUE, invalidating)
  ELSE Attempt(r, 2, Used(Without(cache, HeaderKey), HeaderKey, Len(jobs) + 1),
               Append(jobs, NewJob(HeaderKey, 0, TRUE)), TRUE, Len(jobs) + 1)

\* The catch of getZxy() and getMetadata().  getHeader() has none.
Throw(r, error) ==
  IF error = "mismatch" /\ req[r].attempt = 1 /\ Kind[r] # "header"
  THEN Retry(r)
  ELSE Finish(r, error, 0) /\ UNCHANGED << cache, jobs, invalidating >>

\* Fetch the bytes of a tile or of the metadata.
Fetch(r, hdr, dirs) ==
  /\ req' = [req EXCEPT ![r].pc = "sent", ![r].hdr = hdr, ![r].reload = mustReload, ![r].dirs = dirs]
  /\ UNCHANGED << cache, jobs, invalidating >>

GetDirectory(r, hdr, at, depth, dirs) ==
  LET p == Promise(cache, jobs, DirKey(hdr, at), hdr, mustReload)
  IN  /\ cache' = p.cache /\ jobs' = p.jobs
      /\ Await(r, "dir", p, hdr, at, depth, dirs)
      /\ UNCHANGED invalidating

\* The header has arrived.  Its zoom levels are looked at in format 3 only.
HeaderReady(r, v) ==
  CASE Kind[r] = "header" -> Finish(r, "header", v) /\ UNCHANGED << cache, jobs, invalidating >>
    [] Kind[r] = "meta" -> Fetch(r, v, {})
    [] Kind[r] = "tile" ->
         IF v \notin OldFormat /\ Entry[v][Root][r] = Outside
         THEN Finish(r, Absent, 0) /\ UNCHANGED << cache, jobs, invalidating >>
         ELSE GetDirectory(r, v, Root, 0, {})

\* Mutant: leaf directories are followed without end.
DirectoryReadyNoLimit(r, v) ==
  LET e == Entry[v][req[r].at][r]
      dirs == req[r].dirs \union {v}
  IN  IF e = Tile THEN Fetch(r, req[r].hdr, dirs)
      ELSE IF e \in {Absent, Outside} \/ (req[r].hdr \in OldFormat /\ req[r].depth > 0)
      THEN Finish(r, Absent, 0) /\ UNCHANGED << cache, jobs, invalidating >>
      ELSE GetDirectory(r, req[r].hdr, e, 0, dirs)

\* A directory has arrived: findTile(), then the tile, a leaf directory or nothing.
\* Formats 1 and 2 have one level of leaves; format 3 is followed four deep.
DirectoryReady(r, v) ==
  LET e == Entry[v][req[r].at][r]
      dirs == req[r].dirs \union {v}
  IN  IF e = Tile THEN Fetch(r, req[r].hdr, dirs)
      ELSE IF e \in {Absent, Outside} \/ (req[r].hdr \in OldFormat /\ req[r].depth > 0)
      THEN Finish(r, Absent, 0) /\ UNCHANGED << cache, jobs, invalidating >>
      ELSE IF req[r].depth = 3
      THEN Finish(r, "error", 0) /\ UNCHANGED << cache, jobs, invalidating >>
      ELSE GetDirectory(r, req[r].hdr, e, req[r].depth + 1, dirs)

\* The promise a request waits for is settled.
Continue(r) ==
  LET j == jobs[req[r].job]
  IN  /\ req[r].pc \in {"header", "dir"}
      /\ j.step \in {"done", "mismatch", "error"}
      /\ IF j.step # "done" THEN Throw(r, j.step)
         ELSE IF req[r].pc = "header" THEN HeaderReady(r, j.got)
         ELSE DirectoryReady(r, j.got)
      /\ UNCHANGED << version, noStore, faults, mustReload >>

\* The server or the browser's cache answers the request's own fetch.
AnswerRequest(r) ==
  /\ req[r].pc = "sent"
  /\ \E a \in Answers(req[r].reload, req[r].hdr) :
       /\ req' = [req EXCEPT ![r].pc = "answered", ![r].answer = a]
       /\ faults' = IF a < 0 THEN faults + 1 ELSE faults
  /\ UNCHANGED << version, noStore, mustReload, cache, jobs, invalidating >>

\* Tiles of formats 1 and 2 are fetched without a tag to compare.
TileTag(hdr, kind) == IF kind = "tile" /\ hdr \in OldFormat THEN 0 ELSE Etag(hdr)

ReceiveRequest(r) ==
  LET o == Outcome(req[r].answer, TileTag(req[r].hdr, Kind[r]))
  IN  /\ req[r].pc = "answered"
      /\ mustReload' = (mustReload \/ o = "mismatch")
      /\ IF o = "ok" THEN Finish(r, Kind[r], req[r].answer) /\ UNCHANGED << cache, jobs, invalidating >>
         ELSE Throw(r, o)
      /\ UNCHANGED << version, noStore, faults >>

----------------------------------------------------------------------------
(* Jobs. *)

AnswerJob(j) ==
  /\ jobs[j].step = "sent"
  /\ \E a \in Answers(jobs[j].reload, jobs[j].hdr) :
       /\ jobs' = [jobs EXCEPT ![j].step = "answered", ![j].answer = a]
       /\ faults' = IF a < 0 THEN faults + 1 ELSE faults
  /\ UNCHANGED << version, noStore, mustReload, cache, invalidating, req >>

\* A promise that is kept: what hangs on it, and one entry fewer in a full cache.
Keep(j, v, c, js) ==
  /\ cache' = prune(c)
  /\ jobs' = [js EXCEPT ![j].step = "done", ![j].got = v]
  /\ invalidating' = IF invalidating = j THEN 0 ELSE invalidating

\* A rejected promise stays in the cache, and its invalidation in its map.
Reject(j, error) ==
  /\ jobs' = [jobs EXCEPT ![j].step = error]
  /\ UNCHANGED << cache, invalidating >>

\* The first bytes tell formats 1 and 2 from format 3.
detectVersion(v) == IF v \in OldFormat THEN 2 ELSE 3

\* The header of formats 1 and 2, once its own, longer range is there: what is
\* read is no header if a newer archive took the place of the old one meanwhile.
v2Header(j, v) == IF detectVersion(v) < 3 THEN Keep(j, v, cache, jobs) ELSE Reject(j, "error")

\* getHeaderAndRoot(): format 3 brings the root directory along, under the key of
\* its own tag; an older format is read a second time, by its own reader.
HeaderBytes(j, v) ==
  IF jobs[j].round >= 3 THEN v2Header(j, v)
  ELSE IF detectVersion(v) < 3
  THEN /\ jobs' = [jobs EXCEPT ![j].step = "sent", ![j].round = 3, ![j].reload = mustReload]
       /\ UNCHANGED << cache, invalidating >>
  ELSE Keep(j, v, Used(cache, DirKey(v, Root), Len(jobs) + 1),
            Append(jobs, Resolved(DirKey(v, Root), v)))

ReceiveJob(j) ==
  LET a == jobs[j].answer
      o == Outcome(a, Etag(jobs[j].hdr))
      header == jobs[j].key.of = "header"
      \* 416 for the first range of a header: the whole file is asked for, past
      \* the browser's cache
      again == header /\ a = Short /\ jobs[j].round \in {1, 3}
  IN  /\ jobs[j].step = "answered"
      /\ mustReload' = (mustReload \/ (o = "mismatch" /\ ~again))
      /\ IF again
         THEN /\ jobs' = [jobs EXCEPT ![j].step = "sent", ![j].round = @ + 1, ![j].reload = TRUE]
              /\ UNCHANGED << cache, invalidating >>
         ELSE IF o # "ok" THEN Reject(j, o)
         ELSE IF header THEN HeaderBytes(j, a)
         ELSE Keep(j, a, cache, jobs)
      /\ UNCHANGED << version, noStore, faults, req >>

\* The operator puts a newer archive in place.
Replace ==
  /\ version < MaxVersion
  /\ version' = version + 1
  /\ UNCHANGED << faults, noStore, mustReload, cache, jobs, invalidating, req >>

----------------------------------------------------------------------------
RequestStep(r) == Start(r) \/ Continue(r) \/ AnswerRequest(r) \/ ReceiveRequest(r)
JobStep(j) == AnswerJob(j) \/ ReceiveJob(j)

Next ==
  \/ \E r \in Requests : RequestStep(r)
  \/ \E j \in 1..Len(jobs) : JobStep(j)
  \/ Replace

\* Started requests go on and fetches are settled at last (the browser ends a
\* fetch that gets no answer with an error); starting one is up to the map.
RequestsRun == \E r \in Requests : Continue(r) \/ AnswerRequest(r) \/ ReceiveRequest(r)
JobsRun == \E j \in 1..Len(jobs) : JobStep(j)
Fairness == WF_vars(RequestsRun) /\ WF_vars(JobsRun)

Spec == Init /\ [][Next]_vars /\ Fairness

----------------------------------------------------------------------------
TypeOK ==
  /\ version \in Versions /\ faults \in Nat /\ noStore \in BOOLEAN /\ mustReload \in BOOLEAN
  /\ \A i \in 1..Len(cache) : cache[i].job \in 1..Len(jobs)
  /\ invalidating \in 0..Len(jobs)
  /\ \A r \in Requests : req[r].job \in 0..Len(jobs)

(* With strong ETags a tile of a format-3 archive comes from one archive:   *)
(* its bytes, the header and every directory that led to them are of the    *)
(* same version, however the archive was replaced meanwhile and whichever   *)
(* promises of earlier versions the cache still holds.                      *)
OneArchive ==
  \A r \in Requests :
    req[r].result = "tile" /\ Strong /\ req[r].hdr \notin OldFormat
      => req[r].got = req[r].hdr /\ req[r].dirs = {req[r].hdr}

(* As the pages configure it, the caller sees a mismatch only if the        *)
(* archive was replaced while its request was under way (or an earlier      *)
(* invalidation failed, which blocks every later one, or the server refused *)
(* the header's own range twice): the single retry always starts from a     *)
(* newer header, also when it joins the invalidation of another request.    *)
(* It needs tags that tell versions apart and a cache that keeps the        *)
(* header an invalidation fetches for as long as requests wait for it.      *)
MismatchMeansReplaced ==
  \A r \in Requests :
    req[r].result = "mismatch" /\ Kind[r] # "header" /\ noStore =>
      \/ req[r].began < req[r].ended
      \/ invalidating # 0 /\ jobs[invalidating].step \in {"error", "mismatch"}
      \/ jobs[req[r].job].key.of = "header" /\ jobs[req[r].job].step = "mismatch"

(* Every request that was started ends, whatever fails on the way and even  *)
(* if leaf directories refer to each other in a circle.                     *)
RequestsEnd == \A r \in Requests : req[r].pc # "idle" ~> req[r].pc = "done"
============================================================================
