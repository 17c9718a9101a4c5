--------------------------- MODULE PMTilesProofs ---------------------------
(***************************************************************************)
(* The PMTiles client for any number of requests, versions and             *)
(* directories, any cache size and any directory contents, and its readers *)
(* for any input.                                                          *)
(*                                                                         *)
(* One archive.  A promise is known by its key, and the key of a directory *)
(* holds the tag of the header it was asked for.  The invariant says that  *)
(* a promise that is kept has that tag, that the cache leads a key to a    *)
(* promise made for it, and that a request has only met directories of its *)
(* header's tag.                                                           *)
(*                                                                         *)
(* Mismatches.  The invariant says which header an attempt may start from: *)
(* the second one of a request has a header that is not older than the     *)
(* request, or waits for it, or the invalidation has failed for good.      *)
(*                                                                         *)
(* Readers.  The loops are recursive functions; what they return follows   *)
(* from the history of their rounds, by the least counterexample: a        *)
(* natural number at which a claim fails first.                            *)
(***************************************************************************)
EXTENDS PMTiles, PMTilesFormats, SequenceTheorems, FiniteSetTheorems, NaturalsInduction,
        WellFoundedInduction, TLAPS

Keys == [of : {"header", "dir"}, etag : Nat, at : Dirs]
Entries == [key : Keys, job : Nat]
JobRecords ==
  [key : Keys, hdr : 0..MaxVersion, step : {"sent", "answered", "done", "mismatch", "error"},
   reload : BOOLEAN, round : Nat, answer : Int, got : 0..MaxVersion]
ReqRecords ==
  [pc : {"idle", "header", "dir", "sent", "answered", "done"}, attempt : Nat, job : Nat, at : Dirs,
   depth : Nat, hdr : 0..MaxVersion, reload : BOOLEAN, answer : Int, dirs : SUBSET Versions,
   result : {"none", "tile", "meta", "header", "absent", "error", "mismatch"}, got : 0..MaxVersion,
   began : Nat, ended : Nat]

\* A promise: what it was made for, and what its value is once it is kept.
JobOK(j) ==
  /\ j.key.of = "dir" => j.hdr \in Versions /\ j.key.etag = Etag(j.hdr)
  /\ j.step = "answered" => j.answer \in Versions \union {Failed, Short}
  /\ j.step = "done" => j.got \in Versions
  /\ j.step = "done" /\ j.key.of = "dir" => Etag(j.got) = Etag(j.hdr)
JobsOK(js) == js \in Seq(JobRecords) /\ \A j \in 1..Len(js) : JobOK(js[j])

\* The cache leads a key to a promise made for that key.
CacheOK(c, js) ==
  /\ c \in Seq(Entries)
  /\ \A i \in 1..Len(c) : c[i].job \in 1..Len(js) /\ js[c[i].job].key = c[i].key

\* A request: which promise it waits for, and what it has met so far.
ReqOK(q, kind, js) ==
  /\ q.pc \in {"header", "dir"} => q.job \in 1..Len(js)
  /\ q.pc = "dir" => q.hdr \in Versions /\ js[q.job].key = DirKey(q.hdr, q.at)
  /\ q.pc \in {"sent", "answered"} => q.hdr \in Versions /\ (kind = "tile" => q.dirs # {})
  /\ q.pc = "answered" => q.answer \in Versions \union {Failed, Short}
  /\ \A d \in q.dirs : Etag(d) = Etag(q.hdr)
  /\ q.result # "none" => q.pc = "done"
  /\ q.result = "tile" => /\ q.hdr \in Versions /\ q.got \in Versions /\ q.dirs # {}
                          /\ q.hdr \notin OldFormat => Etag(q.got) = Etag(q.hdr)
ReqsOK(qs, js) == qs \in [Requests -> ReqRecords] /\ \A r \in Requests : ReqOK(qs[r], Kind[r], js)

ArchiveInv ==
  /\ version \in Versions /\ mustReload \in BOOLEAN
  /\ JobsOK(jobs) /\ CacheOK(cache, jobs) /\ ReqsOK(req, jobs)

\* Promises are added and settled; none is forgotten or made for another key.
GrowsTo(js, ks) ==
  /\ Len(js) <= Len(ks)
  /\ \A i \in 1..Len(js) : ks[i].key = js[i].key

----------------------------------------------------------------------------
\* Tags: equal tags of strong versions are equal versions.
LEMMA TagsTell ==
  ASSUME NEW v \in 0..MaxVersion, NEW w \in 0..MaxVersion
  PROVE  Etag(v) \in Nat /\ (Strong /\ Etag(v) = Etag(w) => v = w)
BY PMTilesAssumption DEF Etag

\* getBytes() returns only bytes of the tag it was asked for.
LEMMA GoodBytes ==
  ASSUME NEW a \in Versions \union {Failed, Short}, NEW v \in Versions, Outcome(a, Etag(v)) = "ok"
  PROVE  a \in Versions /\ Etag(a) = Etag(v)
BY PMTilesAssumption DEF Outcome, Etag, Versions, Failed, Short

\* Bytes without a tag to compare are at least some version's.
LEMMA AnyBytes ==
  ASSUME NEW a \in Versions \union {Failed, Short}, NEW t, Outcome(a, t) = "ok"
  PROVE  a \in Versions
BY PMTilesAssumption DEF Outcome, Versions, Failed, Short

\* The keys, and the tag in the key of a directory.
LEMMA KeysOK ==
  ASSUME NEW v \in 0..MaxVersion, NEW d \in Dirs
  PROVE  DirKey(v, d) \in Keys /\ DirKey(v, d).of = "dir" /\ DirKey(v, d).etag = Etag(v)
         /\ HeaderKey \in Keys /\ HeaderKey.of = "header"
BY TagsTell, PMTilesAssumption DEF DirKey, HeaderKey, Keys

\* What a new promise and one that is kept from the start are.
LEMMA NewJobOK ==
  ASSUME NEW k \in Keys, NEW v \in 0..MaxVersion, NEW b \in BOOLEAN,
         k.of = "dir" => v \in Versions /\ k.etag = Etag(v)
  PROVE  NewJob(k, v, b) \in JobRecords /\ JobOK(NewJob(k, v, b)) /\ NewJob(k, v, b).key = k
BY PMTilesAssumption DEF NewJob, JobRecords, JobOK

\* The promise of a root directory that came with its header.
LEMMA ResolvedOK ==
  ASSUME NEW v \in Versions, NEW d \in Dirs
  PROVE  LET x == Resolved(DirKey(v, d), v)
         IN  x \in JobRecords /\ JobOK(x) /\ x.key = DirKey(v, d)
<1>1. DirKey(v, d) \in Keys /\ DirKey(v, d).etag = Etag(v) /\ v \in 0..MaxVersion
  BY KeysOK, PMTilesAssumption DEF Versions
<1> DEFINE n == NewJob(DirKey(v, d), v, FALSE)
<1>2. n \in JobRecords /\ JobOK(n) /\ n.key = DirKey(v, d) /\ n.hdr = v
  BY <1>1, NewJobOK DEF NewJob
<1> HIDE DEF n
<1> DEFINE x == [n EXCEPT !.step = "done", !.got = v]
<1>3. x \in JobRecords /\ x.key = n.key /\ x.hdr = n.hdr /\ x.step = "done" /\ x.got = v
  BY <1>1, <1>2 DEF JobRecords
<1> HIDE DEF x
<1>4. JobOK(x)
  BY <1>2, <1>3 DEF JobOK
<1>q. QED
  BY <1>2, <1>3, <1>4 DEF x, n, Resolved

----------------------------------------------------------------------------
\* One more promise.
LEMMA AppendJob ==
  ASSUME NEW js, JobsOK(js), NEW x \in JobRecords, JobOK(x)
  PROVE  /\ JobsOK(Append(js, x)) /\ GrowsTo(js, Append(js, x))
         /\ Len(js) + 1 \in 1..Len(Append(js, x)) /\ Append(js, x)[Len(js) + 1] = x
BY DEF JobsOK, GrowsTo

\* A promise that changes, but not its key.
LEMMA ChangeJob ==
  ASSUME NEW js, JobsOK(js), NEW j \in 1..Len(js), NEW x \in JobRecords, JobOK(x), x.key = js[j].key
  PROVE  JobsOK([js EXCEPT ![j] = x]) /\ GrowsTo(js, [js EXCEPT ![j] = x])
BY DEF JobsOK, GrowsTo

\* Growing twice is growing.
LEMMA GrowsTransitive ==
  ASSUME NEW js, NEW ks, NEW ls, JobsOK(js), JobsOK(ks), JobsOK(ls), GrowsTo(js, ks), GrowsTo(ks, ls)
  PROVE  GrowsTo(js, ls)
BY DEF JobsOK, GrowsTo

\* The cache stays right when promises are added or settled.
LEMMA CacheOfMoreJobs ==
  ASSUME NEW js, NEW ks, NEW c, JobsOK(js), JobsOK(ks), GrowsTo(js, ks), CacheOK(c, js)
  PROVE  CacheOK(c, ks)
BY DEF JobsOK, CacheOK, GrowsTo

\* So does what is known of a request.
LEMMA ReqOfMoreJobs ==
  ASSUME NEW js, NEW ks, NEW q \in ReqRecords, NEW kind, JobsOK(js), JobsOK(ks), GrowsTo(js, ks), ReqOK(q, kind, js)
  PROVE  ReqOK(q, kind, ks)
BY DEF JobsOK, ReqOK, GrowsTo, ReqRecords

\* One entry fewer.
LEMMA WithoutOK ==
  ASSUME NEW c, NEW js, NEW key, JobsOK(js), CacheOK(c, js)
  PROVE  CacheOK(Without(c, key), js)
<1>1. CASE ~Cached(c, key)
  BY <1>1 DEF Without
<1>2. CASE Cached(c, key)
  <2>1. Place(c, key) \in 1..Len(c) /\ Len(c) \in Nat /\ Len(c) > 0
    BY <1>2 DEF Cached, Place, CacheOK
  <2> DEFINE s == [i \in 1..(Len(c) - 1) |-> c[IF i < Place(c, key) THEN i ELSE i + 1]]
  <2>2. \A i \in 1..(Len(c) - 1) : (IF i < Place(c, key) THEN i ELSE i + 1) \in 1..Len(c)
    BY <2>1
  <2>3. \A i \in 1..(Len(c) - 1) : s[i] \in Entries
    BY <2>1, <2>2 DEF CacheOK
  <2>4. s \in Seq(Entries) /\ Len(s) = Len(c) - 1
    BY <2>1, <2>3, IsASeq
  <2>5. \A i \in 1..Len(s) : s[i].job \in 1..Len(js) /\ js[s[i].job].key = s[i].key
    BY <2>1, <2>2, <2>4 DEF CacheOK
  <2>6. s = Without(c, key)
    BY <1>2 DEF Without
  <2>q. QED
    BY <2>4, <2>5, <2>6 DEF CacheOK
<1>q. QED
  BY <1>1, <1>2

\* An entry that becomes the most recently used one, or a new one.
LEMMA UsedOK ==
  ASSUME NEW c, NEW js, NEW key \in Keys, NEW j \in 1..Len(js), JobsOK(js), CacheOK(c, js), js[j].key = key
  PROVE  CacheOK(Used(c, key, j), js)
<1> DEFINE w == Without(c, key)
           e == [key |-> key, job |-> j]
<1>1. CacheOK(w, js)
  BY WithoutOK
<1>2. e \in Entries /\ e.job = j /\ e.key = key
  BY DEF Entries, JobsOK
<1> HIDE DEF w, e
<1>3. CacheOK(Append(w, e), js)
  BY <1>1, <1>2 DEF CacheOK
<1>q. QED
  BY <1>3 DEF w, e, Used

\* The least recently used entry goes.
LEMMA PruneOK ==
  ASSUME NEW c, NEW js, JobsOK(js), CacheOK(c, js)
  PROVE  CacheOK(prune(c), js)
<1>1. CASE c # << >> /\ Len(c) >= MaxCacheEntries
  <2>1. Len(c) \in Nat /\ Len(c) > 0 /\ Tail(c) \in Seq(Entries) /\ Len(Tail(c)) = Len(c) - 1
        /\ \A i \in 1..Len(Tail(c)) : Tail(c)[i] = c[i + 1] /\ i + 1 \in 1..Len(c)
    BY <1>1 DEF CacheOK
  <2>q. QED
    BY <1>1, <2>1 DEF prune, CacheOK
<1>2. CASE ~(c # << >> /\ Len(c) >= MaxCacheEntries)
  BY <1>2 DEF prune
<1>q. QED
  BY <1>1, <1>2

\* The promise of a key, found or made.
LEMMA PromiseOK ==
  ASSUME NEW c, NEW js, NEW key \in Keys, NEW v \in 0..MaxVersion, NEW b \in BOOLEAN,
         key.of = "dir" => v \in Versions /\ key.etag = Etag(v),
         JobsOK(js), CacheOK(c, js)
  PROVE  LET p == Promise(c, js, key, v, b)
         IN  /\ JobsOK(p.jobs) /\ GrowsTo(js, p.jobs) /\ CacheOK(p.cache, p.jobs)
             /\ p.job \in 1..Len(p.jobs) /\ p.jobs[p.job].key = key
<1>1. CASE Cached(c, key)
  <2>1. Place(c, key) \in 1..Len(c) /\ c[Place(c, key)].key = key
    BY <1>1 DEF Cached, Place
  <2>2. JobOf(c, key) \in 1..Len(js) /\ js[JobOf(c, key)].key = key
    BY <2>1 DEF JobOf, CacheOK
  <2>3. CacheOK(Used(c, key, JobOf(c, key)), js)
    BY <2>2, UsedOK
  <2>4. GrowsTo(js, js)
    BY DEF GrowsTo, JobsOK
  <2>q. QED
    BY <1>1, <2>2, <2>3, <2>4 DEF Promise
<1>2. CASE ~Cached(c, key)
  <2> DEFINE x == NewJob(key, v, b)
             ks == Append(js, x)
             n == Len(js) + 1
  <2>1. x \in JobRecords /\ JobOK(x) /\ x.key = key
    BY NewJobOK
  <2> HIDE DEF x
  <2>2. JobsOK(ks) /\ GrowsTo(js, ks) /\ n \in 1..Len(ks) /\ ks[n] = x
    BY <2>1, AppendJob
  <2> HIDE DEF ks, n
  <2>3. CacheOK(c, ks)
    BY <2>2, CacheOfMoreJobs
  <2>4. CacheOK(Used(c, key, n), ks)
    BY <2>1, <2>2, <2>3, UsedOK
  <2>5. Promise(c, js, key, v, b) = [cache |-> Used(c, key, n), jobs |-> ks, job |-> n]
    BY <1>2 DEF Promise, ks, n, x
  <2>q. QED
    BY <2>1, <2>2, <2>4, <2>5
<1>q. QED
  BY <1>1, <1>2

----------------------------------------------------------------------------
(* Steps.  A step of a request changes its own record only. *)

StepOK == JobsOK(jobs') /\ CacheOK(cache', jobs') /\ ReqsOK(req', jobs')

\* One request changes, over promises that grow.
LEMMA RequestChanges ==
  ASSUME ReqsOK(req, jobs), JobsOK(jobs), JobsOK(jobs'), GrowsTo(jobs, jobs'),
         NEW r \in Requests, NEW q \in ReqRecords, ReqOK(q, Kind[r], jobs'),
         req' = [req EXCEPT ![r] = q]
  PROVE  ReqsOK(req', jobs')
<1>1. req' \in [Requests -> ReqRecords]
  BY DEF ReqsOK
<1>2. ASSUME NEW s \in Requests PROVE ReqOK(req'[s], Kind[s], jobs')
  <2>1. CASE s = r
    BY <2>1 DEF ReqsOK
  <2>2. CASE s # r
    <3>1. req'[s] = req[s] /\ req[s] \in ReqRecords /\ ReqOK(req[s], Kind[s], jobs)
      BY <2>2 DEF ReqsOK
    <3>q. QED
      BY <3>1, ReqOfMoreJobs
  <2>q. QED
    BY <2>1, <2>2
<1>q. QED
  BY <1>1, <1>2 DEF ReqsOK

\* No request changes, over promises that grow.
LEMMA JobsChange ==
  ASSUME ReqsOK(req, jobs), JobsOK(jobs), JobsOK(jobs'), GrowsTo(jobs, jobs'), req' = req
  PROVE  ReqsOK(req', jobs')
<1>1. ASSUME NEW s \in Requests PROVE ReqOK(req[s], Kind[s], jobs')
  <2>1. req[s] \in ReqRecords /\ ReqOK(req[s], Kind[s], jobs)
    BY DEF ReqsOK
  <2>q. QED
    BY <2>1, ReqOfMoreJobs
<1>q. QED
  BY <1>1 DEF ReqsOK

\* A request that was not made yet.
LEMMA IdleOK == Idle \in ReqRecords /\ \A js, kind : ReqOK(Idle, kind, js)
<1>1. Idle \in ReqRecords
  BY PMTilesAssumption DEF Idle, ReqRecords
<1>2. \A js, kind : ReqOK(Idle, kind, js)
  BY DEF Idle, ReqOK
<1>q. QED
  BY <1>1, <1>2

\* The start of an attempt, over a cache and promises that continue the present ones.
LEMMA AttemptOK ==
  ASSUME ArchiveInv, NEW r \in Requests, NEW n \in Nat, NEW c, NEW js, NEW b \in BOOLEAN, NEW inv,
         JobsOK(js), GrowsTo(jobs, js), CacheOK(c, js), Attempt(r, n, c, js, b, inv)
  PROVE  StepOK
<1> DEFINE p == Promise(c, js, HeaderKey, 0, b)
           q == [Idle EXCEPT !.pc = "header", !.attempt = n, !.job = p.job,
                             !.began = IF n = 1 THEN version ELSE req[r].began]
<1>0. 0 \in 0..MaxVersion /\ version \in Nat /\ Root \in Dirs /\ HeaderKey \in Keys /\ HeaderKey.of = "header"
  BY KeysOK, PMTilesAssumption DEF ArchiveInv, Versions
<1>1. /\ JobsOK(p.jobs) /\ GrowsTo(js, p.jobs) /\ CacheOK(p.cache, p.jobs)
      /\ p.job \in 1..Len(p.jobs) /\ p.jobs[p.job].key = HeaderKey
  BY <1>0, PromiseOK
<1>2. jobs' = p.jobs /\ cache' = p.cache /\ req' = [req EXCEPT ![r] = q]
  BY DEF Attempt
<1> HIDE DEF p
<1>3. GrowsTo(jobs, p.jobs)
  BY <1>1, GrowsTransitive DEF ArchiveInv
<1>4. req[r].began \in Nat /\ p.job \in Nat
  BY <1>1 DEF ArchiveInv, ReqsOK, ReqRecords, JobsOK
<1>5. q \in ReqRecords
  <2>1. Idle \in ReqRecords
    BY IdleOK
  <2>2. (IF n = 1 THEN version ELSE req[r].began) \in Nat
    BY <1>0, <1>4
  <2>q. QED
    BY <2>1, <2>2, <1>4 DEF ReqRecords
<1>6. q.pc = "header" /\ q.job = p.job /\ q.dirs = {} /\ q.result = "none"
  BY DEF Idle
<1> HIDE DEF q
<1>7. ReqOK(q, Kind[r], jobs')
  BY <1>1, <1>2, <1>6 DEF ReqOK
<1>8. ReqsOK(req', jobs')
  BY <1>1, <1>2, <1>3, <1>5, <1>7, RequestChanges DEF ArchiveInv
<1>q. QED
  BY <1>1, <1>2, <1>8 DEF StepOK

\* The second attempt, with a new header promise or the one of an invalidation.
LEMMA RetryOK ==
  ASSUME ArchiveInv, NEW r \in Requests, Retry(r)
  PROVE  StepOK
<1>0. JobsOK(jobs) /\ CacheOK(cache, jobs)
  BY DEF ArchiveInv
<1>1. CASE invalidating # 0
  <2>1. GrowsTo(jobs, jobs)
    BY <1>0 DEF GrowsTo, JobsOK
  <2>q. QED
    BY <1>0, <1>1, <2>1, AttemptOK DEF Retry
<1>2. CASE invalidating = 0
  <2> DEFINE x == NewJob(HeaderKey, 0, TRUE)
             js == Append(jobs, x)
             n == Len(jobs) + 1
             c == Used(Without(cache, HeaderKey), HeaderKey, n)
  <2>1. HeaderKey \in Keys /\ HeaderKey.of = "header" /\ 0 \in 0..MaxVersion
    BY KeysOK, PMTilesAssumption
  <2>2. x \in JobRecords /\ JobOK(x) /\ x.key = HeaderKey
    BY <2>1, NewJobOK
  <2>3. Attempt(r, 2, c, js, TRUE, n)
    BY <1>2 DEF Retry
  <2> HIDE DEF x
  <2>4. JobsOK(js) /\ GrowsTo(jobs, js) /\ n \in 1..Len(js) /\ js[n] = x
    BY <1>0, <2>2, AppendJob
  <2> HIDE DEF js, n
  <2>5. CacheOK(Without(cache, HeaderKey), js)
    BY <1>0, <2>4, CacheOfMoreJobs, WithoutOK
  <2>6. CacheOK(c, js)
    BY <2>1, <2>2, <2>4, <2>5, UsedOK
  <2> HIDE DEF c
  <2>q. QED
    BY <2>3, <2>4, <2>6, AttemptOK
<1>q. QED
  BY <1>1, <1>2

\* The end of a request that is under way.
LEMMA FinishOK ==
  ASSUME ArchiveInv, NEW r \in Requests, NEW result, NEW got \in 0..MaxVersion,
         result \in {"none", "tile", "meta", "header", "absent", "error", "mismatch"},
         result = "tile" =>
           /\ req[r].hdr \in Versions /\ got \in Versions /\ req[r].dirs # {}
           /\ req[r].hdr \notin OldFormat => Etag(got) = Etag(req[r].hdr),
         Finish(r, result, got), UNCHANGED << cache, jobs, invalidating >>
  PROVE  StepOK
<1> DEFINE q == [req[r] EXCEPT !.pc = "done", !.result = result, !.got = got, !.ended = version]
<1>0. JobsOK(jobs) /\ CacheOK(cache, jobs) /\ ReqsOK(req, jobs) /\ version \in Nat
  BY PMTilesAssumption DEF ArchiveInv, Versions
<1>1. req[r] \in ReqRecords /\ ReqOK(req[r], Kind[r], jobs)
  BY <1>0 DEF ReqsOK
<1>2. req' = [req EXCEPT ![r] = q]
  BY DEF Finish
<1>3. /\ q \in ReqRecords /\ q.pc = "done" /\ q.result = result /\ q.got = got
      /\ q.hdr = req[r].hdr /\ q.dirs = req[r].dirs
  BY <1>0, <1>1 DEF ReqRecords
<1> HIDE DEF q
<1>4. ReqOK(q, Kind[r], jobs)
  BY <1>1, <1>3 DEF ReqOK
<1>5. GrowsTo(jobs, jobs) /\ jobs' = jobs /\ cache' = cache
  BY <1>0 DEF GrowsTo, JobsOK
<1>6. ReqsOK(req', jobs')
  BY <1>0, <1>2, <1>3, <1>4, <1>5, RequestChanges
<1>q. QED
  BY <1>0, <1>5, <1>6 DEF StepOK

\* An exception: the second attempt, or the end.
LEMMA ThrowOK ==
  ASSUME ArchiveInv, NEW r \in Requests, NEW error \in {"error", "mismatch"}, Throw(r, error)
  PROVE  StepOK
<1>1. CASE error = "mismatch" /\ req[r].attempt = 1 /\ Kind[r] # "header"
  BY <1>1, RetryOK DEF Throw
<1>2. CASE ~(error = "mismatch" /\ req[r].attempt = 1 /\ Kind[r] # "header")
  <2>1. 0 \in 0..MaxVersion
    BY PMTilesAssumption
  <2>q. QED
    BY <1>2, <2>1, FinishOK DEF Throw
<1>q. QED
  BY <1>1, <1>2

\* The request's own fetch: all it has met has the tag of its header.
LEMMA FetchOK ==
  ASSUME ArchiveInv, NEW r \in Requests, NEW v \in Versions, NEW dirs \in SUBSET Versions,
         \A d \in dirs : Etag(d) = Etag(v), Kind[r] = "tile" => dirs # {},
         req[r].pc # "done", Fetch(r, v, dirs)
  PROVE  StepOK
<1> DEFINE q == [req[r] EXCEPT !.pc = "sent", !.hdr = v, !.reload = mustReload, !.dirs = dirs]
<1>0. JobsOK(jobs) /\ CacheOK(cache, jobs) /\ ReqsOK(req, jobs) /\ v \in 0..MaxVersion /\ mustReload \in BOOLEAN
  BY PMTilesAssumption DEF ArchiveInv, Versions
<1>1. req[r] \in ReqRecords /\ ReqOK(req[r], Kind[r], jobs)
  BY <1>0 DEF ReqsOK
<1>2. req' = [req EXCEPT ![r] = q]
  BY DEF Fetch
<1>3. q \in ReqRecords /\ q.pc = "sent" /\ q.result = req[r].result /\ q.hdr = v /\ q.dirs = dirs
  BY <1>0, <1>1 DEF ReqRecords
<1> HIDE DEF q
<1>4. ReqOK(q, Kind[r], jobs)
  BY <1>1, <1>3 DEF ReqOK
<1>5. GrowsTo(jobs, jobs) /\ jobs' = jobs /\ cache' = cache
  BY <1>0 DEF GrowsTo, JobsOK, Fetch
<1>6. ReqsOK(req', jobs')
  BY <1>0, <1>2, <1>3, <1>4, <1>5, RequestChanges
<1>q. QED
  BY <1>0, <1>5, <1>6 DEF StepOK

\* On to a directory, under the tag of the header.
LEMMA GetDirectoryOK ==
  ASSUME ArchiveInv, NEW r \in Requests, NEW v \in Versions, NEW at \in Dirs, NEW n \in Nat,
         NEW dirs \in SUBSET Versions, \A d \in dirs : Etag(d) = Etag(v),
         req[r].pc # "done", GetDirectory(r, v, at, n, dirs)
  PROVE  StepOK
<1> DEFINE key == DirKey(v, at)
           p == Promise(cache, jobs, key, v, mustReload)
           q == [req[r] EXCEPT !.pc = "dir", !.job = p.job, !.hdr = v, !.at = at, !.depth = n, !.dirs = dirs]
<1>0. JobsOK(jobs) /\ CacheOK(cache, jobs) /\ ReqsOK(req, jobs) /\ v \in 0..MaxVersion /\ mustReload \in BOOLEAN
  BY PMTilesAssumption DEF ArchiveInv, Versions
<1>1. req[r] \in ReqRecords /\ ReqOK(req[r], Kind[r], jobs)
  BY <1>0 DEF ReqsOK
<1>2. key \in Keys /\ key.etag = Etag(v)
  BY <1>0, KeysOK
<1>3. /\ JobsOK(p.jobs) /\ GrowsTo(jobs, p.jobs) /\ CacheOK(p.cache, p.jobs)
      /\ p.job \in 1..Len(p.jobs) /\ p.jobs[p.job].key = key
  BY <1>0, <1>2, PromiseOK
<1>4. jobs' = p.jobs /\ cache' = p.cache /\ req' = [req EXCEPT ![r] = q]
  BY DEF GetDirectory, Await
<1> HIDE DEF p
<1>5. p.job \in Nat
  BY <1>3 DEF JobsOK
<1>6. /\ q \in ReqRecords /\ q.pc = "dir" /\ q.job = p.job /\ q.hdr = v /\ q.at = at
      /\ q.dirs = dirs /\ q.result = req[r].result
  BY <1>0, <1>1, <1>5 DEF ReqRecords
<1> HIDE DEF q
<1>7. ReqOK(q, Kind[r], jobs')
  BY <1>1, <1>3, <1>4, <1>6 DEF ReqOK
<1>8. ReqsOK(req', jobs')
  BY <1>0, <1>3, <1>4, <1>6, <1>7, RequestChanges
<1>q. QED
  BY <1>3, <1>4, <1>8 DEF StepOK

----------------------------------------------------------------------------
(* The actions. *)

\* The header has arrived.
LEMMA HeaderReadyOK ==
  ASSUME ArchiveInv, NEW r \in Requests, NEW v \in Versions, req[r].pc # "done", HeaderReady(r, v)
  PROVE  StepOK
<1>0. 0 \in 0..MaxVersion /\ v \in 0..MaxVersion /\ Root \in Dirs /\ Kind[r] \in {"tile", "meta", "header"}
  BY PMTilesAssumption DEF Versions
<1>1. CASE Kind[r] = "header"
  BY <1>0, <1>1, FinishOK DEF HeaderReady
<1>2. CASE Kind[r] = "meta"
  BY <1>2, FetchOK DEF HeaderReady
<1>3. CASE Kind[r] = "tile"
  <2>1. CASE v \notin OldFormat /\ Entry[v][Root][r] = Outside
    BY <1>0, <1>3, <2>1, FinishOK DEF HeaderReady, Absent
  <2>2. CASE ~(v \notin OldFormat /\ Entry[v][Root][r] = Outside)
    BY <1>0, <1>3, <2>2, GetDirectoryOK DEF HeaderReady
  <2>q. QED
    BY <2>1, <2>2
<1>q. QED
  BY <1>0, <1>1, <1>2, <1>3

\* A directory of the header's tag has arrived.
LEMMA DirectoryReadyOK ==
  ASSUME ArchiveInv, NEW r \in Requests, NEW v \in Versions, req[r].pc = "dir",
         Etag(v) = Etag(req[r].hdr), DirectoryReady(r, v)
  PROVE  StepOK
<1> DEFINE e == Entry[v][req[r].at][r]
           dirs == req[r].dirs \union {v}
           hdr == req[r].hdr
           n == req[r].depth
<1>0. 0 \in 0..MaxVersion
  BY PMTilesAssumption
<1>1. req[r] \in ReqRecords /\ ReqOK(req[r], Kind[r], jobs)
  BY DEF ArchiveInv, ReqsOK
<1>2. hdr \in Versions /\ req[r].at \in Dirs /\ n \in Nat /\ dirs \in SUBSET Versions /\ dirs # {}
  BY <1>1 DEF ReqOK, ReqRecords
<1>3. \A d \in dirs : Etag(d) = Etag(hdr)
  BY <1>1 DEF ReqOK
<1>4. e \in Dirs \union {Tile, Absent, Outside}
  BY <1>2, PMTilesAssumption
<1>5. CASE e = Tile
  <2>1. Fetch(r, hdr, dirs)
    BY <1>5 DEF DirectoryReady
  <2> HIDE DEF dirs, hdr
  <2>q. QED
    BY <1>2, <1>3, <2>1, FetchOK
<1>6. CASE e # Tile /\ (e \in {Absent, Outside} \/ (hdr \in OldFormat /\ n > 0))
  <2>1. Finish(r, Absent, 0) /\ UNCHANGED << cache, jobs, invalidating >>
    BY <1>6 DEF DirectoryReady
  <2>q. QED
    BY <1>0, <2>1, FinishOK DEF Absent
<1>7. CASE e # Tile /\ ~(e \in {Absent, Outside} \/ (hdr \in OldFormat /\ n > 0)) /\ n = 3
  <2>1. Finish(r, "error", 0) /\ UNCHANGED << cache, jobs, invalidating >>
    BY <1>7 DEF DirectoryReady
  <2>q. QED
    BY <1>0, <2>1, FinishOK
<1>8. CASE e # Tile /\ ~(e \in {Absent, Outside} \/ (hdr \in OldFormat /\ n > 0)) /\ n # 3
  <2>1. GetDirectory(r, hdr, e, n + 1, dirs) /\ e \in Dirs /\ n + 1 \in Nat
    BY <1>2, <1>4, <1>8 DEF DirectoryReady
  <2> HIDE DEF dirs, hdr, e, n
  <2>q. QED
    BY <1>2, <1>3, <2>1, GetDirectoryOK
<1>q. QED
  BY <1>5, <1>6, <1>7, <1>8

\* The promise a request waits for is settled.
LEMMA ContinueOK ==
  ASSUME ArchiveInv, NEW r \in Requests, Continue(r)
  PROVE  StepOK
<1> DEFINE j == jobs[req[r].job]
<1>1. req[r].pc \in {"header", "dir"} /\ j.step \in {"done", "mismatch", "error"}
  BY DEF Continue
<1>2. ReqOK(req[r], Kind[r], jobs) /\ req[r].job \in 1..Len(jobs) /\ JobOK(j)
  BY <1>1 DEF ArchiveInv, ReqsOK, ReqOK, JobsOK
<1>3. CASE j.step # "done"
  BY <1>1, <1>3, ThrowOK DEF Continue
<1>4. CASE j.step = "done" /\ req[r].pc = "header"
  <2>1. j.got \in Versions /\ HeaderReady(r, j.got)
    BY <1>2, <1>4 DEF JobOK, Continue
  <2>q. QED
    BY <1>1, <2>1, HeaderReadyOK
<1>5. CASE j.step = "done" /\ req[r].pc = "dir"
  <2>1. j.got \in Versions /\ DirectoryReady(r, j.got)
    BY <1>2, <1>5 DEF JobOK, Continue
  <2>2. j.key = DirKey(req[r].hdr, req[r].at)
    BY <1>2, <1>5 DEF ReqOK
  <2>3. j.key.of = "dir" /\ j.key.etag = Etag(req[r].hdr)
    BY <2>2 DEF DirKey
  <2>4. Etag(j.got) = Etag(req[r].hdr)
    BY <1>2, <1>5, <2>3 DEF JobOK
  <2>q. QED
    BY <1>5, <2>1, <2>4, DirectoryReadyOK
<1>q. QED
  BY <1>1, <1>3, <1>4, <1>5

\* A request is made.
LEMMA StartOK ==
  ASSUME ArchiveInv, NEW r \in Requests, Start(r)
  PROVE  StepOK
<1>1. JobsOK(jobs) /\ CacheOK(cache, jobs) /\ mustReload \in BOOLEAN /\ GrowsTo(jobs, jobs)
  BY DEF ArchiveInv, GrowsTo, JobsOK
<1>2. Attempt(r, 1, cache, jobs, mustReload, invalidating)
  BY DEF Start
<1>q. QED
  BY <1>1, <1>2, AttemptOK

\* Answers are versions, or one of the two failures.
LEMMA AnswersOK ==
  ASSUME ArchiveInv, NEW b, NEW v
  PROVE  Answers(b, v) \subseteq Versions \union {Failed, Short}
<1>1. 1..version \subseteq Versions /\ version \in Versions
  BY PMTilesAssumption DEF ArchiveInv, Versions
<1>q. QED
  BY <1>1 DEF Answers

\* A request's own fetch is answered.
LEMMA AnswerRequestOK ==
  ASSUME ArchiveInv, NEW r \in Requests, AnswerRequest(r)
  PROVE  StepOK
<1>1. PICK a \in Answers(req[r].reload, req[r].hdr) :
        req' = [req EXCEPT ![r].pc = "answered", ![r].answer = a]
  BY DEF AnswerRequest
<1>2. a \in Versions \union {Failed, Short} /\ a \in Int
  BY AnswersOK, PMTilesAssumption DEF Versions, Failed, Short
<1> DEFINE q == [req[r] EXCEPT !.pc = "answered", !.answer = a]
<1>3. req' = [req EXCEPT ![r] = q] /\ jobs' = jobs /\ cache' = cache /\ req[r].pc = "sent"
  BY <1>1 DEF AnswerRequest
<1>4. req[r] \in ReqRecords /\ ReqOK(req[r], Kind[r], jobs)
  BY DEF ArchiveInv, ReqsOK
<1>5. /\ q \in ReqRecords /\ q.pc = "answered" /\ q.answer = a /\ q.result = req[r].result
      /\ q.hdr = req[r].hdr /\ q.dirs = req[r].dirs
  BY <1>2, <1>4 DEF ReqRecords
<1> HIDE DEF q
<1>6. ReqOK(q, Kind[r], jobs')
  BY <1>2, <1>3, <1>4, <1>5 DEF ReqOK
<1>7. JobsOK(jobs) /\ ReqsOK(req, jobs) /\ CacheOK(cache, jobs) /\ GrowsTo(jobs, jobs)
  BY DEF ArchiveInv, GrowsTo, JobsOK
<1>8. ReqsOK(req', jobs')
  BY <1>3, <1>5, <1>6, <1>7, RequestChanges
<1>q. QED
  BY <1>3, <1>7, <1>8 DEF StepOK

\* A request's own bytes are taken or refused.
LEMMA ReceiveRequestOK ==
  ASSUME ArchiveInv, NEW r \in Requests, ReceiveRequest(r)
  PROVE  StepOK
<1> DEFINE a == req[r].answer
           v == req[r].hdr
           o == Outcome(a, TileTag(v, Kind[r]))
<1>1. req[r].pc = "answered" /\ ReqOK(req[r], Kind[r], jobs) /\ Kind[r] \in {"tile", "meta", "header"}
  BY PMTilesAssumption DEF ReceiveRequest, ArchiveInv, ReqsOK
<1>2. /\ a \in Versions \union {Failed, Short} /\ v \in Versions
      /\ Kind[r] = "tile" => req[r].dirs # {}
  BY <1>1 DEF ReqOK
<1>3. o \in {"ok", "error", "mismatch"}
  BY DEF Outcome
<1>4. CASE o = "ok"
  <2>1. Finish(r, Kind[r], a) /\ UNCHANGED << cache, jobs, invalidating >>
    BY <1>4 DEF ReceiveRequest
  <2>2. a \in Versions /\ a \in 0..MaxVersion
    <3>1. a \in Versions
      BY <1>2, <1>4, AnyBytes
    <3>q. QED
      BY <3>1, PMTilesAssumption DEF Versions
  <2>3. ASSUME Kind[r] = "tile", v \notin OldFormat PROVE Etag(a) = Etag(v)
    <3>1. TileTag(v, Kind[r]) = Etag(v)
      BY <2>3 DEF TileTag
    <3>q. QED
      BY <1>2, <1>4, <3>1, GoodBytes
  <2>q. QED
    BY <1>1, <1>2, <2>1, <2>2, <2>3, FinishOK
<1>5. CASE o # "ok"
  <2>1. Throw(r, o)
    BY <1>5 DEF ReceiveRequest
  <2> HIDE DEF o
  <2>q. QED
    BY <1>3, <1>5, <2>1, ThrowOK
<1>q. QED
  BY <1>4, <1>5

\* A step of promise j alone.
LEMMA JobStepOK ==
  ASSUME ArchiveInv, NEW j \in 1..Len(jobs), NEW x \in JobRecords, JobOK(x), x.key = jobs[j].key,
         jobs' = [jobs EXCEPT ![j] = x], cache' = cache \/ cache' = prune(cache), req' = req
  PROVE  StepOK
<1>0. JobsOK(jobs) /\ CacheOK(cache, jobs) /\ ReqsOK(req, jobs)
  BY DEF ArchiveInv
<1>1. JobsOK(jobs') /\ GrowsTo(jobs, jobs')
  BY <1>0, ChangeJob
<1>2. CacheOK(cache', jobs)
  BY <1>0, PruneOK
<1>3. CacheOK(cache', jobs')
  BY <1>0, <1>1, <1>2, CacheOfMoreJobs
<1>4. ReqsOK(req', jobs')
  BY <1>0, <1>1, JobsChange
<1>q. QED
  BY <1>1, <1>3, <1>4 DEF StepOK

\* The fetch of a promise is answered.
LEMMA AnswerJobOK ==
  ASSUME ArchiveInv, NEW j \in 1..Len(jobs), AnswerJob(j)
  PROVE  StepOK
<1>1. PICK a \in Answers(jobs[j].reload, jobs[j].hdr) :
        jobs' = [jobs EXCEPT ![j].step = "answered", ![j].answer = a]
  BY DEF AnswerJob
<1>2. a \in Versions \union {Failed, Short} /\ a \in Int
  BY AnswersOK, PMTilesAssumption DEF Versions, Failed, Short
<1> DEFINE x == [jobs[j] EXCEPT !.step = "answered", !.answer = a]
<1>3. jobs' = [jobs EXCEPT ![j] = x] /\ cache' = cache /\ req' = req
  BY <1>1 DEF AnswerJob
<1>4. jobs[j] \in JobRecords /\ JobOK(jobs[j])
  BY DEF ArchiveInv, JobsOK
<1>5. x \in JobRecords /\ x.key = jobs[j].key /\ x.hdr = jobs[j].hdr /\ x.step = "answered" /\ x.answer = a
  BY <1>2, <1>4 DEF JobRecords
<1> HIDE DEF x
<1>6. JobOK(x)
  BY <1>2, <1>4, <1>5 DEF JobOK
<1>q. QED
  BY <1>3, <1>5, <1>6, JobStepOK

\* A promise is rejected.
LEMMA RejectOK ==
  ASSUME ArchiveInv, NEW j \in 1..Len(jobs), NEW error \in {"error", "mismatch"}, Reject(j, error), req' = req
  PROVE  StepOK
<1> DEFINE x == [jobs[j] EXCEPT !.step = error]
<1>1. jobs' = [jobs EXCEPT ![j] = x] /\ cache' = cache
  BY DEF Reject
<1>2. jobs[j] \in JobRecords /\ JobOK(jobs[j])
  BY DEF ArchiveInv, JobsOK
<1>3. x \in JobRecords /\ x.key = jobs[j].key /\ x.hdr = jobs[j].hdr /\ x.step = error
  BY <1>2 DEF JobRecords
<1> HIDE DEF x
<1>4. JobOK(x)
  BY <1>2, <1>3 DEF JobOK
<1>q. QED
  BY <1>1, <1>3, <1>4, JobStepOK

\* The bytes are asked for once more.
LEMMA AgainOK ==
  ASSUME ArchiveInv, NEW j \in 1..Len(jobs), NEW n \in Nat, NEW b \in BOOLEAN,
         jobs' = [jobs EXCEPT ![j].step = "sent", ![j].round = n, ![j].reload = b],
         cache' = cache, req' = req
  PROVE  StepOK
<1> DEFINE x == [jobs[j] EXCEPT !.step = "sent", !.round = n, !.reload = b]
<1>1. jobs' = [jobs EXCEPT ![j] = x]
  OBVIOUS
<1>2. jobs[j] \in JobRecords /\ JobOK(jobs[j])
  BY DEF ArchiveInv, JobsOK
<1>3. x \in JobRecords /\ x.key = jobs[j].key /\ x.hdr = jobs[j].hdr /\ x.step = "sent"
  BY <1>2 DEF JobRecords
<1> HIDE DEF x
<1>4. JobOK(x)
  BY <1>2, <1>3 DEF JobOK
<1>q. QED
  BY <1>1, <1>3, <1>4, JobStepOK

\* A promise with its value.
LEMMA KeptJobOK ==
  ASSUME NEW y \in JobRecords, JobOK(y), NEW v \in Versions, y.key.of = "dir" => Etag(v) = Etag(y.hdr)
  PROVE  LET x == [y EXCEPT !.step = "done", !.got = v]
         IN  x \in JobRecords /\ JobOK(x) /\ x.key = y.key
<1> DEFINE x == [y EXCEPT !.step = "done", !.got = v]
<1>0. v \in 0..MaxVersion
  BY PMTilesAssumption DEF Versions
<1>1. x \in JobRecords /\ x.key = y.key /\ x.hdr = y.hdr /\ x.step = "done" /\ x.got = v
  BY <1>0 DEF JobRecords
<1> HIDE DEF x
<1>2. JobOK(x)
  BY <1>1 DEF JobOK
<1>q. QED
  BY <1>1, <1>2 DEF x

\* A promise is kept.
LEMMA KeepOK ==
  ASSUME ArchiveInv, NEW j \in 1..Len(jobs), NEW v \in Versions, req' = req,
         jobs[j].key.of = "dir" => Etag(v) = Etag(jobs[j].hdr), Keep(j, v, cache, jobs)
  PROVE  StepOK
<1> DEFINE x == [jobs[j] EXCEPT !.step = "done", !.got = v]
<1>1. jobs' = [jobs EXCEPT ![j] = x] /\ cache' = prune(cache)
  BY DEF Keep
<1>2. jobs[j] \in JobRecords /\ JobOK(jobs[j])
  BY DEF ArchiveInv, JobsOK
<1>3. x \in JobRecords /\ JobOK(x) /\ x.key = jobs[j].key
  BY <1>2, KeptJobOK
<1> HIDE DEF x
<1>q. QED
  BY <1>1, <1>3, JobStepOK

\* A header of format 3, and the promise of its root directory.
LEMMA KeepRootOK ==
  ASSUME ArchiveInv, NEW j \in 1..Len(jobs), NEW v \in Versions, req' = req, jobs[j].key.of = "header",
         Keep(j, v, Used(cache, DirKey(v, Root), Len(jobs) + 1),
              Append(jobs, Resolved(DirKey(v, Root), v)))
  PROVE  StepOK
<1> DEFINE key == DirKey(v, Root)
           y == Resolved(key, v)
           n == Len(jobs) + 1
           js == Append(jobs, y)
           c == Used(cache, key, n)
           x == [js[j] EXCEPT !.step = "done", !.got = v]
<1>0. JobsOK(jobs) /\ CacheOK(cache, jobs) /\ ReqsOK(req, jobs) /\ Root \in Dirs /\ v \in 0..MaxVersion
  BY PMTilesAssumption DEF ArchiveInv, Versions
<1>1. key \in Keys /\ y \in JobRecords /\ JobOK(y) /\ y.key = key
  BY <1>0, KeysOK, ResolvedOK
<1>2. cache' = prune(c) /\ jobs' = [js EXCEPT ![j] = x]
  BY DEF Keep
<1> HIDE DEF y
<1>3. JobsOK(js) /\ GrowsTo(jobs, js) /\ n \in 1..Len(js) /\ js[n] = y
  BY <1>0, <1>1, AppendJob
<1>4. j \in 1..Len(js) /\ js[j].key.of = "header" /\ js[j] \in JobRecords /\ JobOK(js[j])
  BY <1>0, <1>3 DEF GrowsTo, JobsOK
<1> HIDE DEF js, n
<1>5. CacheOK(c, js)
  BY <1>0, <1>1, <1>3, CacheOfMoreJobs, UsedOK
<1> HIDE DEF c, key
<1>6. x \in JobRecords /\ JobOK(x) /\ x.key = js[j].key
  BY <1>4, KeptJobOK
<1> HIDE DEF x
<1>7. JobsOK(jobs') /\ GrowsTo(js, jobs')
  BY <1>2, <1>3, <1>4, <1>6, ChangeJob
<1>8. CacheOK(cache', jobs')
  BY <1>2, <1>3, <1>5, <1>7, CacheOfMoreJobs, PruneOK
<1>9. ReqsOK(req', jobs')
  BY <1>0, <1>3, <1>7, GrowsTransitive, JobsChange
<1>q. QED
  BY <1>7, <1>8, <1>9 DEF StepOK

\* The bytes of a header are there.
LEMMA HeaderBytesOK ==
  ASSUME ArchiveInv, NEW j \in 1..Len(jobs), NEW v \in Versions, jobs[j].key.of = "header",
         HeaderBytes(j, v), req' = req
  PROVE  StepOK
<1>1. CASE jobs[j].round >= 3 /\ detectVersion(v) < 3
  BY <1>1, KeepOK DEF HeaderBytes, v2Header
<1>2. CASE jobs[j].round >= 3 /\ ~(detectVersion(v) < 3)
  BY <1>2, RejectOK DEF HeaderBytes, v2Header
<1>3. CASE ~(jobs[j].round >= 3) /\ detectVersion(v) < 3
  <2>1. /\ jobs' = [jobs EXCEPT ![j].step = "sent", ![j].round = 3, ![j].reload = mustReload]
        /\ cache' = cache
    BY <1>3 DEF HeaderBytes
  <2>2. mustReload \in BOOLEAN
    BY DEF ArchiveInv
  <2>q. QED
    BY <2>1, <2>2, AgainOK
<1>4. CASE ~(jobs[j].round >= 3) /\ ~(detectVersion(v) < 3)
  BY <1>4, KeepRootOK DEF HeaderBytes
<1>q. QED
  BY <1>1, <1>2, <1>3, <1>4

\* The bytes of a promise are taken, asked for again or refused.
LEMMA ReceiveJobOK ==
  ASSUME ArchiveInv, NEW j \in 1..Len(jobs), ReceiveJob(j)
  PROVE  StepOK
<1> DEFINE a == jobs[j].answer
           o == Outcome(a, Etag(jobs[j].hdr))
           header == jobs[j].key.of = "header"
           again == header /\ a = Short /\ jobs[j].round \in {1, 3}
<1>1. jobs[j] \in JobRecords /\ JobOK(jobs[j]) /\ jobs[j].step = "answered" /\ req' = req
  BY DEF ArchiveInv, JobsOK, ReceiveJob
<1>2. /\ a \in Versions \union {Failed, Short} /\ jobs[j].round \in Nat
      /\ jobs[j].key.of \in {"header", "dir"} /\ (~header => jobs[j].hdr \in Versions)
  BY <1>1 DEF JobOK, JobRecords, Keys
<1>3. o \in {"ok", "error", "mismatch"}
  BY DEF Outcome
<1>4. CASE again
  <2>1. /\ jobs' = [jobs EXCEPT ![j].step = "sent", ![j].round = jobs[j].round + 1, ![j].reload = TRUE]
        /\ cache' = cache
    BY <1>4 DEF ReceiveJob
  <2>2. jobs[j].round + 1 \in Nat
    BY <1>2
  <2>3. req' = req
    BY <1>1
  <2>q. QED
    BY <2>1, <2>2, <2>3, AgainOK
<1>5. CASE ~again /\ o # "ok"
  <2>1. Reject(j, o)
    BY <1>5 DEF ReceiveJob
  <2> HIDE DEF o
  <2>q. QED
    BY <1>1, <1>3, <1>5, <2>1, RejectOK
<1>6. CASE ~again /\ o = "ok" /\ header
  <2>1. HeaderBytes(j, a)
    BY <1>6 DEF ReceiveJob
  <2>2. a \in Versions
    BY <1>2, <1>6, AnyBytes
  <2>q. QED
    BY <1>1, <1>6, <2>1, <2>2, HeaderBytesOK
<1>7. CASE ~again /\ o = "ok" /\ ~header
  <2>1. Keep(j, a, cache, jobs)
    BY <1>7 DEF ReceiveJob
  <2>2. a \in Versions /\ Etag(a) = Etag(jobs[j].hdr)
    BY <1>2, <1>7, GoodBytes
  <2>q. QED
    BY <1>1, <2>1, <2>2, KeepOK
<1>q. QED
  BY <1>4, <1>5, <1>6, <1>7

----------------------------------------------------------------------------
\* An empty cache and idle requests.
LEMMA InitEstablishes == Init => ArchiveInv
<1> SUFFICES ASSUME Init PROVE ArchiveInv
  OBVIOUS
<1>0. version \in Versions
  BY PMTilesAssumption DEF Init, Versions
<1>1. mustReload \in BOOLEAN
  BY DEF Init
<1>2. JobsOK(jobs) /\ CacheOK(cache, jobs)
  BY DEF Init, JobsOK, CacheOK
<1>3. ReqsOK(req, jobs)
  BY IdleOK DEF Init, ReqsOK
<1>q. QED
  BY <1>0, <1>1, <1>2, <1>3 DEF ArchiveInv

\* Every step keeps the invariant.
LEMMA NextPreserves == ArchiveInv /\ [Next]_vars => ArchiveInv'
<1> SUFFICES ASSUME ArchiveInv, [Next]_vars PROVE ArchiveInv'
  OBVIOUS
<1>1. ASSUME StepOK, version' = version, mustReload' \in BOOLEAN PROVE ArchiveInv'
  BY <1>1 DEF ArchiveInv, StepOK, Versions
<1>2. ASSUME NEW r \in Requests, Start(r) PROVE ArchiveInv'
  BY <1>1, <1>2, StartOK DEF Start, ArchiveInv
<1>3. ASSUME NEW r \in Requests, Continue(r) PROVE ArchiveInv'
  BY <1>1, <1>3, ContinueOK DEF Continue, ArchiveInv
<1>4. ASSUME NEW r \in Requests, AnswerRequest(r) PROVE ArchiveInv'
  BY <1>1, <1>4, AnswerRequestOK DEF AnswerRequest, ArchiveInv
<1>5. ASSUME NEW r \in Requests, ReceiveRequest(r) PROVE ArchiveInv'
  BY <1>1, <1>5, ReceiveRequestOK DEF ReceiveRequest
<1>6. ASSUME NEW j \in 1..Len(jobs), AnswerJob(j) PROVE ArchiveInv'
  BY <1>1, <1>6, AnswerJobOK DEF AnswerJob, ArchiveInv
<1>7. ASSUME NEW j \in 1..Len(jobs), ReceiveJob(j) PROVE ArchiveInv'
  BY <1>1, <1>7, ReceiveJobOK DEF ReceiveJob
<1>8. CASE Replace
  BY <1>8, PMTilesAssumption DEF Replace, ArchiveInv, Versions, JobsOK, CacheOK, ReqsOK
<1>9. CASE UNCHANGED vars
  BY <1>9 DEF vars, ArchiveInv
<1>q. QED
  BY <1>2, <1>3, <1>4, <1>5, <1>6, <1>7, <1>8, <1>9 DEF Next, RequestStep, JobStep

\* Promises, the cache and the requests agree on tags in every state of the client.
THEOREM ArchiveInvariant == Spec => []ArchiveInv
BY InitEstablishes, NextPreserves, PTL DEF Spec

\* With strong ETags the header, the directories and the bytes of a tile of a format-3
\* archive are of one version, for any number of requests, versions, directories and
\* cache entries, any directory contents, and whatever the server answers.
THEOREM TilesAreOfOneArchive == Spec => []OneArchive
<1>1. ASSUME ArchiveInv PROVE OneArchive
  <2> SUFFICES ASSUME NEW r \in Requests, req[r].result = "tile", Strong, req[r].hdr \notin OldFormat
               PROVE  req[r].got = req[r].hdr /\ req[r].dirs = {req[r].hdr}
    BY DEF OneArchive
  <2>1. req[r] \in ReqRecords /\ ReqOK(req[r], Kind[r], jobs)
    BY <1>1 DEF ArchiveInv, ReqsOK
  <2>2. /\ req[r].hdr \in 0..MaxVersion /\ req[r].got \in 0..MaxVersion
        /\ req[r].dirs # {} /\ \A d \in req[r].dirs : d \in 0..MaxVersion
    BY <2>1, PMTilesAssumption DEF ReqOK, ReqRecords, Versions
  <2>3. Etag(req[r].got) = Etag(req[r].hdr) /\ \A d \in req[r].dirs : Etag(d) = Etag(req[r].hdr)
    BY <2>1 DEF ReqOK
  <2>4. req[r].got = req[r].hdr
    BY <2>2, <2>3, TagsTell
  <2>5. \A d \in req[r].dirs : d = req[r].hdr
    BY <2>2, <2>3, TagsTell
  <2>q. QED
    BY <2>2, <2>4, <2>5
<1>q. QED
  BY <1>1, ArchiveInvariant, PTL

----------------------------------------------------------------------------
(* A mismatch means that the archive was replaced. *)

Settled == {"done", "mismatch", "error"}
Running == {"header", "dir", "sent", "answered"}

\* An invalidation whose header was never read: it is under way forever.
Lost(inv, js) == inv # 0 /\ js[inv].step \in {"error", "mismatch"}

\* The cache leads a key to promise j; no key is in it twice.
Leads(c, key, j) == \E i \in 1..Len(c) : c[i].key = key /\ c[i].job = j
UniqueKeys(c) == \A i, k \in 1..Len(c) : c[i].key = c[k].key => i = k

\* What a fetch for the header of version h can be answered with while version v is on
\* the server, if the browser's cache is not asked: failures, and versions of which
\* another one than h is a later one.
Seen(a, h, v) == a = h \/ a = Failed \/ h < v

\* A promise while version v is on the server.
JobSeen(j, v) ==
  /\ j.key.of = "header" => j.key = HeaderKey
  /\ j.key.of = "dir" =>
       /\ j.hdr <= v
       /\ j.step = "answered" => Seen(j.answer, j.hdr, v)
       /\ j.step = "mismatch" => j.hdr < v
  /\ j.step = "answered" => j.answer <= v
  /\ j.step = "done" => j.got <= v
JobsSeen(js, v) == \A i \in 1..Len(js) : JobSeen(js[i], v)

\* A header promise whose value, if it has one, is not older than version b.
Fresh(j, b) ==
  /\ j.step = "answered" /\ j.answer > 0 => b <= j.answer
  /\ j.step = "done" => b <= j.got

\* The invalidation under way is of a header promise that is not kept yet.
InvalidationOK(inv, js) ==
  /\ inv \in 0..Len(js)
  /\ inv # 0 => js[inv].key = HeaderKey /\ js[inv].step # "done"

\* Why a call may end with a mismatch: what MismatchMeansReplaced says of one request.
Excused(q, js, inv) ==
  \/ q.began < q.ended
  \/ Lost(inv, js)
  \/ q.job \in 1..Len(js) /\ js[q.job].key.of = "header" /\ js[q.job].step = "mismatch"

\* A request: the first attempt may only be followed by a header that is not older than
\* the request, and the second one has such a header.
ReqSeen(q, kind, v, js, inv) ==
  /\ q.pc = "idle" => q.attempt = 0
  /\ q.pc \in Running => q.began <= v /\ q.attempt \in 1..2
  /\ q.pc = "header" => js[q.job].key = HeaderKey
  /\ q.pc \in {"dir", "sent", "answered"} => q.hdr <= v
  /\ q.pc = "answered" => Seen(q.answer, q.hdr, v)
  /\ q.attempt = 1 /\ q.pc \in Running /\ inv # 0 =>
       Fresh(js[inv], q.began) \/ (q.pc = "header" /\ q.job = inv)
  /\ q.attempt = 2 /\ q.pc = "header" => Fresh(js[q.job], q.began) \/ Lost(inv, js)
  /\ q.attempt = 2 /\ q.pc \in {"dir", "sent", "answered"} => q.began <= q.hdr \/ Lost(inv, js)
  /\ q.result = "mismatch" /\ kind # "header" => Excused(q, js, inv)
ReqsSeen(qs, v, js, inv) == \A r \in Requests : ReqSeen(qs[r], Kind[r], v, js, inv)

RetryState ==
  /\ UniqueKeys(cache)
  /\ InvalidationOK(invalidating, jobs)
  /\ JobsSeen(jobs, version)
  /\ ReqsSeen(req, version, jobs, invalidating)
RetryInv == noStore => RetryState

\* An attempt that starts while an invalidation is under way joins its header: the cache
\* has not dropped it.
HeaderFound == invalidating = 0 \/ Lost(invalidating, jobs) \/ Leads(cache, HeaderKey, invalidating)
HeaderKept == noStore /\ (\E r \in Requests : req'[r].attempt # req[r].attempt) => HeaderFound

\* A cache that never drops an entry: it has room for the header and for every directory
\* of every version.
EnoughRoom == IsFiniteSet(Dirs) /\ 1 + MaxVersion * Cardinality(Dirs) < MaxCacheEntries

\* What a step does: the invariant holds again, and with enough room the cache still leads
\* to the header of the invalidation under way.
RetryGoesOn == RetryState' /\ (EnoughRoom /\ HeaderFound => HeaderFound')

----------------------------------------------------------------------------
\* Without a key: the key is gone, the other entries stay.
LEMMA WithoutKeeps ==
  ASSUME NEW c \in Seq(Entries), UniqueKeys(c), NEW key
  PROVE  LET w == Without(c, key)
         IN  /\ w \in Seq(Entries) /\ UniqueKeys(w) /\ Len(w) <= Len(c)
             /\ \A i \in 1..Len(w) : w[i].key # key /\ \E k \in 1..Len(c) : w[i] = c[k]
             /\ \A k \in 1..Len(c) : c[k].key # key => \E i \in 1..Len(w) : w[i] = c[k]
<1>1. CASE ~Cached(c, key)
  <2>1. Without(c, key) = c
    BY <1>1 DEF Without
  <2>q. QED
    BY <1>1, <2>1 DEF Cached
<1>2. CASE Cached(c, key)
  <2> DEFINE p == Place(c, key)
             s == [i \in 1..(Len(c) - 1) |-> c[IF i < p THEN i ELSE i + 1]]
  <2>1. p \in 1..Len(c) /\ Len(c) \in Nat /\ Len(c) > 0 /\ c[p].key = key
    BY <1>2 DEF Cached, Place
  <2>2. s = Without(c, key)
    BY <1>2 DEF Without
  <2> HIDE DEF p
  <2>3. \A i \in 1..(Len(c) - 1) : (IF i < p THEN i ELSE i + 1) \in 1..Len(c)
    BY <2>1
  <2>4. \A i \in 1..(Len(c) - 1) : s[i] \in Entries
    BY <2>1, <2>3
  <2>5. s \in Seq(Entries) /\ Len(s) = Len(c) - 1
    BY <2>1, <2>4, IsASeq
  <2>6. \A i \in 1..Len(s) : s[i] = c[IF i < p THEN i ELSE i + 1]
    BY <2>5
  <2>7. ASSUME NEW k \in 1..Len(c), k # p PROVE \E i \in 1..Len(s) : s[i] = c[k]
    <3>1. CASE k < p
      <4>1. k \in 1..Len(s) /\ s[k] = c[k]
        BY <2>1, <2>5, <2>6, <3>1
      <4>q. QED
        BY <4>1
    <3>2. CASE k > p
      <4>1. k - 1 \in 1..Len(s) /\ s[k - 1] = c[k - 1 + 1] /\ k - 1 + 1 = k
        BY <2>1, <2>5, <2>6, <3>2
      <4>q. QED
        BY <4>1
    <3>3. k < p \/ k > p
      BY <2>1, <2>7
    <3>q. QED
      BY <3>1, <3>2, <3>3
  <2> HIDE DEF s
  <2>8. UniqueKeys(s)
    <3> SUFFICES ASSUME NEW i \in 1..Len(s), NEW k \in 1..Len(s), s[i].key = s[k].key PROVE i = k
      BY DEF UniqueKeys
    <3>1. (IF i < p THEN i ELSE i + 1) = (IF k < p THEN k ELSE k + 1)
      BY <2>3, <2>5, <2>6 DEF UniqueKeys
    <3>q. QED
      BY <2>1, <2>5, <3>1
  <2>9. ASSUME NEW i \in 1..Len(s) PROVE s[i].key # key /\ \E k \in 1..Len(c) : s[i] = c[k]
    <3> DEFINE k == IF i < p THEN i ELSE i + 1
    <3>1. k \in 1..Len(c) /\ k # p /\ s[i] = c[k]
      BY <2>1, <2>3, <2>5, <2>6
    <3> HIDE DEF k
    <3>q. QED
      BY <2>1, <3>1 DEF UniqueKeys
  <2>10. \A k \in 1..Len(c) : c[k].key # key => k # p
    BY <2>1
  <2>q. QED
    BY <2>1, <2>2, <2>5, <2>7, <2>8, <2>9, <2>10
<1>q. QED
  BY <1>1, <1>2

\* A key that is used: it leads to its promise, the other keys to theirs.
LEMMA UsedKeeps ==
  ASSUME NEW c \in Seq(Entries), UniqueKeys(c), NEW key \in Keys, NEW j \in Nat
  PROVE  LET u == Used(c, key, j)
         IN  /\ u \in Seq(Entries) /\ UniqueKeys(u) /\ Leads(u, key, j)
             /\ \A k, i : k # key /\ Leads(c, k, i) => Leads(u, k, i)
<1> DEFINE w == Without(c, key)
           e == [key |-> key, job |-> j]
           u == Append(w, e)
<1>1. /\ w \in Seq(Entries) /\ UniqueKeys(w)
      /\ \A i \in 1..Len(w) : w[i].key # key
      /\ \A k \in 1..Len(c) : c[k].key # key => \E i \in 1..Len(w) : w[i] = c[k]
  BY WithoutKeeps
<1>2. e \in Entries /\ e.key = key /\ e.job = j
  BY DEF Entries
<1>3. u = Used(c, key, j)
  BY DEF Used
<1> HIDE DEF w, e
<1>4. /\ u \in Seq(Entries) /\ Len(u) = Len(w) + 1 /\ u[Len(w) + 1] = e /\ Len(w) \in Nat
      /\ \A i \in 1..Len(w) : u[i] = w[i]
  BY <1>1, <1>2
<1> HIDE DEF u
<1>5. UniqueKeys(u)
  <2> SUFFICES ASSUME NEW i \in 1..Len(u), NEW k \in 1..Len(u), u[i].key = u[k].key PROVE i = k
    BY DEF UniqueKeys
  <2>0. u[i].key = u[k].key
    OBVIOUS
  <2>1. CASE i \in 1..Len(w) /\ k \in 1..Len(w)
    BY <1>1, <1>4, <2>1 DEF UniqueKeys
  <2>2. CASE ~(i \in 1..Len(w) /\ k \in 1..Len(w))
    <3>1. i = Len(w) + 1 \/ k = Len(w) + 1
      BY <1>4, <2>2
    <3>2. \A m \in 1..Len(u) : m = Len(w) + 1 \/ (m \in 1..Len(w) /\ u[m].key # key)
      BY <1>1, <1>4
    <3>3. u[Len(w) + 1].key = key
      BY <1>2, <1>4
    <3>q. QED
      BY <2>0, <3>1, <3>2, <3>3
  <2>q. QED
    BY <2>1, <2>2
<1>6. Leads(u, key, j)
  BY <1>2, <1>4 DEF Leads
<1>7. ASSUME NEW k, NEW i, k # key, Leads(c, k, i) PROVE Leads(u, k, i)
  <2>1. PICK m \in 1..Len(c) : c[m].key = k /\ c[m].job = i
    BY <1>7 DEF Leads
  <2>2. PICK n \in 1..Len(w) : w[n] = c[m]
    BY <1>1, <1>7, <2>1
  <2>3. n \in 1..Len(u) /\ u[n] = w[n]
    BY <1>4
  <2>q. QED
    BY <2>1, <2>2, <2>3 DEF Leads
<1>q. QED
  BY <1>3, <1>4, <1>5, <1>6, <1>7

\* The entry that goes leaves the keys of the others unique.
LEMMA PruneKeeps ==
  ASSUME NEW c \in Seq(Entries), UniqueKeys(c)
  PROVE  UniqueKeys(prune(c))
<1>1. CASE c # << >> /\ Len(c) >= MaxCacheEntries
  <2>1. /\ Len(c) \in Nat /\ Len(c) > 0 /\ Tail(c) \in Seq(Entries) /\ Len(Tail(c)) = Len(c) - 1
        /\ \A i \in 1..Len(Tail(c)) : Tail(c)[i] = c[i + 1] /\ i + 1 \in 1..Len(c)
    BY <1>1
  <2>2. prune(c) = Tail(c)
    BY <1>1 DEF prune
  <2> DEFINE t == Tail(c)
  <2> HIDE DEF t
  <2>3. ASSUME NEW i \in 1..Len(t), NEW k \in 1..Len(t), t[i].key = t[k].key PROVE i = k
    <3>1. i + 1 = k + 1
      BY <2>1, <2>3 DEF UniqueKeys, t
    <3>q. QED
      BY <2>1, <3>1 DEF t
  <2>4. UniqueKeys(t)
    BY <2>3 DEF UniqueKeys
  <2>q. QED
    BY <2>2, <2>4 DEF t
<1>2. CASE ~(c # << >> /\ Len(c) >= MaxCacheEntries)
  BY <1>2 DEF prune
<1>q. QED
  BY <1>1, <1>2

\* The promise of a key in the cache is the one that the key leads to.
LEMMA FoundInCache ==
  ASSUME NEW c \in Seq(Entries), UniqueKeys(c), NEW key, NEW j, Leads(c, key, j)
  PROVE  Cached(c, key) /\ JobOf(c, key) = j
<1>1. PICK i \in 1..Len(c) : c[i].key = key /\ c[i].job = j
  BY DEF Leads
<1>2. Cached(c, key)
  BY <1>1 DEF Cached
<1>3. Place(c, key) \in 1..Len(c) /\ c[Place(c, key)].key = key
  BY <1>2 DEF Cached, Place
<1>4. Place(c, key) = i
  BY <1>1, <1>3 DEF UniqueKeys
<1>q. QED
  BY <1>1, <1>2, <1>4 DEF JobOf

----------------------------------------------------------------------------
(* Steps, for the requests that do not take part in them. *)

\* A promise changes: once settled it stays as it is, and a header stays fresh for those
\* that began with version v or an earlier one.
JobGoesOn(x, y, v) ==
  /\ y.key = x.key
  /\ x.step \in Settled => y.step = x.step
  /\ \A b \in Nat : b <= v /\ Fresh(x, b) => Fresh(y, b)
JobsGoOn(js, ks, v) == Len(js) <= Len(ks) /\ \A i \in 1..Len(js) : JobGoesOn(js[i], ks[i], v)

\* An invalidation ends when its header is read; a new one starts with a new promise.
InvGoesOn(inv, inv2, js, ks) ==
  \/ inv2 = inv
  \/ inv2 = 0 /\ ~Lost(inv, js)
  \/ inv = 0 /\ ks[inv2].step = "sent"

\* A promise that does not change.
LEMMA JobStays == ASSUME NEW x, NEW v PROVE JobGoesOn(x, x, v)
BY DEF JobGoesOn

\* One more promise.
LEMMA AppendGoesOn ==
  ASSUME NEW js, JobsOK(js), NEW x, NEW v
  PROVE  JobsGoOn(js, js, v) /\ JobsGoOn(js, Append(js, x), v)
<1>1. Len(js) \in Nat /\ js \in Seq(JobRecords)
  BY DEF JobsOK
<1>2. Len(Append(js, x)) = Len(js) + 1 /\ \A i \in 1..Len(js) : Append(js, x)[i] = js[i]
  BY <1>1
<1>q. QED
  BY <1>1, <1>2, JobStays DEF JobsGoOn

\* A promise that changes.
LEMMA ChangeGoesOn ==
  ASSUME NEW js, JobsOK(js), NEW j \in 1..Len(js), NEW v, NEW x, JobGoesOn(js[j], x, v)
  PROVE  JobsGoOn(js, [js EXCEPT ![j] = x], v)
<1>1. Len(js) \in Nat /\ js \in Seq(JobRecords)
  BY DEF JobsOK
<1> DEFINE ks == [js EXCEPT ![j] = x]
<1>2. Len(ks) = Len(js) /\ \A i \in 1..Len(js) : ks[i] = IF i = j THEN x ELSE js[i]
  BY <1>1
<1> HIDE DEF ks
<1>3. ASSUME NEW i \in 1..Len(js) PROVE JobGoesOn(js[i], ks[i], v)
  <2>1. CASE i = j
    BY <1>2, <2>1
  <2>2. CASE i # j
    BY <1>2, <2>2, JobStays
  <2>q. QED
    BY <2>1, <2>2
<1>4. Len(js) <= Len(ks)
  BY <1>1, <1>2
<1>5. JobsGoOn(js, ks, v)
  BY <1>3, <1>4 DEF JobsGoOn
<1>q. QED
  BY <1>5 DEF ks

\* One promise changes and the others were seen already.
LEMMA ChangeSeen ==
  ASSUME NEW js, JobsOK(js), NEW j \in 1..Len(js), NEW v, JobsSeen(js, v), NEW x, JobSeen(x, v)
  PROVE  JobsSeen([js EXCEPT ![j] = x], v)
<1>1. Len(js) \in Nat /\ js \in Seq(JobRecords)
  BY DEF JobsOK
<1> DEFINE ks == [js EXCEPT ![j] = x]
<1>2. Len(ks) = Len(js) /\ \A i \in 1..Len(js) : ks[i] = IF i = j THEN x ELSE js[i]
  BY <1>1
<1> HIDE DEF ks
<1>3. ASSUME NEW i \in 1..Len(ks) PROVE JobSeen(ks[i], v)
  BY <1>2 DEF JobsSeen
<1>4. JobsSeen(ks, v)
  BY <1>3 DEF JobsSeen
<1>q. QED
  BY <1>4 DEF ks

\* One more promise that was seen.
LEMMA AppendSeen ==
  ASSUME NEW js, JobsOK(js), NEW v, JobsSeen(js, v), NEW x, JobSeen(x, v)
  PROVE  JobsSeen(Append(js, x), v)
<1>1. Len(js) \in Nat /\ js \in Seq(JobRecords)
  BY DEF JobsOK
<1> DEFINE ks == Append(js, x)
<1>2. Len(ks) = Len(js) + 1 /\ \A i \in 1..Len(ks) : ks[i] = IF i = Len(js) + 1 THEN x ELSE js[i]
  BY <1>1
<1> HIDE DEF ks
<1>3. ASSUME NEW i \in 1..Len(ks) PROVE JobSeen(ks[i], v)
  <2>1. CASE i = Len(js) + 1
    BY <1>2, <2>1
  <2>2. CASE i # Len(js) + 1
    <3>1. i \in 1..Len(js)
      BY <1>1, <1>2, <2>2
    <3>q. QED
      BY <1>2, <2>2, <3>1 DEF JobsSeen
  <2>q. QED
    BY <2>1, <2>2
<1>4. JobsSeen(ks, v)
  BY <1>3 DEF JobsSeen
<1>q. QED
  BY <1>4 DEF ks

\* An invalidation that failed stays failed.
LEMMA LostStays ==
  ASSUME NEW js, NEW ks, NEW inv, NEW inv2, NEW v, JobsOK(js), JobsGoOn(js, ks, v), InvalidationOK(inv, js),
         InvGoesOn(inv, inv2, js, ks), Lost(inv, js)
  PROVE  Lost(inv2, ks)
<1>1. inv \in 1..Len(js) /\ inv2 = inv
  BY DEF InvGoesOn, Lost, InvalidationOK, JobsOK
<1>2. JobGoesOn(js[inv], ks[inv], v)
  BY <1>1 DEF JobsGoOn
<1>q. QED
  BY <1>1, <1>2 DEF Lost, JobGoesOn, Settled

\* What excuses a mismatch stays true.
LEMMA ExcusedStays ==
  ASSUME NEW js, NEW ks, NEW inv, NEW inv2, NEW v, JobsOK(js), JobsOK(ks), JobsGoOn(js, ks, v),
         InvalidationOK(inv, js), InvGoesOn(inv, inv2, js, ks), NEW q, Excused(q, js, inv)
  PROVE  Excused(q, ks, inv2)
<1>1. CASE q.began < q.ended
  BY <1>1 DEF Excused
<1>2. CASE Lost(inv, js)
  BY <1>2, LostStays DEF Excused
<1>3. CASE q.job \in 1..Len(js) /\ js[q.job].key.of = "header" /\ js[q.job].step = "mismatch"
  <2>1. JobGoesOn(js[q.job], ks[q.job], v) /\ q.job \in 1..Len(ks)
    BY <1>3 DEF JobsGoOn, JobsOK
  <2>q. QED
    BY <1>3, <2>1 DEF Excused, JobGoesOn, Settled
<1>q. QED
  BY <1>1, <1>2, <1>3 DEF Excused

\* So does what is known of a request that does not change.
LEMMA ReqGoesOn ==
  ASSUME NEW js, NEW ks, NEW inv, NEW inv2, NEW v \in Nat, NEW w \in Nat, v <= w,
         JobsOK(js), JobsOK(ks), JobsGoOn(js, ks, v), InvalidationOK(inv, js), InvGoesOn(inv, inv2, js, ks),
         NEW kind, NEW q \in ReqRecords, ReqOK(q, kind, js), ReqSeen(q, kind, v, js, inv)
  PROVE  ReqSeen(q, kind, w, ks, inv2)
<1>0. /\ q.began \in Nat /\ q.hdr \in Nat /\ q.job \in Nat /\ Len(js) \in Nat /\ q.attempt \in Nat
      /\ q.answer \in Int
  BY PMTilesAssumption DEF ReqRecords, JobsOK
<1>1. q.pc = "idle" => q.attempt = 0
  BY DEF ReqSeen
<1>2. q.pc \in Running => q.began <= v /\ q.began <= w /\ q.attempt \in 1..2
  BY <1>0 DEF ReqSeen
<1>3. q.pc = "header" => q.job \in 1..Len(js) /\ JobGoesOn(js[q.job], ks[q.job], v)
  BY DEF ReqOK, JobsGoOn
<1>4. q.pc = "header" => ks[q.job].key = HeaderKey
  BY <1>3 DEF ReqSeen, JobGoesOn
<1>5. q.pc \in {"dir", "sent", "answered"} => q.hdr <= w
  BY <1>0 DEF ReqSeen
<1>6. q.pc = "answered" => Seen(q.answer, q.hdr, w)
  BY <1>0 DEF ReqSeen, Seen
<1>7. ASSUME q.attempt = 1, q.pc \in Running, inv2 # 0
      PROVE  Fresh(ks[inv2], q.began) \/ (q.pc = "header" /\ q.job = inv2)
  <2>1. CASE inv2 = inv
    <3>1. inv \in 1..Len(js)
      BY <1>0, <1>7, <2>1 DEF InvalidationOK
    <3>2. JobGoesOn(js[inv], ks[inv], v)
      BY <3>1 DEF JobsGoOn
    <3>3. Fresh(js[inv], q.began) \/ (q.pc = "header" /\ q.job = inv)
      BY <1>7, <2>1 DEF ReqSeen
    <3>q. QED
      BY <1>0, <1>2, <1>7, <2>1, <3>2, <3>3 DEF JobGoesOn
  <2>2. CASE inv = 0 /\ ks[inv2].step = "sent"
    BY <2>2 DEF Fresh
  <2>q. QED
    BY <1>7, <2>1, <2>2 DEF InvGoesOn
<1>8. Lost(inv, js) => Lost(inv2, ks)
  BY LostStays
<1>9. ASSUME q.attempt = 2, q.pc = "header" PROVE Fresh(ks[q.job], q.began) \/ Lost(inv2, ks)
  <2>1. Fresh(js[q.job], q.began) \/ Lost(inv, js)
    BY <1>9 DEF ReqSeen
  <2>2. q.began <= v
    BY <1>2, <1>9 DEF Running
  <2>q. QED
    BY <1>0, <1>3, <1>8, <1>9, <2>1, <2>2 DEF JobGoesOn
<1>10. q.attempt = 2 /\ q.pc \in {"dir", "sent", "answered"} => q.began <= q.hdr \/ Lost(inv2, ks)
  BY <1>8 DEF ReqSeen
<1>11. q.result = "mismatch" /\ kind # "header" => Excused(q, ks, inv2)
  BY ExcusedStays DEF ReqSeen
<1>q. QED
  BY <1>1, <1>2, <1>4, <1>5, <1>6, <1>7, <1>9, <1>10, <1>11 DEF ReqSeen

\* One request changes.
LEMMA RequestSees ==
  ASSUME ArchiveInv, ArchiveInv', RetryState, version' = version,
         JobsGoOn(jobs, jobs', version), InvGoesOn(invalidating, invalidating', jobs, jobs'),
         NEW r \in Requests, NEW q, req' = [req EXCEPT ![r] = q],
         ReqSeen(q, Kind[r], version, jobs', invalidating')
  PROVE  ReqsSeen(req', version', jobs', invalidating')
<1>1. ASSUME NEW s \in Requests PROVE ReqSeen(req'[s], Kind[s], version, jobs', invalidating')
  <2>0. req \in [Requests -> ReqRecords] /\ ReqOK(req[s], Kind[s], jobs) /\ JobsOK(jobs) /\ JobsOK(jobs')
    BY DEF ArchiveInv, ReqsOK
  <2>1. CASE s = r
    BY <2>0, <2>1
  <2>2. CASE s # r
    <3>1. req'[s] = req[s] /\ req[s] \in ReqRecords
      BY <2>0, <2>2
    <3>2. ReqSeen(req[s], Kind[s], version, jobs, invalidating) /\ InvalidationOK(invalidating, jobs)
      BY DEF RetryState, ReqsSeen
    <3>3. version \in Nat /\ version <= version
      BY PMTilesAssumption DEF ArchiveInv, Versions
    <3>4. ReqSeen(req[s], Kind[s], version, jobs', invalidating')
      BY <2>0, <3>1, <3>2, <3>3, ReqGoesOn
    <3>q. QED
      BY <3>1, <3>4
  <2>q. QED
    BY <2>1, <2>2
<1>q. QED
  BY <1>1 DEF ReqsSeen

\* No request changes.
LEMMA JobsSee ==
  ASSUME ArchiveInv, ArchiveInv', RetryState, version <= version', req' = req,
         JobsGoOn(jobs, jobs', version), InvGoesOn(invalidating, invalidating', jobs, jobs')
  PROVE  ReqsSeen(req', version', jobs', invalidating')
<1>1. ASSUME NEW s \in Requests PROVE ReqSeen(req[s], Kind[s], version', jobs', invalidating')
  <2>1. req[s] \in ReqRecords /\ ReqOK(req[s], Kind[s], jobs) /\ JobsOK(jobs) /\ JobsOK(jobs')
    BY DEF ArchiveInv, ReqsOK
  <2>2. ReqSeen(req[s], Kind[s], version, jobs, invalidating) /\ InvalidationOK(invalidating, jobs)
    BY DEF RetryState, ReqsSeen
  <2>3. version \in Nat /\ version' \in Nat
    BY PMTilesAssumption DEF ArchiveInv, Versions
  <2>q. QED
    BY <2>1, <2>2, <2>3, ReqGoesOn
<1>q. QED
  BY <1>1 DEF ReqsSeen

----------------------------------------------------------------------------
(* Steps of a request. *)

\* Going on twice is going on.
LEMMA GoesOnTransitive ==
  ASSUME NEW js, NEW ks, NEW ls, NEW v, JobsOK(js), JobsOK(ks), JobsOK(ls),
         JobsGoOn(js, ks, v), JobsGoOn(ks, ls, v)
  PROVE  JobsGoOn(js, ls, v)
<1>1. Len(js) \in Nat /\ Len(ks) \in Nat /\ Len(ls) \in Nat /\ Len(js) <= Len(ks) /\ Len(ks) <= Len(ls)
  BY DEF JobsOK, JobsGoOn
<1>2. ASSUME NEW i \in 1..Len(js) PROVE JobGoesOn(js[i], ls[i], v)
  <2>1. JobGoesOn(js[i], ks[i], v) /\ JobGoesOn(ks[i], ls[i], v)
    BY <1>1 DEF JobsGoOn
  <2>q. QED
    BY <2>1 DEF JobGoesOn
<1>q. QED
  BY <1>1, <1>2 DEF JobsGoOn

\* The invalidation under way, over one more promise.
LEMMA AppendInvalidation ==
  ASSUME NEW js, JobsOK(js), NEW inv, InvalidationOK(inv, js), NEW x
  PROVE  InvalidationOK(inv, Append(js, x))
<1>1. Len(js) \in Nat /\ js \in Seq(JobRecords)
  BY DEF JobsOK
<1>2. Len(Append(js, x)) = Len(js) + 1 /\ \A i \in 1..Len(js) : Append(js, x)[i] = js[i]
  BY <1>1
<1>3. inv \in 0..Len(js) /\ (inv # 0 => inv \in 1..Len(js))
  BY <1>1 DEF InvalidationOK
<1> DEFINE ks == Append(js, x)
<1> HIDE DEF ks
<1>4. inv \in 0..Len(ks) /\ (inv # 0 => ks[inv] = js[inv])
  BY <1>1, <1>2, <1>3 DEF ks
<1>5. InvalidationOK(inv, ks)
  BY <1>4 DEF InvalidationOK
<1>q. QED
  BY <1>5 DEF ks

\* A promise of the present version, just made.
LEMMA NewJobSeen ==
  ASSUME NEW key \in Keys, NEW hdr, NEW b, NEW v,
         key.of = "header" => key = HeaderKey, key.of = "dir" => hdr <= v
  PROVE  JobSeen(NewJob(key, hdr, b), v)
<1> DEFINE x == NewJob(key, hdr, b)
<1>1. x.key = key /\ x.hdr = hdr /\ x.step = "sent"
  BY DEF NewJob
<1> HIDE DEF x
<1>2. JobSeen(x, v)
  BY <1>1 DEF JobSeen
<1>q. QED
  BY <1>2 DEF x

\* What the promise p of a key, found or made, leaves of the cache and the promises.
KeySeen(key, hdr, v) ==
  /\ key.of = "header" => key = HeaderKey
  /\ key.of = "dir" => hdr <= v
PromiseSeen(c, js, key, p, v) ==
  /\ UniqueKeys(p.cache) /\ JobsGoOn(js, p.jobs, v) /\ JobsSeen(p.jobs, v)
  /\ \A inv : InvalidationOK(inv, js) => InvalidationOK(inv, p.jobs)
  /\ \A j : Leads(c, key, j) => p.job = j /\ p.jobs = js
  /\ \A k, i : Leads(c, k, i) => Leads(p.cache, k, i)

LEMMA PromiseSees ==
  ASSUME NEW c, NEW js, NEW key \in Keys, NEW hdr, NEW b, NEW v,
         JobsOK(js), CacheOK(c, js), UniqueKeys(c), JobsSeen(js, v), KeySeen(key, hdr, v)
  PROVE  PromiseSeen(c, js, key, Promise(c, js, key, hdr, b), v)
<1>0. c \in Seq(Entries) /\ Len(js) \in Nat
  BY DEF CacheOK, JobsOK
<1>1. CASE Cached(c, key)
  <2> DEFINE j == JobOf(c, key)
             u == Used(c, key, j)
  <2>1. Place(c, key) \in 1..Len(c) /\ c[Place(c, key)].key = key
    BY <1>1 DEF Cached, Place
  <2>2. j \in Nat /\ Leads(c, key, j)
    BY <1>0, <2>1 DEF JobOf, CacheOK, Leads
  <2>3. Promise(c, js, key, hdr, b) = [cache |-> u, jobs |-> js, job |-> j]
    BY <1>1 DEF Promise
  <2> HIDE DEF j
  <2>4. UniqueKeys(u) /\ Leads(u, key, j) /\ \A k, i : k # key /\ Leads(c, k, i) => Leads(u, k, i)
    BY <1>0, <2>2, UsedKeeps
  <2>5. \A i : Leads(c, key, i) => i = j
    BY <1>0, <2>2, FoundInCache DEF j
  <2> HIDE DEF u
  <2>6. JobsGoOn(js, js, v)
    BY AppendGoesOn
  <2>7. \A k, i : Leads(c, k, i) => Leads(u, k, i)
    BY <2>4, <2>5
  <2>q. QED
    BY <2>3, <2>4, <2>5, <2>6, <2>7 DEF PromiseSeen
<1>2. CASE ~Cached(c, key)
  <2> DEFINE x == NewJob(key, hdr, b)
             ks == Append(js, x)
             n == Len(js) + 1
             u == Used(c, key, n)
  <2>1. Promise(c, js, key, hdr, b) = [cache |-> u, jobs |-> ks, job |-> n]
    BY <1>2 DEF Promise
  <2>2. n \in Nat
    BY <1>0
  <2> HIDE DEF n
  <2>3. UniqueKeys(u) /\ Leads(u, key, n) /\ \A k, i : k # key /\ Leads(c, k, i) => Leads(u, k, i)
    BY <1>0, <2>2, UsedKeeps
  <2> HIDE DEF u
  <2>4. \A i : ~Leads(c, key, i)
    BY <1>2 DEF Leads, Cached
  <2>5. JobSeen(x, v)
    BY NewJobSeen DEF KeySeen
  <2> HIDE DEF x
  <2>6. JobsGoOn(js, ks, v) /\ JobsSeen(ks, v) /\ \A inv : InvalidationOK(inv, js) => InvalidationOK(inv, ks)
    BY <2>5, AppendGoesOn, AppendSeen, AppendInvalidation
  <2> HIDE DEF ks
  <2>7. \A k, i : Leads(c, k, i) => k # key
    BY <2>4
  <2>q. QED
    BY <2>1, <2>3, <2>4, <2>6, <2>7 DEF PromiseSeen
<1>q. QED
  BY <1>1, <1>2

\* A step of request r alone, over the same version.
LEMMA StepSees ==
  ASSUME ArchiveInv, ArchiveInv', RetryState, version' = version,
         UniqueKeys(cache'), JobsGoOn(jobs, jobs', version), JobsSeen(jobs', version),
         InvGoesOn(invalidating, invalidating', jobs, jobs'), InvalidationOK(invalidating', jobs'),
         NEW r \in Requests, NEW q, req' = [req EXCEPT ![r] = q],
         ReqSeen(q, Kind[r], version, jobs', invalidating'),
         EnoughRoom /\ HeaderFound => HeaderFound'
  PROVE  RetryGoesOn
<1>1. ReqsSeen(req', version', jobs', invalidating')
  BY RequestSees
<1>q. QED
  BY <1>1 DEF RetryState, RetryGoesOn

\* The cache leads to what it led to, and no invalidation begins.
LEMMA FoundStays ==
  ASSUME ArchiveInv, RetryState, JobsGoOn(jobs, jobs', version),
         invalidating' = invalidating \/ (invalidating' = 0 /\ ~Lost(invalidating, jobs)),
         \A i : Leads(cache, HeaderKey, i) => Leads(cache', HeaderKey, i), HeaderFound
  PROVE  HeaderFound'
<1>1. JobsOK(jobs) /\ InvalidationOK(invalidating, jobs) /\ InvGoesOn(invalidating, invalidating', jobs, jobs')
  BY DEF ArchiveInv, RetryState, InvGoesOn
<1>2. Lost(invalidating, jobs) => Lost(invalidating', jobs')
  BY <1>1, LostStays
<1>q. QED
  BY <1>2 DEF HeaderFound

\* An attempt that starts with the header in the cache or with a new one.
LEMMA JoinSees ==
  ASSUME ArchiveInv, ArchiveInv', RetryState, HeaderFound, version' = version,
         NEW r \in Requests, NEW n \in {1, 2}, NEW b \in BOOLEAN, Attempt(r, n, cache, jobs, b, invalidating),
         n = 2 => /\ invalidating # 0 /\ req[r].began <= version
                  /\ Lost(invalidating, jobs) \/ Fresh(jobs[invalidating], req[r].began)
  PROVE  RetryGoesOn
<1> DEFINE p == Promise(cache, jobs, HeaderKey, 0, b)
           q == [Idle EXCEPT !.pc = "header", !.attempt = n, !.job = p.job,
                             !.began = IF n = 1 THEN version ELSE req[r].began]
<1>0. /\ HeaderKey \in Keys /\ HeaderKey.of = "header" /\ JobsOK(jobs) /\ CacheOK(cache, jobs)
      /\ UniqueKeys(cache) /\ JobsSeen(jobs, version) /\ InvalidationOK(invalidating, jobs)
      /\ version \in Nat /\ 0 \in 0..MaxVersion /\ KeySeen(HeaderKey, 0, version)
  BY KeysOK, PMTilesAssumption DEF ArchiveInv, RetryState, Versions, KeySeen
<1>1. /\ UniqueKeys(p.cache) /\ JobsGoOn(jobs, p.jobs, version) /\ JobsSeen(p.jobs, version)
      /\ InvalidationOK(invalidating, p.jobs)
      /\ \A j : Leads(cache, HeaderKey, j) => p.job = j /\ p.jobs = jobs
      /\ \A j : Leads(cache, HeaderKey, j) => Leads(p.cache, HeaderKey, j)
  <2>1. PromiseSeen(cache, jobs, HeaderKey, p, version)
    BY <1>0, PromiseSees
  <2> HIDE DEF p
  <2>q. QED
    BY <1>0, <2>1 DEF PromiseSeen
<1>2. jobs' = p.jobs /\ cache' = p.cache /\ invalidating' = invalidating /\ req' = [req EXCEPT ![r] = q]
  BY DEF Attempt
<1>3. p.jobs[p.job].key = HeaderKey
  BY <1>0, PromiseOK
<1> HIDE DEF p
<1>4. /\ q.pc = "header" /\ q.attempt = n /\ q.job = p.job /\ q.result = "none"
      /\ q.began = IF n = 1 THEN version ELSE req[r].began
  BY DEF Idle
<1> HIDE DEF q
<1>5. InvGoesOn(invalidating, invalidating', jobs, jobs')
  BY <1>2 DEF InvGoesOn
<1>6. Lost(invalidating, jobs) => Lost(invalidating', jobs')
  BY <1>0, <1>1, <1>2, <1>5, LostStays
<1>7. ASSUME n = 1, invalidating' # 0 PROVE Fresh(jobs'[invalidating'], q.began) \/ q.job = invalidating'
  <2>1. CASE Lost(invalidating, jobs)
    BY <1>6, <2>1 DEF Lost, Fresh
  <2>2. CASE Leads(cache, HeaderKey, invalidating)
    BY <1>1, <1>2, <1>4, <2>2
  <2>q. QED
    BY <1>2, <1>7, <2>1, <2>2 DEF HeaderFound
<1>8. ASSUME n = 2 PROVE Fresh(jobs'[q.job], q.began) \/ Lost(invalidating', jobs')
  <2>1. CASE Lost(invalidating, jobs)
    BY <1>6, <2>1
  <2>2. CASE Leads(cache, HeaderKey, invalidating) /\ ~Lost(invalidating, jobs)
    BY <1>1, <1>2, <1>4, <1>8, <2>2
  <2>q. QED
    BY <1>8, <2>1, <2>2 DEF HeaderFound
<1>9. ReqSeen(q, Kind[r], version, jobs', invalidating')
  BY <1>0, <1>2, <1>3, <1>4, <1>7, <1>8 DEF ReqSeen
<1>10. HeaderFound'
  BY <1>1, <1>2, FoundStays
<1>q. QED
  BY <1>1, <1>2, <1>5, <1>9, <1>10, StepSees

\* A second attempt that drops the header and reads it anew.
LEMMA RenewSees ==
  ASSUME ArchiveInv, ArchiveInv', RetryState, version' = version, invalidating = 0,
         NEW r \in Requests, Retry(r), req[r].began <= version
  PROVE  RetryGoesOn
<1> DEFINE x == NewJob(HeaderKey, 0, TRUE)
           js == Append(jobs, x)
           n == Len(jobs) + 1
           c == Used(Without(cache, HeaderKey), HeaderKey, n)
           p == Promise(c, js, HeaderKey, 0, TRUE)
           q == [Idle EXCEPT !.pc = "header", !.attempt = 2, !.job = p.job, !.began = req[r].began]
<1>0. /\ HeaderKey \in Keys /\ HeaderKey.of = "header" /\ JobsOK(jobs) /\ CacheOK(cache, jobs)
      /\ UniqueKeys(cache) /\ JobsSeen(jobs, version) /\ InvalidationOK(invalidating, jobs)
      /\ version \in Nat /\ 0 \in 0..MaxVersion /\ KeySeen(HeaderKey, 0, version)
  BY KeysOK, PMTilesAssumption DEF ArchiveInv, RetryState, Versions, KeySeen
<1>1. x \in JobRecords /\ JobOK(x) /\ x.key = HeaderKey /\ x.step = "sent"
  <2>1. x \in JobRecords /\ JobOK(x) /\ x.key = HeaderKey
    BY <1>0, NewJobOK
  <2>2. x.step = "sent"
    BY DEF NewJob
  <2>q. QED
    BY <2>1, <2>2
<1>2. JobSeen(x, version)
  BY <1>0, NewJobSeen DEF KeySeen
<1>3. /\ jobs' = p.jobs /\ cache' = p.cache /\ invalidating' = n
      /\ req' = [req EXCEPT ![r] = q]
  <2>1. Attempt(r, 2, c, js, TRUE, n)
    BY DEF Retry
  <2> HIDE DEF c, js, n
  <2>2. (IF 2 = 1 THEN version ELSE req[r].began) = req[r].began
    OBVIOUS
  <2>q. QED
    BY <2>1, <2>2, Zenon DEF Attempt
<1> HIDE DEF x
<1>4. JobsOK(js) /\ js[n] = x /\ n \in 1..Len(js) /\ n # 0 /\ n \in Nat
  <2>1. JobsOK(js) /\ js[n] = x /\ n \in 1..Len(js)
    BY <1>0, <1>1, AppendJob
  <2>2. n # 0 /\ n \in Nat
    BY <1>0 DEF JobsOK
  <2>q. QED
    BY <2>1, <2>2
<1>5. JobsGoOn(jobs, js, version) /\ JobsSeen(js, version) /\ GrowsTo(jobs, js)
  BY <1>0, <1>1, <1>2, AppendGoesOn, AppendSeen, AppendJob
<1> HIDE DEF js, n
<1>6. UniqueKeys(c) /\ Leads(c, HeaderKey, n) /\ CacheOK(c, js)
  <2>1. cache \in Seq(Entries) /\ Without(cache, HeaderKey) \in Seq(Entries) /\ UniqueKeys(Without(cache, HeaderKey))
    BY <1>0, WithoutKeeps DEF CacheOK
  <2>2. UniqueKeys(c) /\ Leads(c, HeaderKey, n)
    BY <1>0, <1>4, <2>1, UsedKeeps
  <2>3. CacheOK(Without(cache, HeaderKey), js)
    BY <1>0, <1>4, <1>5, CacheOfMoreJobs, WithoutOK
  <2>4. CacheOK(c, js)
    BY <1>0, <1>1, <1>4, <2>3, UsedOK
  <2>q. QED
    BY <2>2, <2>4
<1> HIDE DEF c
<1>7. p.job = n /\ p.jobs = js /\ UniqueKeys(p.cache) /\ Leads(p.cache, HeaderKey, n)
  <2>1. PromiseSeen(c, js, HeaderKey, p, version)
    BY <1>0, <1>4, <1>5, <1>6, PromiseSees
  <2> HIDE DEF p
  <2>q. QED
    BY <1>6, <2>1 DEF PromiseSeen
<1> HIDE DEF p
<1>8. /\ q.pc = "header" /\ q.attempt = 2 /\ q.job = n /\ q.result = "none" /\ q.began = req[r].began
  BY <1>7 DEF Idle
<1> HIDE DEF q
<1>9. ReqSeen(q, Kind[r], version, jobs', invalidating')
  BY <1>1, <1>3, <1>4, <1>7, <1>8 DEF ReqSeen, Fresh
<1>10. InvGoesOn(invalidating, invalidating', jobs, jobs')
  BY <1>1, <1>3, <1>4, <1>7 DEF InvGoesOn
<1>11. InvalidationOK(invalidating', jobs')
  <2>1. Len(js) \in Nat
    BY <1>4 DEF JobsOK
  <2>q. QED
    BY <1>1, <1>3, <1>4, <1>7, <2>1 DEF InvalidationOK
<1>12. HeaderFound'
  BY <1>3, <1>7 DEF HeaderFound
<1>q. QED
  BY <1>3, <1>5, <1>7, <1>9, <1>10, <1>11, <1>12, StepSees

\* What the first attempt of r found: its header or its bytes are of an older version.
\* An invalidation under way is not over before there is a newer header.
MayRetry(r) ==
  /\ req[r].attempt = 1 /\ req[r].began <= version
  /\ invalidating # 0 => Lost(invalidating, jobs) \/ Fresh(jobs[invalidating], req[r].began)

LEMMA RetrySees ==
  ASSUME ArchiveInv, ArchiveInv', RetryState, noStore, HeaderKept, version' = version,
         NEW r \in Requests, Retry(r), MayRetry(r)
  PROVE  RetryGoesOn
<1>1. CASE invalidating = 0
  BY <1>1, RenewSees DEF MayRetry
<1>2. CASE invalidating # 0
  <2>1. Attempt(r, 2, cache, jobs, TRUE, invalidating)
    BY <1>2 DEF Retry
  <2>2. req'[r].attempt = 2
    BY <2>1 DEF Attempt, Idle, ArchiveInv, ReqsOK
  <2>3. HeaderFound
    BY <2>2 DEF HeaderKept, MayRetry
  <2>q. QED
    BY <1>2, <2>1, <2>3, JoinSees DEF MayRetry
<1>q. QED
  BY <1>1, <1>2

\* The end of a request.
LEMMA FinishSees ==
  ASSUME ArchiveInv, ArchiveInv', RetryState, version' = version,
         NEW r \in Requests, NEW result, NEW got, Finish(r, result, got),
         UNCHANGED << cache, jobs, invalidating >>,
         result = "mismatch" /\ Kind[r] # "header" =>
           Excused([req[r] EXCEPT !.ended = version], jobs, invalidating)
  PROVE  RetryGoesOn
<1> DEFINE q == [req[r] EXCEPT !.pc = "done", !.result = result, !.got = got, !.ended = version]
           z == [req[r] EXCEPT !.ended = version]
<1>0. req[r] \in ReqRecords /\ JobsOK(jobs)
  BY DEF ArchiveInv, ReqsOK
<1>1. req' = [req EXCEPT ![r] = q]
  BY DEF Finish
<1>2. /\ q.pc = "done" /\ q.result = result /\ q.began = z.began /\ q.ended = z.ended /\ q.job = z.job
  BY <1>0 DEF ReqRecords
<1>3. result = "mismatch" /\ Kind[r] # "header" => Excused(z, jobs, invalidating)
  OBVIOUS
<1> HIDE DEF q, z
<1>4. ReqSeen(q, Kind[r], version, jobs, invalidating)
  BY <1>2, <1>3 DEF ReqSeen, Excused, Running
<1>5. JobsGoOn(jobs, jobs, version)
  BY <1>0, AppendGoesOn
<1>6. UniqueKeys(cache) /\ JobsSeen(jobs, version) /\ InvalidationOK(invalidating, jobs)
  BY DEF RetryState
<1>7. HeaderFound => HeaderFound'
  BY <1>1 DEF HeaderFound
<1>q. QED
  BY <1>1, <1>4, <1>5, <1>6, <1>7, StepSees DEF InvGoesOn

\* An exception: the second attempt, or the end.
LEMMA ThrowSees ==
  ASSUME ArchiveInv, ArchiveInv', RetryState, noStore, HeaderKept, version' = version,
         NEW r \in Requests, NEW error \in {"error", "mismatch"}, Throw(r, error),
         error = "mismatch" /\ req[r].attempt = 1 => MayRetry(r),
         error = "mismatch" /\ req[r].attempt # 1 => Excused([req[r] EXCEPT !.ended = version], jobs, invalidating)
  PROVE  RetryGoesOn
<1>1. CASE error = "mismatch" /\ req[r].attempt = 1 /\ Kind[r] # "header"
  BY <1>1, RetrySees DEF Throw
<1>2. CASE ~(error = "mismatch" /\ req[r].attempt = 1 /\ Kind[r] # "header")
  <2>1. Finish(r, error, 0) /\ UNCHANGED << cache, jobs, invalidating >>
    BY <1>2 DEF Throw
  <2>2. error = "mismatch" /\ Kind[r] # "header" => Excused([req[r] EXCEPT !.ended = version], jobs, invalidating)
    BY <1>2
  <2>q. QED
    BY <2>1, <2>2, FinishSees
<1>q. QED
  BY <1>1, <1>2

\* A request that goes on with the header of version h.
GoesOnWith(q, h, v, js, inv) ==
  /\ q.pc \in {"header", "dir"} /\ q.attempt \in 1..2 /\ q.began <= v /\ h <= v
  /\ q.attempt = 1 /\ inv # 0 => Fresh(js[inv], q.began)
  /\ q.attempt = 2 => q.began <= h \/ Lost(inv, js)

\* The request's own fetch.
LEMMA FetchSees ==
  ASSUME ArchiveInv, ArchiveInv', RetryState, version' = version,
         NEW r \in Requests, NEW h, NEW dirs, Fetch(r, h, dirs),
         GoesOnWith(req[r], h, version, jobs, invalidating)
  PROVE  RetryGoesOn
<1> DEFINE q == [req[r] EXCEPT !.pc = "sent", !.hdr = h, !.reload = mustReload, !.dirs = dirs]
<1>0. req[r] \in ReqRecords /\ JobsOK(jobs) /\ ReqOK(req[r], Kind[r], jobs)
  BY DEF ArchiveInv, ReqsOK
<1>1. req' = [req EXCEPT ![r] = q] /\ jobs' = jobs /\ cache' = cache /\ invalidating' = invalidating
  BY DEF Fetch
<1>2. /\ q.pc = "sent" /\ q.hdr = h /\ q.attempt = req[r].attempt /\ q.began = req[r].began
      /\ q.result = req[r].result
  BY <1>0 DEF ReqRecords
<1> HIDE DEF q
<1>3. q.result # "mismatch"
  BY <1>0, <1>2 DEF GoesOnWith, ReqOK
<1>4. ReqSeen(q, Kind[r], version, jobs, invalidating)
  BY <1>2, <1>3 DEF ReqSeen, GoesOnWith
<1>5. JobsGoOn(jobs, jobs, version)
  BY <1>0, AppendGoesOn
<1>6. UniqueKeys(cache) /\ JobsSeen(jobs, version) /\ InvalidationOK(invalidating, jobs)
  BY DEF RetryState
<1>7. HeaderFound => HeaderFound'
  BY <1>1 DEF HeaderFound
<1>q. QED
  BY <1>1, <1>4, <1>5, <1>6, <1>7, StepSees DEF InvGoesOn

\* On to a directory.
LEMMA GetDirectorySees ==
  ASSUME ArchiveInv, ArchiveInv', RetryState, version' = version,
         NEW r \in Requests, NEW h \in Versions, NEW at \in Dirs, NEW n, NEW dirs, GetDirectory(r, h, at, n, dirs),
         GoesOnWith(req[r], h, version, jobs, invalidating)
  PROVE  RetryGoesOn
<1> DEFINE key == DirKey(h, at)
           p == Promise(cache, jobs, key, h, mustReload)
           q == [req[r] EXCEPT !.pc = "dir", !.job = p.job, !.hdr = h, !.at = at, !.depth = n, !.dirs = dirs]
<1>0. /\ req[r] \in ReqRecords /\ JobsOK(jobs) /\ CacheOK(cache, jobs) /\ ReqOK(req[r], Kind[r], jobs)
      /\ UniqueKeys(cache) /\ JobsSeen(jobs, version) /\ InvalidationOK(invalidating, jobs)
      /\ h \in 0..MaxVersion
  BY PMTilesAssumption DEF ArchiveInv, ReqsOK, RetryState, Versions
<1>1. key \in Keys /\ key.of = "dir"
  BY <1>0, KeysOK
<1>2. KeySeen(key, h, version)
  BY <1>1 DEF KeySeen, GoesOnWith
<1>3. jobs' = p.jobs /\ cache' = p.cache /\ req' = [req EXCEPT ![r] = q] /\ invalidating' = invalidating
  BY DEF GetDirectory, Await
<1> HIDE DEF key
<1>4. PromiseSeen(cache, jobs, key, p, version)
  BY <1>0, <1>1, <1>2, PromiseSees
<1> HIDE DEF p
<1>5. /\ UniqueKeys(p.cache) /\ JobsGoOn(jobs, p.jobs, version) /\ JobsSeen(p.jobs, version)
      /\ InvalidationOK(invalidating, p.jobs)
      /\ \A i : Leads(cache, HeaderKey, i) => Leads(p.cache, HeaderKey, i)
  BY <1>0, <1>4 DEF PromiseSeen
<1>6. /\ q.pc = "dir" /\ q.hdr = h /\ q.attempt = req[r].attempt /\ q.began = req[r].began
      /\ q.result = req[r].result /\ q.began \in Nat
  BY <1>0 DEF ReqRecords
<1> HIDE DEF q
<1>7. q.result # "mismatch"
  BY <1>0, <1>6 DEF GoesOnWith, ReqOK
<1>8. InvGoesOn(invalidating, invalidating', jobs, jobs')
  BY <1>3 DEF InvGoesOn
<1>9. Lost(invalidating, jobs) => Lost(invalidating', jobs')
  BY <1>0, <1>3, <1>5, <1>8, LostStays
<1>10. q.attempt = 1 /\ invalidating' # 0 => Fresh(jobs'[invalidating'], q.began)
  <2>1. invalidating # 0 => invalidating \in 1..Len(jobs)
    BY <1>0 DEF InvalidationOK, JobsOK
  <2>2. invalidating # 0 => JobGoesOn(jobs[invalidating], jobs'[invalidating], version)
    BY <1>3, <1>5, <2>1 DEF JobsGoOn
  <2>q. QED
    BY <1>3, <1>6, <2>2 DEF JobGoesOn, GoesOnWith
<1>11. ReqSeen(q, Kind[r], version, jobs', invalidating')
  BY <1>6, <1>7, <1>9, <1>10 DEF ReqSeen, GoesOnWith
<1>12. HeaderFound => HeaderFound'
  BY <1>3, <1>5, FoundStays
<1>q. QED
  BY <1>3, <1>5, <1>8, <1>11, <1>12, StepSees

----------------------------------------------------------------------------
(* The actions. *)

\* The header has arrived.
LEMMA HeaderReadySees ==
  ASSUME ArchiveInv, ArchiveInv', RetryState, version' = version,
         NEW r \in Requests, NEW v \in Versions, HeaderReady(r, v),
         GoesOnWith(req[r], v, version, jobs, invalidating)
  PROVE  RetryGoesOn
<1>0. Root \in Dirs /\ Kind[r] \in {"tile", "meta", "header"}
  BY PMTilesAssumption
<1>1. CASE Kind[r] = "header"
  BY <1>1, FinishSees DEF HeaderReady
<1>2. CASE Kind[r] = "meta"
  BY <1>2, FetchSees DEF HeaderReady
<1>3. CASE Kind[r] = "tile"
  <2>1. CASE v \notin OldFormat /\ Entry[v][Root][r] = Outside
    <3>1. Finish(r, Absent, 0) /\ UNCHANGED << cache, jobs, invalidating >>
      BY <1>3, <2>1 DEF HeaderReady
    <3>2. Absent # "mismatch"
      BY DEF Absent
    <3>q. QED
      BY <3>1, <3>2, FinishSees
  <2>2. CASE ~(v \notin OldFormat /\ Entry[v][Root][r] = Outside)
    BY <1>0, <1>3, <2>2, GetDirectorySees DEF HeaderReady
  <2>q. QED
    BY <2>1, <2>2
<1>q. QED
  BY <1>0, <1>1, <1>2, <1>3

\* A directory has arrived.
LEMMA DirectoryReadySees ==
  ASSUME ArchiveInv, ArchiveInv', RetryState, version' = version,
         NEW r \in Requests, NEW v \in Versions, req[r].pc = "dir", DirectoryReady(r, v),
         GoesOnWith(req[r], req[r].hdr, version, jobs, invalidating)
  PROVE  RetryGoesOn
<1> DEFINE e == Entry[v][req[r].at][r]
           dirs == req[r].dirs \union {v}
           hdr == req[r].hdr
           n == req[r].depth
<1>0. req[r] \in ReqRecords /\ ReqOK(req[r], Kind[r], jobs)
  BY DEF ArchiveInv, ReqsOK
<1>1. hdr \in Versions /\ req[r].at \in Dirs
  BY <1>0 DEF ReqOK, ReqRecords
<1>2. e \in Dirs \union {Tile, Absent, Outside}
  BY <1>1, PMTilesAssumption
<1>3. CASE e = Tile
  <2>1. Fetch(r, hdr, dirs)
    BY <1>3 DEF DirectoryReady
  <2> HIDE DEF dirs
  <2>q. QED
    BY <2>1, FetchSees
<1>4. CASE e # Tile /\ (e \in {Absent, Outside} \/ (hdr \in OldFormat /\ n > 0))
  <2>1. Finish(r, Absent, 0) /\ UNCHANGED << cache, jobs, invalidating >>
    BY <1>4 DEF DirectoryReady
  <2>2. Absent # "mismatch"
    BY DEF Absent
  <2>q. QED
    BY <2>1, <2>2, FinishSees
<1>5. CASE e # Tile /\ ~(e \in {Absent, Outside} \/ (hdr \in OldFormat /\ n > 0)) /\ n = 3
  <2>1. Finish(r, "error", 0) /\ UNCHANGED << cache, jobs, invalidating >>
    BY <1>5 DEF DirectoryReady
  <2>q. QED
    BY <2>1, FinishSees
<1>6. CASE e # Tile /\ ~(e \in {Absent, Outside} \/ (hdr \in OldFormat /\ n > 0)) /\ n # 3
  <2>1. GetDirectory(r, hdr, e, n + 1, dirs) /\ e \in Dirs
    BY <1>2, <1>6 DEF DirectoryReady
  <2> HIDE DEF dirs, e, n
  <2>q. QED
    BY <1>1, <2>1, GetDirectorySees
<1>q. QED
  BY <1>3, <1>4, <1>5, <1>6

\* A request that is under way.
LEMMA RunningSeen ==
  ASSUME ArchiveInv, RetryState, NEW r \in Requests, req[r].pc \in Running
  PROVE  /\ req[r] \in ReqRecords /\ ReqOK(req[r], Kind[r], jobs)
         /\ ReqSeen(req[r], Kind[r], version, jobs, invalidating)
         /\ req[r].began <= version /\ req[r].attempt \in 1..2 /\ req[r].began \in Nat /\ version \in Nat
         /\ [req[r] EXCEPT !.ended = version].began = req[r].began
         /\ [req[r] EXCEPT !.ended = version].ended = version
         /\ [req[r] EXCEPT !.ended = version].job = req[r].job
<1>1. req[r] \in ReqRecords /\ ReqOK(req[r], Kind[r], jobs) /\ ReqSeen(req[r], Kind[r], version, jobs, invalidating)
  BY DEF ArchiveInv, ReqsOK, RetryState, ReqsSeen
<1>2. req[r].began \in Nat /\ version \in Nat
  BY <1>1, PMTilesAssumption DEF ArchiveInv, Versions, ReqRecords
<1>3. req[r].began <= version /\ req[r].attempt \in 1..2
  BY <1>1 DEF ReqSeen
<1>q. QED
  BY <1>1, <1>2, <1>3 DEF ReqRecords

\* A mismatch with the header of an older version: the retry reads a newer header, and
\* after the retry the archive was replaced since the request began.
LEMMA OlderHeader ==
  ASSUME ArchiveInv, RetryState, NEW r \in Requests, req[r].pc \in {"dir", "sent", "answered"},
         req[r].hdr < version
  PROVE  /\ req[r].attempt = 1 => MayRetry(r)
         /\ req[r].attempt # 1 => Excused([req[r] EXCEPT !.ended = version], jobs, invalidating)
<1> DEFINE z == [req[r] EXCEPT !.ended = version]
<1>0. /\ req[r] \in ReqRecords /\ ReqSeen(req[r], Kind[r], version, jobs, invalidating)
      /\ req[r].began <= version /\ req[r].attempt \in 1..2 /\ req[r].began \in Nat /\ version \in Nat
      /\ z.began = req[r].began /\ z.ended = version
  BY RunningSeen DEF Running
<1> HIDE DEF z
<1>1. req[r].hdr \in Nat
  BY <1>0, PMTilesAssumption DEF ReqRecords
<1>2. ASSUME req[r].attempt = 1 PROVE MayRetry(r)
  BY <1>0, <1>2 DEF ReqSeen, MayRetry, Running
<1>3. ASSUME req[r].attempt # 1 PROVE Excused(z, jobs, invalidating)
  <2>1. req[r].attempt = 2
    BY <1>0, <1>3
  <2>2. req[r].began <= req[r].hdr \/ Lost(invalidating, jobs)
    BY <1>0, <2>1 DEF ReqSeen
  <2>q. QED
    BY <1>0, <1>1, <2>2 DEF Excused
<1>q. QED
  BY <1>2, <1>3 DEF z

\* The promise a request waits for is settled.
LEMMA ContinueSees ==
  ASSUME Strong, ArchiveInv, ArchiveInv', RetryState, noStore, HeaderKept, NEW r \in Requests, Continue(r)
  PROVE  RetryGoesOn
<1> DEFINE j == jobs[req[r].job]
           z == [req[r] EXCEPT !.ended = version]
<1>1. /\ req[r].pc \in {"header", "dir"} /\ j.step \in {"done", "mismatch", "error"} /\ version' = version
      /\ req[r].pc \in Running
  BY DEF Continue, Running
<1>2. /\ req[r] \in ReqRecords /\ ReqOK(req[r], Kind[r], jobs)
      /\ ReqSeen(req[r], Kind[r], version, jobs, invalidating)
      /\ req[r].began <= version /\ req[r].attempt \in 1..2 /\ req[r].began \in Nat /\ version \in Nat
      /\ z.began = req[r].began /\ z.ended = version /\ z.job = req[r].job
  BY <1>1, RunningSeen
<1> HIDE DEF z
<1>3. req[r].job \in 1..Len(jobs) /\ j \in JobRecords /\ JobOK(j) /\ JobSeen(j, version)
  BY <1>1, <1>2 DEF ArchiveInv, JobsOK, ReqOK, RetryState, JobsSeen
<1>4. CASE j.step # "done" /\ req[r].pc = "header"
  <2>1. Throw(r, j.step) /\ j.step \in {"error", "mismatch"}
    BY <1>1, <1>4 DEF Continue
  <2>2. ASSUME j.step = "mismatch", req[r].attempt = 1 PROVE MayRetry(r)
    BY <1>1, <1>2, <2>2 DEF ReqSeen, MayRetry, Lost
  <2>3. ASSUME j.step = "mismatch" PROVE Excused(z, jobs, invalidating)
    <3>1. j.key = HeaderKey /\ HeaderKey.of = "header"
      BY <1>2, <1>4 DEF ReqSeen, HeaderKey
    <3>q. QED
      BY <1>2, <1>3, <2>3, <3>1 DEF Excused
  <2> HIDE DEF j
  <2>q. QED
    BY <1>1, <2>1, <2>2, <2>3, ThrowSees DEF z
<1>5. CASE j.step # "done" /\ req[r].pc = "dir"
  <2>1. Throw(r, j.step) /\ j.step \in {"error", "mismatch"}
    BY <1>1, <1>5 DEF Continue
  <2>2. ASSUME j.step = "mismatch" PROVE req[r].hdr < version
    <3>1. j.key = DirKey(req[r].hdr, req[r].at) /\ req[r].hdr \in Versions
      BY <1>2, <1>5 DEF ReqOK
    <3>2. j.key.of = "dir" /\ j.key.etag = Etag(req[r].hdr)
      BY <3>1 DEF DirKey
    <3>3. j.hdr \in Versions /\ Etag(j.hdr) = Etag(req[r].hdr)
      BY <1>3, <3>2 DEF JobOK
    <3>4. j.hdr = req[r].hdr
      BY <3>1, <3>3 DEF Etag
    <3>q. QED
      BY <1>3, <2>2, <3>2, <3>4 DEF JobSeen
  <2>3. j.step = "mismatch" => /\ req[r].attempt = 1 => MayRetry(r)
                               /\ req[r].attempt # 1 => Excused(z, jobs, invalidating)
    BY <1>5, <2>2, OlderHeader DEF z
  <2> HIDE DEF j
  <2>q. QED
    BY <1>1, <2>1, <2>3, ThrowSees DEF z
<1>6. CASE j.step = "done" /\ req[r].pc = "header"
  <2>1. j.got \in Versions /\ HeaderReady(r, j.got)
    BY <1>3, <1>6 DEF JobOK, Continue
  <2>2. invalidating # 0 => invalidating # req[r].job
    BY <1>6 DEF RetryState, InvalidationOK
  <2>3. req[r].attempt = 1 /\ invalidating # 0 => Fresh(jobs[invalidating], req[r].began)
    BY <1>1, <1>2, <2>2 DEF ReqSeen
  <2>4. req[r].attempt = 2 => req[r].began <= j.got \/ Lost(invalidating, jobs)
    BY <1>2, <1>6 DEF ReqSeen, Fresh
  <2>5. j.got <= version
    BY <1>3, <1>6 DEF JobSeen
  <2>6. GoesOnWith(req[r], j.got, version, jobs, invalidating)
    BY <1>1, <1>2, <2>3, <2>4, <2>5 DEF GoesOnWith
  <2>q. QED
    BY <1>1, <2>1, <2>6, HeaderReadySees
<1>7. CASE j.step = "done" /\ req[r].pc = "dir"
  <2>1. j.got \in Versions /\ DirectoryReady(r, j.got)
    BY <1>3, <1>7 DEF JobOK, Continue
  <2>2. GoesOnWith(req[r], req[r].hdr, version, jobs, invalidating)
    BY <1>1, <1>2, <1>7 DEF GoesOnWith, ReqSeen
  <2>q. QED
    BY <1>1, <1>7, <2>1, <2>2, DirectoryReadySees
<1>q. QED
  BY <1>1, <1>4, <1>5, <1>6, <1>7

\* A request is made.
LEMMA StartSees ==
  ASSUME ArchiveInv, ArchiveInv', RetryState, noStore, HeaderKept, NEW r \in Requests, Start(r)
  PROVE  RetryGoesOn
<1>1. Attempt(r, 1, cache, jobs, mustReload, invalidating) /\ version' = version /\ req[r].pc = "idle"
  BY DEF Start
<1>2. mustReload \in BOOLEAN /\ req[r].attempt = 0
  BY <1>1 DEF ArchiveInv, RetryState, ReqsSeen, ReqSeen
<1>3. req'[r].attempt = 1
  BY <1>1 DEF Attempt, Idle, ArchiveInv, ReqsOK
<1>4. HeaderFound
  BY <1>2, <1>3 DEF HeaderKept
<1>q. QED
  BY <1>1, <1>2, <1>4, JoinSees

\* What the server answers when the browser's cache is not asked.
LEMMA AnswersSeen ==
  ASSUME ArchiveInv, noStore, NEW b, NEW h, NEW a \in Answers(b, h)
  PROVE  a <= version /\ (a > 0 => a = version) /\ (h \in Nat /\ h <= version => Seen(a, h, version))
<1>1. version \in Nat /\ version > 0
  BY PMTilesAssumption DEF ArchiveInv, Versions
<1>2. a = version \/ a = Failed \/ (a = Short /\ h # version)
  BY DEF Answers
<1>q. QED
  BY <1>1, <1>2 DEF Seen, Failed, Short

\* Bytes that do not belong to the header are of a later version.
LEMMA MismatchSeen ==
  ASSUME NEW a \in Versions \union {Failed, Short}, NEW h \in Versions, NEW v, NEW etag \in {0, Etag(h)},
         Seen(a, h, v), Outcome(a, etag) = "mismatch"
  PROVE  h < v
<1>1. a # Failed /\ a # h
  BY PMTilesAssumption DEF Outcome, Versions, Failed, Short
<1>q. QED
  BY <1>1 DEF Seen

\* The request's own fetch is answered.
LEMMA AnswerRequestSees ==
  ASSUME ArchiveInv, ArchiveInv', RetryState, noStore, NEW r \in Requests, AnswerRequest(r)
  PROVE  RetryGoesOn
<1>1. PICK a \in Answers(req[r].reload, req[r].hdr) :
        req' = [req EXCEPT ![r].pc = "answered", ![r].answer = a]
  BY DEF AnswerRequest
<1> DEFINE q == [req[r] EXCEPT !.pc = "answered", !.answer = a]
<1>2. /\ req' = [req EXCEPT ![r] = q] /\ jobs' = jobs /\ cache' = cache /\ invalidating' = invalidating
      /\ version' = version /\ req[r].pc = "sent"
  BY <1>1 DEF AnswerRequest
<1>3. /\ req[r] \in ReqRecords /\ ReqOK(req[r], Kind[r], jobs)
      /\ ReqSeen(req[r], Kind[r], version, jobs, invalidating)
  BY <1>2, RunningSeen DEF Running
<1>4. req[r].hdr <= version /\ req[r].hdr \in Nat
  BY <1>2, <1>3, PMTilesAssumption DEF ReqSeen, ReqRecords
<1>5. Seen(a, req[r].hdr, version)
  BY <1>4, AnswersSeen
<1>6. /\ q.pc = "answered" /\ q.answer = a /\ q.hdr = req[r].hdr /\ q.attempt = req[r].attempt
      /\ q.began = req[r].began /\ q.result = req[r].result
  BY <1>3 DEF ReqRecords
<1> HIDE DEF q
<1>7. q.result # "mismatch"
  BY <1>2, <1>3, <1>6 DEF ReqOK
<1>8. ReqSeen(q, Kind[r], version, jobs, invalidating)
  BY <1>2, <1>3, <1>5, <1>6, <1>7 DEF ReqSeen, Running
<1>9. UniqueKeys(cache) /\ JobsSeen(jobs, version) /\ InvalidationOK(invalidating, jobs)
      /\ JobsGoOn(jobs, jobs, version)
  BY AppendGoesOn DEF RetryState, ArchiveInv
<1>10. HeaderFound => HeaderFound'
  BY <1>2 DEF HeaderFound
<1>q. QED
  BY <1>2, <1>8, <1>9, <1>10, StepSees DEF InvGoesOn

\* The request's own bytes are taken or refused.
LEMMA ReceiveRequestSees ==
  ASSUME ArchiveInv, ArchiveInv', RetryState, noStore, HeaderKept, NEW r \in Requests, ReceiveRequest(r)
  PROVE  RetryGoesOn
<1> DEFINE a == req[r].answer
           h == req[r].hdr
           o == Outcome(a, TileTag(h, Kind[r]))
<1>1. req[r].pc = "answered" /\ version' = version
  BY DEF ReceiveRequest
<1>2. ReqOK(req[r], Kind[r], jobs) /\ ReqSeen(req[r], Kind[r], version, jobs, invalidating)
  BY <1>1, RunningSeen DEF Running
<1>3. a \in Versions \union {Failed, Short} /\ h \in Versions /\ Seen(a, h, version)
  BY <1>1, <1>2 DEF ReqOK, ReqSeen
<1>4. TileTag(h, Kind[r]) \in {0, Etag(h)}
  BY DEF TileTag
<1>5. CASE o = "ok"
  <2>1. Finish(r, Kind[r], a) /\ UNCHANGED << cache, jobs, invalidating >>
    BY <1>5 DEF ReceiveRequest
  <2>2. Kind[r] # "mismatch"
    BY PMTilesAssumption
  <2>q. QED
    BY <1>1, <2>1, <2>2, FinishSees
<1>6. CASE o # "ok"
  <2>1. Throw(r, o) /\ o \in {"error", "mismatch"}
    BY <1>6 DEF ReceiveRequest, Outcome
  <2>2. o = "mismatch" => h < version
    BY <1>3, <1>4, MismatchSeen
  <2>3. o = "mismatch" => /\ req[r].attempt = 1 => MayRetry(r)
                          /\ req[r].attempt # 1 => Excused([req[r] EXCEPT !.ended = version], jobs, invalidating)
    BY <1>1, <2>2, OlderHeader
  <2> HIDE DEF o
  <2>q. QED
    BY <1>1, <2>1, <2>3, ThrowSees
<1>q. QED
  BY <1>5, <1>6

\* Promise j changes, among the present promises or those that it brought along.
LEMMA ChangeSees ==
  ASSUME ArchiveInv, ArchiveInv', RetryState, version' = version, req' = req, UniqueKeys(cache'),
         NEW js, JobsOK(js), JobsGoOn(jobs, js, version), JobsSeen(js, version), InvalidationOK(invalidating, js),
         NEW j \in 1..Len(js), NEW x, JobGoesOn(js[j], x, version), JobSeen(x, version),
         jobs' = [js EXCEPT ![j] = x],
         \/ invalidating' = invalidating /\ (invalidating # j \/ x.step # "done")
         \/ invalidating' = 0 /\ ~Lost(invalidating, jobs),
         EnoughRoom => \A i : Leads(cache, HeaderKey, i) => Leads(cache', HeaderKey, i)
  PROVE  RetryGoesOn
<1>1. JobsGoOn(js, jobs', version) /\ JobsSeen(jobs', version)
  BY ChangeGoesOn, ChangeSeen
<1>2. JobsOK(jobs) /\ JobsOK(jobs') /\ version \in Nat
  BY PMTilesAssumption DEF ArchiveInv, Versions
<1>3. JobsGoOn(jobs, jobs', version)
  BY <1>1, <1>2, GoesOnTransitive
<1>4. InvGoesOn(invalidating, invalidating', jobs, jobs')
  BY DEF InvGoesOn
<1>5. InvalidationOK(invalidating', jobs')
  <2>1. CASE invalidating' = invalidating /\ (invalidating # j \/ x.step # "done")
    <3>1. js \in Seq(JobRecords) /\ Len(js) \in Nat
      BY DEF JobsOK
    <3>2. Len(jobs') = Len(js) /\ \A i \in 1..Len(js) : jobs'[i] = IF i = j THEN x ELSE js[i]
      BY <3>1
    <3>3. x.key = js[j].key
      BY DEF JobGoesOn
    <3>4. invalidating # 0 => invalidating \in 1..Len(js)
      BY <3>1 DEF InvalidationOK
    <3>q. QED
      BY <2>1, <3>2, <3>3, <3>4 DEF InvalidationOK
  <2>2. CASE invalidating' = 0
    BY <1>2, <2>2 DEF InvalidationOK, JobsOK
  <2>q. QED
    BY <2>1, <2>2
<1>6. ReqsSeen(req', version', jobs', invalidating')
  BY <1>2, <1>3, <1>4, JobsSee
<1>7. EnoughRoom /\ HeaderFound => HeaderFound'
  BY <1>3, FoundStays
<1>q. QED
  BY <1>1, <1>5, <1>6, <1>7 DEF RetryState, RetryGoesOn

\* With enough room nothing is dropped: the keys are the header's and one of each directory
\* of each version, and none is in the cache twice.
LEMMA NothingDropped ==
  ASSUME Strong, EnoughRoom, NEW c, NEW js, NEW v, JobsOK(js), CacheOK(c, js), UniqueKeys(c), JobsSeen(js, v)
  PROVE  prune(c) = c
<1> DEFINE T == (Versions \X Dirs) \union {<< 0, Root >>}
           f == [i \in 1..Len(c) |-> << c[i].key.etag, c[i].key.at >>]
<1>0. c \in Seq(Entries) /\ Len(c) \in Nat /\ MaxVersion \in Nat /\ MaxCacheEntries \in Nat
  BY PMTilesAssumption DEF CacheOK
<1>1. ASSUME NEW i \in 1..Len(c)
      PROVE  /\ c[i].key \in Keys
             /\ c[i].key = HeaderKey \/ (c[i].key.of = "dir" /\ c[i].key.etag \in Versions)
  <2>1. c[i].job \in 1..Len(js) /\ js[c[i].job].key = c[i].key /\ c[i].key \in Keys
    <3>1. c[i] \in Entries
      BY <1>0
    <3>q. QED
      BY <3>1 DEF CacheOK, Entries
  <2>2. JobOK(js[c[i].job]) /\ JobSeen(js[c[i].job], v)
    BY <2>1 DEF JobsOK, JobsSeen
  <2>3. CASE c[i].key.of = "header"
    BY <2>1, <2>2, <2>3 DEF JobSeen
  <2>4. CASE c[i].key.of = "dir"
    BY <2>1, <2>2, <2>4 DEF JobOK, Etag
  <2>q. QED
    BY <2>1, <2>3, <2>4 DEF Keys
<1>2. ASSUME NEW i \in 1..Len(c) PROVE << c[i].key.etag, c[i].key.at >> \in T
  <2>1. CASE c[i].key = HeaderKey
    BY <2>1 DEF HeaderKey
  <2>2. CASE c[i].key.of = "dir" /\ c[i].key.etag \in Versions
    BY <1>1, <2>2 DEF Keys
  <2>q. QED
    BY <1>1, <2>1, <2>2
<1>3. ASSUME NEW i \in 1..Len(c), NEW k \in 1..Len(c),
             << c[i].key.etag, c[i].key.at >> = << c[k].key.etag, c[k].key.at >>
      PROVE  i = k
  <2>1. c[i].key.etag = c[k].key.etag /\ c[i].key.at = c[k].key.at
    BY <1>3
  <2>2. c[i].key \in Keys /\ c[k].key \in Keys
    BY <1>1
  <2>3. 0 \notin Versions /\ HeaderKey.etag = 0 /\ HeaderKey.of = "header"
    BY PMTilesAssumption DEF Versions, HeaderKey
  <2>4. c[i].key.of = c[k].key.of
    BY <1>1, <2>1, <2>3
  <2>5. c[i].key = c[k].key
    BY <2>1, <2>2, <2>4 DEF Keys
  <2>q. QED
    BY <2>5 DEF UniqueKeys
<1>4. f \in Injection(1..Len(c), T)
  <2>1. f \in [1..Len(c) -> T]
    BY <1>2
  <2>2. \A i, k \in 1..Len(c) : f[i] = f[k] => i = k
    BY <1>3
  <2> HIDE DEF f, T
  <2>q. QED
    BY <2>1, <2>2, Zenon DEF Injection, IsInjective
<1>5. IsFiniteSet(Versions) /\ Cardinality(Versions) = MaxVersion
  BY <1>0, FS_Interval DEF Versions
<1>6. IsFiniteSet(1..Len(c)) /\ Cardinality(1..Len(c)) = Len(c)
  BY <1>0, FS_Interval
<1>7. IsFiniteSet(T) /\ Cardinality(T) = MaxVersion * Cardinality(Dirs) + 1
  <2>1. IsFiniteSet(Versions \X Dirs) /\ Cardinality(Versions \X Dirs) = MaxVersion * Cardinality(Dirs)
    BY <1>5, FS_Product DEF EnoughRoom
  <2>2. << 0, Root >> \notin Versions \X Dirs
    BY PMTilesAssumption DEF Versions
  <2>q. QED
    BY <2>1, <2>2, FS_AddElement
<1>8. Len(c) <= Cardinality(T)
  <2> HIDE DEF T, f
  <2>q. QED
    BY <1>4, <1>6, <1>7, FS_Injection
<1> DEFINE m == MaxVersion * Cardinality(Dirs)
<1>9. m \in Nat
  BY <1>0, FS_CardinalityType DEF EnoughRoom
<1>10. Cardinality(T) = m + 1 /\ 1 + m < MaxCacheEntries
  BY <1>7 DEF EnoughRoom
<1> HIDE DEF T, f, m
<1>11. Len(c) < MaxCacheEntries
  BY <1>0, <1>8, <1>9, <1>10
<1>q. QED
  BY <1>0, <1>11 DEF prune

\* The present promises, for ChangeSees.
LEMMA PresentSeen ==
  ASSUME ArchiveInv, RetryState, NEW j \in 1..Len(jobs)
  PROVE  /\ JobsOK(jobs) /\ JobsGoOn(jobs, jobs, version) /\ JobsSeen(jobs, version)
         /\ InvalidationOK(invalidating, jobs) /\ UniqueKeys(cache) /\ UniqueKeys(prune(cache))
         /\ jobs[j] \in JobRecords /\ JobOK(jobs[j]) /\ JobSeen(jobs[j], version)
<1>1. JobsOK(jobs) /\ JobsSeen(jobs, version) /\ InvalidationOK(invalidating, jobs) /\ UniqueKeys(cache)
      /\ cache \in Seq(Entries)
  BY DEF ArchiveInv, RetryState, CacheOK
<1>2. JobsGoOn(jobs, jobs, version) /\ UniqueKeys(prune(cache))
  BY <1>1, AppendGoesOn, PruneKeeps
<1>q. QED
  BY <1>1, <1>2 DEF JobsOK, JobsSeen

\* The fetch of a promise is answered.
LEMMA AnswerJobSees ==
  ASSUME ArchiveInv, ArchiveInv', RetryState, noStore, NEW j \in 1..Len(jobs), AnswerJob(j)
  PROVE  RetryGoesOn
<1>1. PICK a \in Answers(jobs[j].reload, jobs[j].hdr) :
        jobs' = [jobs EXCEPT ![j].step = "answered", ![j].answer = a]
  BY DEF AnswerJob
<1> DEFINE x == [jobs[j] EXCEPT !.step = "answered", !.answer = a]
<1>2. /\ jobs' = [jobs EXCEPT ![j] = x] /\ cache' = cache /\ invalidating' = invalidating
      /\ version' = version /\ req' = req /\ jobs[j].step = "sent"
  BY <1>1 DEF AnswerJob
<1>3. /\ JobsOK(jobs) /\ JobsGoOn(jobs, jobs, version) /\ JobsSeen(jobs, version)
      /\ InvalidationOK(invalidating, jobs) /\ UniqueKeys(cache)
      /\ jobs[j] \in JobRecords /\ JobSeen(jobs[j], version)
  BY PresentSeen
<1>4. /\ a <= version /\ (a > 0 => a = version)
      /\ jobs[j].hdr \in Nat /\ jobs[j].hdr <= version => Seen(a, jobs[j].hdr, version)
  BY AnswersSeen
<1>5. x.key = jobs[j].key /\ x.hdr = jobs[j].hdr /\ x.step = "answered" /\ x.answer = a /\ x.hdr \in Nat
  BY <1>3, PMTilesAssumption DEF JobRecords
<1> HIDE DEF x
<1>6. JobSeen(x, version)
  BY <1>3, <1>4, <1>5 DEF JobSeen
<1>7. JobGoesOn(jobs[j], x, version)
  BY <1>2, <1>4, <1>5 DEF JobGoesOn, Fresh, Settled
<1>8. x.step # "done" /\ \A i : Leads(cache, HeaderKey, i) => Leads(cache', HeaderKey, i)
  BY <1>2, <1>5
<1>q. QED
  BY <1>2, <1>3, <1>6, <1>7, <1>8, ChangeSees

\* A promise is rejected, or its bytes are asked for once more.
LEMMA RefuseSees ==
  ASSUME ArchiveInv, ArchiveInv', RetryState, version' = version, req' = req, UNCHANGED << cache, invalidating >>,
         NEW j \in 1..Len(jobs), NEW x, jobs' = [jobs EXCEPT ![j] = x], jobs[j].step = "answered",
         x.key = jobs[j].key, x.hdr = jobs[j].hdr, x.step \in {"sent", "error", "mismatch"},
         x.key.of = "dir" /\ x.step = "mismatch" => x.hdr < version
  PROVE  RetryGoesOn
<1>1. /\ JobsOK(jobs) /\ JobsGoOn(jobs, jobs, version) /\ JobsSeen(jobs, version)
      /\ InvalidationOK(invalidating, jobs) /\ UniqueKeys(cache) /\ JobSeen(jobs[j], version)
  BY PresentSeen
<1>2. JobSeen(x, version)
  BY <1>1 DEF JobSeen
<1>3. JobGoesOn(jobs[j], x, version)
  BY DEF JobGoesOn, Fresh, Settled
<1>4. /\ UniqueKeys(cache') /\ invalidating' = invalidating /\ x.step # "done"
      /\ \A i : Leads(cache, HeaderKey, i) => Leads(cache', HeaderKey, i)
  BY <1>1
<1>q. QED
  BY <1>1, <1>2, <1>3, <1>4, ChangeSees

\* A promise with its value is not older than the answer.
LEMMA KeptSeen ==
  ASSUME NEW y \in JobRecords, NEW v \in Versions, y.step = "answered", y.answer = v, NEW w, JobSeen(y, w)
  PROVE  LET x == [y EXCEPT !.step = "done", !.got = v]
         IN  JobSeen(x, w) /\ JobGoesOn(y, x, w)
<1> DEFINE x == [y EXCEPT !.step = "done", !.got = v]
<1>1. x.key = y.key /\ x.hdr = y.hdr /\ x.step = "done" /\ x.got = v /\ v > 0
  BY PMTilesAssumption DEF JobRecords, Versions
<1> HIDE DEF x
<1>2. JobSeen(x, w)
  BY <1>1 DEF JobSeen
<1>3. JobGoesOn(y, x, w)
  BY <1>1 DEF JobGoesOn, Fresh, Settled
<1>q. QED
  BY <1>2, <1>3 DEF x

\* The invalidation that waits for a promise ends with it.
LEMMA KeepInvalidation ==
  ASSUME NEW j, NEW v, NEW c, NEW js, Keep(j, v, c, js), jobs[j].step = "answered", NEW x
  PROVE  \/ invalidating' = invalidating /\ (invalidating # j \/ x.step # "done")
         \/ invalidating' = 0 /\ ~Lost(invalidating, jobs)
BY DEF Keep, Lost

\* A promise is kept.
LEMMA KeepSees ==
  ASSUME Strong, ArchiveInv, ArchiveInv', RetryState, version' = version, req' = req,
         NEW j \in 1..Len(jobs), NEW v \in Versions, jobs[j].step = "answered", jobs[j].answer = v,
         Keep(j, v, cache, jobs)
  PROVE  RetryGoesOn
<1> DEFINE x == [jobs[j] EXCEPT !.step = "done", !.got = v]
<1>1. jobs' = [jobs EXCEPT ![j] = x] /\ cache' = prune(cache)
  BY DEF Keep
<1>2. /\ JobsOK(jobs) /\ JobsGoOn(jobs, jobs, version) /\ JobsSeen(jobs, version)
      /\ InvalidationOK(invalidating, jobs) /\ UniqueKeys(prune(cache))
      /\ jobs[j] \in JobRecords /\ JobSeen(jobs[j], version)
  BY PresentSeen
<1>3. JobSeen(x, version) /\ JobGoesOn(jobs[j], x, version)
  BY <1>2, KeptSeen
<1> HIDE DEF x
<1>4. \/ invalidating' = invalidating /\ (invalidating # j \/ x.step # "done")
      \/ invalidating' = 0 /\ ~Lost(invalidating, jobs)
  BY KeepInvalidation
<1>5. EnoughRoom => \A i : Leads(cache, HeaderKey, i) => Leads(cache', HeaderKey, i)
  BY <1>1, <1>2, NothingDropped DEF ArchiveInv, RetryState
<1>q. QED
  BY <1>1, <1>2, <1>3, <1>4, <1>5, ChangeSees

\* A header of format 3, and the promise of its root directory.
LEMMA KeepRootSees ==
  ASSUME Strong, ArchiveInv, ArchiveInv', RetryState, version' = version, req' = req,
         NEW j \in 1..Len(jobs), NEW v \in Versions, jobs[j].step = "answered", jobs[j].answer = v,
         Keep(j, v, Used(cache, DirKey(v, Root), Len(jobs) + 1),
              Append(jobs, Resolved(DirKey(v, Root), v)))
  PROVE  RetryGoesOn
<1> DEFINE key == DirKey(v, Root)
           y == Resolved(key, v)
           n == Len(jobs) + 1
           js == Append(jobs, y)
           c == Used(cache, key, n)
           x == [js[j] EXCEPT !.step = "done", !.got = v]
<1>0. Root \in Dirs /\ v \in 0..MaxVersion
  BY PMTilesAssumption DEF Versions
<1>1. key \in Keys /\ key.of = "dir" /\ y \in JobRecords /\ JobOK(y) /\ y.key = key
  BY <1>0, KeysOK, ResolvedOK
<1>2. y.hdr = v /\ y.step = "done" /\ y.got = v
  BY DEF Resolved, NewJob
<1>3. jobs' = [js EXCEPT ![j] = x] /\ cache' = prune(c)
  BY DEF Keep
<1>4. \A z : \/ invalidating' = invalidating /\ (invalidating # j \/ z.step # "done")
             \/ invalidating' = 0 /\ ~Lost(invalidating, jobs)
  BY KeepInvalidation
<1> HIDE DEF key, y
<1>5. /\ JobsOK(jobs) /\ JobsSeen(jobs, version) /\ InvalidationOK(invalidating, jobs) /\ UniqueKeys(cache)
      /\ jobs[j] \in JobRecords /\ JobSeen(jobs[j], version)
  BY PresentSeen
<1>6. v <= version
  BY <1>5 DEF JobSeen
<1>7. JobSeen(y, version)
  BY <1>1, <1>2, <1>6 DEF JobSeen
<1>8. /\ JobsOK(js) /\ JobsGoOn(jobs, js, version) /\ JobsSeen(js, version) /\ InvalidationOK(invalidating, js)
  BY <1>1, <1>5, <1>7, AppendJob, AppendGoesOn, AppendSeen, AppendInvalidation
<1>9. j \in 1..Len(js) /\ js[j] = jobs[j] /\ n \in Nat
  BY <1>5 DEF JobsOK
<1> HIDE DEF js, n
<1>10. JobSeen(x, version) /\ JobGoesOn(js[j], x, version)
  BY <1>5, <1>9, KeptSeen
<1> HIDE DEF x
<1>11. /\ UniqueKeys(prune(c))
       /\ EnoughRoom => \A i : Leads(cache, HeaderKey, i) => Leads(prune(c), HeaderKey, i)
  <2>1. cache \in Seq(Entries) /\ HeaderKey # key
    BY <1>1 DEF ArchiveInv, CacheOK, HeaderKey
  <2>2. /\ c \in Seq(Entries) /\ UniqueKeys(c)
        /\ \A i : Leads(cache, HeaderKey, i) => Leads(c, HeaderKey, i)
    BY <1>1, <1>5, <1>9, <2>1, UsedKeeps
  <2>3. CacheOK(c, js)
    <3>1. CacheOK(cache, jobs) /\ GrowsTo(jobs, js) /\ n \in 1..Len(js) /\ js[n] = y
      BY <1>1, <1>5, AppendJob DEF ArchiveInv, js, n
    <3>2. CacheOK(cache, js)
      BY <1>5, <1>8, <3>1, CacheOfMoreJobs
    <3>q. QED
      BY <1>1, <1>8, <3>1, <3>2, UsedOK
  <2> HIDE DEF c
  <2>4. EnoughRoom => prune(c) = c
    BY <1>8, <2>2, <2>3, NothingDropped
  <2>q. QED
    BY <2>2, <2>4, PruneKeeps
<1> HIDE DEF c
<1>q. QED
  BY <1>3, <1>4, <1>8, <1>9, <1>10, <1>11, ChangeSees

\* The bytes of a promise are taken, asked for again or refused.
LEMMA ReceiveJobSees ==
  ASSUME Strong, ArchiveInv, ArchiveInv', RetryState, NEW j \in 1..Len(jobs), ReceiveJob(j)
  PROVE  RetryGoesOn
<1> DEFINE a == jobs[j].answer
           o == Outcome(a, Etag(jobs[j].hdr))
           header == jobs[j].key.of = "header"
           again == header /\ a = Short /\ jobs[j].round \in {1, 3}
<1>1. /\ jobs[j] \in JobRecords /\ JobOK(jobs[j]) /\ JobSeen(jobs[j], version) /\ jobs[j].step = "answered"
      /\ req' = req /\ version' = version
  BY PresentSeen DEF ReceiveJob
<1>2. /\ a \in Versions \union {Failed, Short} /\ jobs[j].key.of \in {"header", "dir"}
      /\ (~header => jobs[j].hdr \in Versions)
  BY <1>1 DEF JobOK, JobRecords, Keys
<1>3. ASSUME NEW n, NEW b, UNCHANGED << cache, invalidating >>,
             jobs' = [jobs EXCEPT ![j].step = "sent", ![j].round = n, ![j].reload = b]
      PROVE  RetryGoesOn
  <2> DEFINE x == [jobs[j] EXCEPT !.step = "sent", !.round = n, !.reload = b]
  <2>1. jobs' = [jobs EXCEPT ![j] = x]
    BY <1>3
  <2>2. x.key = jobs[j].key /\ x.hdr = jobs[j].hdr /\ x.step = "sent"
    BY <1>1 DEF JobRecords
  <2> HIDE DEF x
  <2>q. QED
    BY <1>1, <1>3, <2>1, <2>2, RefuseSees
<1>4. ASSUME NEW error \in {"error", "mismatch"}, Reject(j, error),
             jobs[j].key.of = "dir" /\ error = "mismatch" => jobs[j].hdr < version
      PROVE  RetryGoesOn
  <2> DEFINE x == [jobs[j] EXCEPT !.step = error]
  <2>1. jobs' = [jobs EXCEPT ![j] = x] /\ UNCHANGED << cache, invalidating >>
    BY <1>4 DEF Reject
  <2>2. x.key = jobs[j].key /\ x.hdr = jobs[j].hdr /\ x.step = error
    BY <1>1 DEF JobRecords
  <2> HIDE DEF x
  <2>q. QED
    BY <1>1, <1>4, <2>1, <2>2, RefuseSees
<1>5. CASE again
  <2>1. /\ jobs' = [jobs EXCEPT ![j].step = "sent", ![j].round = jobs[j].round + 1, ![j].reload = TRUE]
        /\ UNCHANGED << cache, invalidating >>
    BY <1>5 DEF ReceiveJob
  <2>q. QED
    BY <1>3, <2>1
<1>6. CASE ~again /\ o # "ok"
  <2>1. Reject(j, o) /\ o \in {"error", "mismatch"}
    BY <1>6 DEF ReceiveJob, Outcome
  <2>2. jobs[j].key.of = "dir" /\ o = "mismatch" => jobs[j].hdr < version
    BY <1>1, <1>2, MismatchSeen DEF JobSeen
  <2> HIDE DEF o
  <2>q. QED
    BY <1>4, <2>1, <2>2
<1>7. CASE ~again /\ o = "ok" /\ header
  <2>1. HeaderBytes(j, a) /\ a \in Versions
    BY <1>2, <1>7, AnyBytes DEF ReceiveJob
  <2>2. CASE jobs[j].round >= 3 /\ detectVersion(a) < 3
    <3>1. Keep(j, a, cache, jobs)
      BY <2>1, <2>2 DEF HeaderBytes, v2Header
    <3>q. QED
      BY <1>1, <2>1, <3>1, KeepSees
  <2>3. CASE jobs[j].round >= 3 /\ ~(detectVersion(a) < 3)
    <3>1. Reject(j, "error")
      BY <2>1, <2>3 DEF HeaderBytes, v2Header
    <3>q. QED
      BY <1>4, <3>1
  <2>4. CASE ~(jobs[j].round >= 3) /\ detectVersion(a) < 3
    <3>1. /\ jobs' = [jobs EXCEPT ![j].step = "sent", ![j].round = 3, ![j].reload = mustReload]
          /\ UNCHANGED << cache, invalidating >>
      BY <2>1, <2>4 DEF HeaderBytes
    <3>q. QED
      BY <1>3, <3>1
  <2>5. CASE ~(jobs[j].round >= 3) /\ ~(detectVersion(a) < 3)
    <3>1. Keep(j, a, Used(cache, DirKey(a, Root), Len(jobs) + 1), Append(jobs, Resolved(DirKey(a, Root), a)))
      BY <2>1, <2>5 DEF HeaderBytes
    <3>q. QED
      BY <1>1, <2>1, <3>1, KeepRootSees
  <2>q. QED
    BY <2>2, <2>3, <2>4, <2>5
<1>8. CASE ~again /\ o = "ok" /\ ~header
  <2>1. Keep(j, a, cache, jobs)
    BY <1>8 DEF ReceiveJob
  <2>2. a \in Versions
    BY <1>2, <1>8, GoodBytes
  <2>q. QED
    BY <1>1, <2>1, <2>2, KeepSees
<1>q. QED
  BY <1>5, <1>6, <1>7, <1>8

\* A newer archive: all that was seen before is older still.
LEMMA ReplaceSees ==
  ASSUME ArchiveInv, ArchiveInv', RetryState, Replace
  PROVE  RetryGoesOn
<1>1. /\ version \in Nat /\ version' = version + 1
      /\ UNCHANGED << noStore, cache, jobs, invalidating, req >> /\ JobsOK(jobs)
  BY PMTilesAssumption DEF Replace, ArchiveInv, Versions
<1>2. ASSUME NEW i \in 1..Len(jobs) PROVE JobSeen(jobs[i], version')
  <2>1. JobSeen(jobs[i], version) /\ jobs[i] \in JobRecords
    BY <1>1 DEF RetryState, JobsSeen, JobsOK
  <2>2. jobs[i].hdr \in Nat /\ jobs[i].got \in Nat /\ jobs[i].answer \in Int
    BY <2>1, PMTilesAssumption DEF JobRecords
  <2>q. QED
    BY <1>1, <2>1, <2>2 DEF JobSeen, Seen
<1>3. JobsGoOn(jobs, jobs, version)
  BY <1>1, AppendGoesOn
<1>4. ReqsSeen(req', version', jobs', invalidating')
  BY <1>1, <1>3, JobsSee DEF InvGoesOn
<1>5. HeaderFound => HeaderFound'
  BY <1>1 DEF HeaderFound
<1>q. QED
  BY <1>1, <1>2, <1>4, <1>5 DEF RetryState, RetryGoesOn, JobsSeen

----------------------------------------------------------------------------
\* An empty cache and idle requests.
LEMMA RetryInit == Init => RetryInv
<1> SUFFICES ASSUME Init PROVE RetryState
  BY DEF RetryInv
<1>1. UniqueKeys(cache) /\ InvalidationOK(invalidating, jobs) /\ JobsSeen(jobs, version)
  BY DEF Init, UniqueKeys, InvalidationOK, JobsSeen
<1>2. \A r \in Requests : ReqSeen(req[r], Kind[r], version, jobs, invalidating)
  BY DEF Init, Idle, ReqSeen, Running
<1>q. QED
  BY <1>1, <1>2 DEF RetryState, ReqsSeen

\* Every step in which the cache leads to the header of an invalidation keeps the invariant.
LEMMA RetryNext ==
  ASSUME Strong, ArchiveInv, ArchiveInv', RetryInv, [Next]_vars, [HeaderKept]_vars
  PROVE  noStore' = noStore /\ (noStore => RetryGoesOn)
<1>1. noStore' = noStore
  BY DEF Next, RequestStep, JobStep, Start, Continue, AnswerRequest, ReceiveRequest, AnswerJob, ReceiveJob,
         Replace, vars
<1> SUFFICES ASSUME noStore PROVE RetryGoesOn
  BY <1>1
<1>2. RetryState
  BY DEF RetryInv
<1>3. CASE UNCHANGED vars
  BY <1>2, <1>3 DEF vars, RetryGoesOn, RetryState, ReqsSeen, HeaderFound
<1>4. CASE Next /\ HeaderKept
  <2>1. ASSUME NEW r \in Requests, Start(r) PROVE RetryGoesOn
    BY <1>2, <1>4, <2>1, StartSees
  <2>2. ASSUME NEW r \in Requests, Continue(r) PROVE RetryGoesOn
    BY <1>2, <1>4, <2>2, ContinueSees
  <2>3. ASSUME NEW r \in Requests, AnswerRequest(r) PROVE RetryGoesOn
    BY <1>2, <2>3, AnswerRequestSees
  <2>4. ASSUME NEW r \in Requests, ReceiveRequest(r) PROVE RetryGoesOn
    BY <1>2, <1>4, <2>4, ReceiveRequestSees
  <2>5. ASSUME NEW j \in 1..Len(jobs), AnswerJob(j) PROVE RetryGoesOn
    BY <1>2, <2>5, AnswerJobSees
  <2>6. ASSUME NEW j \in 1..Len(jobs), ReceiveJob(j) PROVE RetryGoesOn
    BY <1>2, <2>6, ReceiveJobSees
  <2>7. CASE Replace
    BY <1>2, <2>7, ReplaceSees
  <2>q. QED
    BY <1>4, <2>1, <2>2, <2>3, <2>4, <2>5, <2>6, <2>7 DEF Next, RequestStep, JobStep
<1>q. QED
  BY <1>3, <1>4

\* The invariant excuses every mismatch.
LEMMA MismatchesExcused == RetryInv => MismatchMeansReplaced
<1> SUFFICES ASSUME RetryInv, NEW r \in Requests, req[r].result = "mismatch", Kind[r] # "header", noStore
             PROVE  \/ req[r].began < req[r].ended
                    \/ invalidating # 0 /\ jobs[invalidating].step \in {"error", "mismatch"}
                    \/ jobs[req[r].job].key.of = "header" /\ jobs[req[r].job].step = "mismatch"
  BY DEF MismatchMeansReplaced
<1>1. Excused(req[r], jobs, invalidating)
  BY DEF RetryInv, RetryState, ReqsSeen, ReqSeen
<1>q. QED
  BY <1>1 DEF Excused, Lost

\* With strong ETags a mismatch means that the archive was replaced, for any number of
\* requests, versions, directories and cache entries, in every behaviour in which the cache
\* still holds the header of the invalidation under way whenever an attempt starts.
THEOREM MismatchesAreReplacements ==
  ASSUME Strong
  PROVE  Spec /\ [][HeaderKept]_vars => []MismatchMeansReplaced
<1>1. Init => ArchiveInv /\ RetryInv
  BY InitEstablishes, RetryInit
<1>2. ArchiveInv /\ RetryInv /\ [Next]_vars /\ [HeaderKept]_vars => (ArchiveInv /\ RetryInv)'
  BY NextPreserves, RetryNext DEF RetryInv, RetryGoesOn
<1>q. QED
  BY <1>1, <1>2, MismatchesExcused, PTL DEF Spec

\* With strong ETags, and a cache that has room for the header and every directory of every
\* version, a mismatch means that the archive was replaced, in every behaviour.
THEOREM RoomForHeaders ==
  ASSUME Strong, EnoughRoom
  PROVE  Spec => []MismatchMeansReplaced
<1> DEFINE Inv == ArchiveInv /\ RetryInv /\ (noStore => HeaderFound)
<1>1. Init => Inv
  BY InitEstablishes, RetryInit DEF Init, HeaderFound
<1>2. Inv /\ [Next]_vars => Inv'
  <2> SUFFICES ASSUME Inv, [Next]_vars PROVE Inv'
    OBVIOUS
  <2>1. HeaderKept
    BY DEF HeaderKept
  <2>2. ArchiveInv'
    BY NextPreserves
  <2>3. noStore' = noStore /\ (noStore => RetryGoesOn)
    BY <2>1, <2>2, RetryNext
  <2>q. QED
    BY <2>2, <2>3 DEF RetryInv, RetryGoesOn
<1>q. QED
  BY <1>1, <1>2, MismatchesExcused, PTL DEF Spec

----------------------------------------------------------------------------
(* Tile ids: least elements, powers of two, quotients. *)

\* A set of naturals that is not empty has a least element: the form in which
\* the proofs below do induction.
LEMMA Least ==
  ASSUME NEW T \in SUBSET Nat, T # {}
  PROVE  \E x \in T : \A y \in T : x <= y
<1>1. PICK x \in T : \A y \in T : ~(<<y, x>> \in OpToRel(<, Nat))
  BY NatLessThanWellFounded, WFMin, Zenon
<1>2. \A y \in T : ~(y < x)
  BY <1>1 DEF OpToRel
<1>q. QED  BY <1>2

----------------------------------------------------------------------------
(* Powers of two, from the number of subsets of a set. *)

\* No subset but one of the empty set: a curve of level 0 is one tile.
LEMMA PowerZero == 2^0 = 1
<1>1. IsFiniteSet({}) /\ Cardinality({}) = 0  BY FS_EmptySet
<1>2. Cardinality(SUBSET {}) = 2^Cardinality({})  BY <1>1, FS_SUBSET
<1>3. SUBSET {} = {{}}  OBVIOUS
<1>4. Cardinality({{}}) = 1  BY FS_Singleton
<1>q. QED  BY <1>1, <1>2, <1>3, <1>4

\* The side of a level, a shift of 1 in the code, is a natural number.
LEMMA PowerNat ==
  ASSUME NEW k \in Nat
  PROVE  2^k \in Nat
<1>1. IsFiniteSet(1..k) /\ Cardinality(1..k) = k  BY FS_Interval
<1>2. IsFiniteSet(SUBSET (1..k)) /\ Cardinality(SUBSET (1..k)) = 2^k  BY <1>1, FS_SUBSET
<1>q. QED  BY <1>2, FS_CardinalityType

\* The subsets with k + 1 are as many as those without it.
LEMMA PowerStep ==
  ASSUME NEW k \in Nat
  PROVE  2^(k + 1) = 2 * 2^k
<1> DEFINE A == SUBSET (1..k)
           B == { T \in SUBSET (1..(k + 1)) : k + 1 \in T }
<1>1. IsFiniteSet(1..k) /\ Cardinality(1..k) = k /\ IsFiniteSet(1..(k + 1)) /\ Cardinality(1..(k + 1)) = k + 1
  BY FS_Interval
<1>2. IsFiniteSet(A) /\ Cardinality(A) = 2^k
  BY <1>1, FS_SUBSET
<1>3. IsFiniteSet(SUBSET (1..(k + 1))) /\ Cardinality(SUBSET (1..(k + 1))) = 2^(k + 1)
  BY <1>1, FS_SUBSET
<1>4. SUBSET (1..(k + 1)) = A \union B
  <2>1. ASSUME NEW T \in SUBSET (1..(k + 1)), k + 1 \notin T  PROVE T \in A
    BY <2>1
  <2>2. A \subseteq SUBSET (1..(k + 1))
    OBVIOUS
  <2>q. QED  BY <2>1, <2>2
<1>5. IsFiniteSet(B) /\ Cardinality(B) = Cardinality(A)
  <2> DEFINE f == [T \in A |-> T \union {k + 1}]
  <2>1. f \in [A -> B]
    OBVIOUS
  <2>2. \A T, U \in A : f[T] = f[U] => T = U
    <3>1. ASSUME NEW T \in A, NEW U \in A, f[T] = f[U]  PROVE T = U
      <4>1. k + 1 \notin T /\ k + 1 \notin U
        OBVIOUS
      <4>2. T \union {k + 1} = U \union {k + 1}
        BY <3>1
      <4>q. QED  BY <4>1, <4>2
    <3>q. QED  BY <3>1
  <2>3. \A V \in B : \E T \in A : f[T] = V
    <3>1. ASSUME NEW V \in B  PROVE V \ {k + 1} \in A /\ f[V \ {k + 1}] = V
      <4>1. V \ {k + 1} \in A  BY <3>1
      <4>2. (V \ {k + 1}) \union {k + 1} = V  BY <3>1
      <4>q. QED  BY <4>1, <4>2
    <3>q. QED  BY <3>1
  <2>4. f \in Bijection(A, B)
    BY <2>1, <2>2, <2>3, Zenon DEF Bijection, Injection, IsInjective, Surjection
  <2>5. ExistsBijection(A, B)
    BY <2>4, Zenon DEF ExistsBijection
  <2>q. QED  BY <1>2, <2>5, FS_Bijection
<1>6. A \intersect B = {}
  OBVIOUS
<1>7. Cardinality(A \union B) = Cardinality(A) + Cardinality(B) - Cardinality(A \intersect B)
  BY <1>2, <1>5, FS_Union
<1>8. Cardinality({}) = 0
  BY FS_EmptySet
<1>q. QED
  <2> HIDE DEF A, B
  <2>1. 2^(k + 1) = Cardinality(A) + Cardinality(A) - 0
    BY <1>3, <1>4, <1>5, <1>6, <1>7, <1>8
  <2>q. QED  BY <2>1, <1>2, PowerNat

\* The side of a level is not 0.
LEMMA PowerPositive ==
  ASSUME NEW k \in Nat
  PROVE  2^k \in Nat /\ 2^k > 0
<1> DEFINE T == { n \in Nat : ~(2^n > 0) }
<1>1. T = {}
  <2>1. SUFFICES ASSUME T # {}  PROVE FALSE
    OBVIOUS
  <2>2. PICK n \in T : \A y \in T : n <= y
    BY <2>1, Least
  <2>3. CASE n = 0
    BY <2>2, <2>3, PowerZero
  <2>4. CASE n # 0
    <3>1. n - 1 \in Nat /\ n - 1 \notin T
      BY <2>2, <2>4
    <3>2. 2^(n - 1) > 0 /\ 2^(n - 1) \in Nat
      BY <3>1, PowerNat
    <3>3. 2^((n - 1) + 1) = 2 * 2^(n - 1)
      BY <3>1, PowerStep
    <3>4. (n - 1) + 1 = n
      BY <2>2
    <3>5. 2^n > 0
      BY <3>2, <3>3, <3>4
    <3>q. QED  BY <2>2, <3>5
  <2>q. QED  BY <2>3, <2>4
<1>q. QED  BY <1>1, PowerNat

----------------------------------------------------------------------------
(* Quotients and remainders. *)

\* A number is its quotient and its remainder.
LEMMA DivMod ==
  ASSUME NEW x \in Int, NEW s \in Nat, s > 0
  PROVE  x = s * (x \div s) + (x % s) /\ x \div s \in Int /\ x % s \in 0..(s - 1)
OBVIOUS

\* The low bits of a number are a number.
LEMMA Remainder ==
  ASSUME NEW x \in Int, NEW s \in Nat, s > 0
  PROVE  x % s \in Int
OBVIOUS

\* Quotient and remainder of a sum are known by the range of the remainder.
LEMMA DivUnique ==
  ASSUME NEW s \in Nat, s > 0, NEW q \in Int, NEW r \in 0..(s - 1)
  PROVE  (s * q + r) \div s = q /\ (s * q + r) % s = r
OBVIOUS

\* x is q times s and r more.
Splits(x, s, q, r) ==
  s \in Nat /\ s > 0 /\ q \in Int /\ r \in 0..(s - 1) /\ x = s * q + r

\* The same of a number that was split.
LEMMA SplitsIs ==
  ASSUME NEW x, NEW s, NEW q, NEW r, Splits(x, s, q, r)
  PROVE  x \div s = q /\ x % s = r
BY DivUnique DEF Splits

\* The low bits and the next one.
LEMMA ModDouble ==
  ASSUME NEW x \in Int, NEW s \in Nat, s > 0
  PROVE  /\ (x \div s) % 2 \in {0, 1} /\ x % s \in 0..(s - 1)
         /\ x % (2 * s) = s * ((x \div s) % 2) + (x % s)
<1> DEFINE q == x \div s
           r == x % s
<1>1. q \in Int /\ r \in 0..(s - 1) /\ x = s * q + r
  BY DivMod
<1>2. q = 2 * (q \div 2) + (q % 2) /\ q \div 2 \in Int /\ q % 2 \in {0, 1}
  BY <1>1
<1> HIDE DEF q, r
<1>3. PICK h \in Int, b \in {0, 1} : q = 2 * h + b /\ b = q % 2
  BY <1>2
<1>4. s * q = (2 * s) * h + s * b
  BY <1>1, <1>3
<1>5. s * b + r \in 0..(2 * s - 1)
  BY <1>1, <1>3
<1>6. x = (2 * s) * h + (s * b + r)
  BY <1>1, <1>3, <1>4
<1>7. x % (2 * s) = s * b + r
  BY <1>5, <1>6, DivUnique, 2 * s \in Nat, 2 * s > 0
<1>q. QED  BY <1>1, <1>2, <1>3, <1>7 DEF q, r

\* The two low digits to the base s * s.
LEMMA ModFour ==
  ASSUME NEW x \in Int, NEW p \in Nat, p > 0
  PROVE  /\ (x \div p) % 4 \in 0..3 /\ x % p \in 0..(p - 1)
         /\ x % (4 * p) = p * ((x \div p) % 4) + (x % p)
<1> DEFINE q == x \div p
           r == x % p
<1>1. q \in Int /\ r \in 0..(p - 1) /\ x = p * q + r
  BY DivMod
<1>2. q = 4 * (q \div 4) + (q % 4) /\ q \div 4 \in Int /\ q % 4 \in 0..3
  BY <1>1
<1> HIDE DEF q, r
<1>3. PICK h \in Int, b \in 0..3 : q = 4 * h + b /\ b = q % 4
  BY <1>2
<1>4. p * q = (4 * p) * h + p * b
  BY <1>1, <1>3
<1>5. p * b + r \in 0..(4 * p - 1)
  BY <1>1, <1>3
<1>6. x = (4 * p) * h + (p * b + r)
  BY <1>1, <1>3, <1>4
<1>7. x % (4 * p) = p * b + r
  BY <1>5, <1>6, DivUnique, 4 * p \in Nat, 4 * p > 0
<1>q. QED  BY <1>1, <1>2, <1>3, <1>7 DEF q, r

\* Counting down from s - 1 reverses the low bits.
LEMMA ModReverse ==
  ASSUME NEW x \in Int, NEW s \in Nat, s > 0
  PROVE  (s - 1 - x) % s = s - 1 - (x % s)
<1> DEFINE q == x \div s
           r == x % s
<1>1. q \in Int /\ r \in 0..(s - 1) /\ x = s * q + r
  BY DivMod
<1> HIDE DEF q, r
<1>2. s - 1 - x = s * (-q) + (s - 1 - r)
  BY <1>1
<1>3. s - 1 - r \in 0..(s - 1) /\ -q \in Int
  BY <1>1
<1>4. (s * (-q) + (s - 1 - r)) % s = s - 1 - r
  BY <1>3, DivUnique
<1>q. QED  BY <1>2, <1>4 DEF r

----------------------------------------------------------------------------
(* The loops of the two conversions, as histories of their rounds. *)

\* What a loop of n rounds leaves after each, and what the rounds do.
IsHistory(h, n, S, a, F) == h \in [0..n -> S] /\ h[0] = a /\ \A i \in 1..n : h[i] = F[i][h[i - 1]]
Rounds(n, S) == [1..n -> [S -> S]]

\* A loop of n rounds has a history: what each round makes of the state before it.
LEMMA History ==
  ASSUME NEW n \in Nat, NEW S, NEW a \in S, NEW F \in Rounds(n, S)
  PROVE  \E h : IsHistory(h, n, S, a, F)
<1> DEFINE Is(h, m) == h \in [0..m -> S] /\ h[0] = a /\ \A i \in 1..m : h[i] = F[i][h[i - 1]]
           T == { m \in 0..n : ~ \E h : Is(h, m) }
<1>1. T = {}
  <2>1. SUFFICES ASSUME T # {}  PROVE FALSE
    OBVIOUS
  <2>2. PICK m \in T : \A y \in T : m <= y
    BY <2>1, Least, T \in SUBSET Nat
  <2>3. CASE m = 0
    <3>1. Is([i \in 0..0 |-> a], 0)
      OBVIOUS
    <3>q. QED  BY <2>2, <2>3, <3>1
  <2>4. CASE m # 0
    <3>0. m \in 1..n /\ m - 1 \in 0..n /\ ~(m <= m - 1)
      BY <2>4
    <3>1. m - 1 \in 0..n /\ m - 1 \notin T /\ m \in 1..n
      <4> HIDE DEF T
      <4>q. QED  BY <2>2, <3>0
    <3>2. PICK g : Is(g, m - 1)
      BY <3>1
    <3>3. g[m - 1] \in S /\ F[m][g[m - 1]] \in S
      BY <3>1, <3>2 DEF Rounds
    <3> DEFINE h == [i \in 0..m |-> IF i = m THEN F[m][g[m - 1]] ELSE g[i]]
    <3>4. h \in [0..m -> S] /\ h[0] = a
      BY <3>1, <3>2, <3>3
    <3>5. ASSUME NEW i \in 1..m  PROVE h[i] = F[i][h[i - 1]]
      <4>1. CASE i = m
        BY <3>1, <4>1
      <4>2. CASE i # m
        <5>1. i \in 1..(m - 1)
          BY <3>1, <4>2
        <5>2. h[i] = g[i] /\ h[i - 1] = g[i - 1] /\ g[i] = F[i][g[i - 1]]
          BY <3>1, <3>2, <5>1
        <5>q. QED  BY <5>2
      <4>q. QED  BY <4>1, <4>2
    <3> HIDE DEF h
    <3>6. Is(h, m)
      BY <3>4, <3>5
    <3>q. QED  BY <2>2, <3>6
  <2>q. QED  BY <2>3, <2>4
<1>q. QED
  <2> HIDE DEF Is
  <2>1. \E h : Is(h, n)
    BY <1>1, n \in 0..n
  <2>q. QED  BY <2>1 DEF IsHistory, Is

----------------------------------------------------------------------------
\* What the two loops keep.
Squares == Int \X Int

\* A round of idOnLevel() leads from integers to integers.
LEMMA RoundInt ==
  ASSUME NEW pos \in Int, NEW k \in Nat \ {0}, NEW xy \in Squares
  PROVE  Round(pos, k, xy) \in Squares
<1>1. 2^(k - 1) \in Nat
  BY PowerNat
<1> DEFINE s == 2^(k - 1)
<1>2. s \in Nat
  BY <1>1
<1> HIDE DEF s
<1> DEFINE t == pos \div (s * s)
           rx == (t \div 2) % 2
           ry == (t + rx) % 2
<1>3. s > 0 /\ s * s \in Nat /\ s * s > 0
  BY <1>2, PowerPositive DEF s
<1>4. t \in Int
  BY <1>3, DivMod
<1> HIDE DEF t
<1>5. rx \in {0, 1} /\ ry \in {0, 1}
  BY <1>4
<1> HIDE DEF rx, ry
<1>6. rotate(s, xy, rx, ry) \in Squares
  BY <1>2, <1>5 DEF rotate, Squares
<1>7. Round(pos, k, xy) = << rotate(s, xy, rx, ry)[1] + s * rx, rotate(s, xy, rx, ry)[2] + s * ry >>
  BY DEF Round, s, t, rx, ry
<1>q. QED  BY <1>2, <1>5, <1>6, <1>7 DEF Squares

\* The loop of idOnLevel() starts at the corner, and each round follows the one before.
LEMMA WalkDef ==
  ASSUME NEW z \in Nat, NEW pos \in Int
  PROVE  /\ Walk(z, pos)[0] = << 0, 0 >>
         /\ \A k \in 1..z : Walk(z, pos)[k] = Round(pos, k, Walk(z, pos)[k - 1])
<1> DEFINE Is(g) == g = [k \in 0..z |-> IF k = 0 THEN << 0, 0 >> ELSE Round(pos, k, g[k - 1])]
           F == [k \in 1..z |-> [xy \in Squares |-> Round(pos, k, xy)]]
<1>1. F \in Rounds(z, Squares)
  BY RoundInt DEF Rounds
<1> HIDE DEF F
<1>2. << 0, 0 >> \in Squares
  BY DEF Squares
<1>3. PICK h : IsHistory(h, z, Squares, << 0, 0 >>, F)
  BY <1>1, <1>2, History
<1>4. ASSUME NEW k \in 0..z  PROVE h[k] = IF k = 0 THEN << 0, 0 >> ELSE Round(pos, k, h[k - 1])
  <2>1. CASE k = 0
    BY <1>3, <2>1 DEF IsHistory
  <2>2. CASE k # 0
    <3>1. k \in 1..z /\ h[k - 1] \in Squares
      BY <1>3, <2>2 DEF IsHistory
    <3>2. F[k][h[k - 1]] = Round(pos, k, h[k - 1])
      BY <3>1 DEF F
    <3>q. QED  BY <1>3, <2>2, <3>1, <3>2 DEF IsHistory
  <2>q. QED  BY <2>1, <2>2
<1>5. Is(h)
  BY <1>3, <1>4 DEF IsHistory
<1>6. Walk(z, pos) = CHOOSE g : Is(g)
  BY DEF Walk
<1> HIDE DEF Is
<1>7. Is(Walk(z, pos))
  BY <1>5, <1>6
<1> DEFINE w == Walk(z, pos)
<1> HIDE DEF w
<1>8. w = [k \in 0..z |-> IF k = 0 THEN << 0, 0 >> ELSE Round(pos, k, w[k - 1])]
  BY <1>7 DEF Is, w
<1> DEFINE first == << 0, 0 >>
<1> HIDE DEF first
<1>9. w = [k \in 0..z |-> IF k = 0 THEN first ELSE Round(pos, k, w[k - 1])]
  BY <1>8 DEF first
<1>10. w[0] = first /\ \A k \in 1..z : w[k] = Round(pos, k, w[k - 1])
  BY <1>9
<1>q. QED  BY <1>10 DEF w, first

Counts == [d : Int, xy : Squares]

\* A round of zxyToTileId() leads from integers to integers.
LEMMA CountedInt ==
  ASSUME NEW z \in Nat, NEW k \in 1..z, NEW old \in Counts
  PROVE  Counted(z, k, old) \in Counts
<1> DEFINE s == 2^(z - k)
<1>1. s \in Nat
  BY PowerNat
<1> HIDE DEF s
<1>2. s > 0
  BY PowerPositive DEF s
<1> DEFINE rx == HasBit(old.xy[1], s)
           ry == HasBit(old.xy[2], s)
<1>3. old.d \in Int /\ old.xy \in Squares /\ old.xy[1] \in Int /\ old.xy[2] \in Int
  BY DEF Counts, Squares
<1>4. rx \in {0, 1} /\ ry \in {0, 1}
  BY <1>1, <1>2, <1>3, ModDouble DEF HasBit
<1> HIDE DEF rx, ry
<1>5. rotate(s, old.xy, rx, ry) \in Squares
  BY <1>1, <1>3, <1>4 DEF rotate, Squares
<1>6. Quadrant(rx, ry) \in 0..3
  BY <1>4 DEF Quadrant
<1>7. old.d + s * s * Quadrant(rx, ry) \in Int
  BY <1>1, <1>3, <1>6
<1>8. Counted(z, k, old) = [d |-> old.d + s * s * Quadrant(rx, ry), xy |-> rotate(s, old.xy, rx, ry)]
  BY DEF Counted, s, rx, ry
<1>q. QED  BY <1>5, <1>7, <1>8 DEF Counts

\* The loop of zxyToTileId() starts at the tile, and each round follows the one before.
LEMMA CountDef ==
  ASSUME NEW z \in Nat, NEW x \in Int, NEW y \in Int
  PROVE  /\ Count(z, x, y) \in [0..z -> Counts]
         /\ Count(z, x, y)[0] = [d |-> 0, xy |-> << x, y >>]
         /\ \A k \in 1..z : Count(z, x, y)[k] = Counted(z, k, Count(z, x, y)[k - 1])
<1> DEFINE first == [d |-> 0, xy |-> << x, y >>]
           Is(g) == g = [k \in 0..z |-> IF k = 0 THEN first ELSE Counted(z, k, g[k - 1])]
           F == [k \in 1..z |-> [old \in Counts |-> Counted(z, k, old)]]
<1>1. F \in Rounds(z, Counts)
  BY CountedInt DEF Rounds
<1> HIDE DEF F
<1>2. first \in Counts
  BY DEF Counts, Squares
<1>2a. Count(z, x, y) = CHOOSE g : Is(g)
  BY DEF Count
<1> HIDE DEF first
<1>3. PICK h : IsHistory(h, z, Counts, first, F)
  BY <1>1, <1>2, History
<1>4. ASSUME NEW k \in 0..z  PROVE h[k] = IF k = 0 THEN first ELSE Counted(z, k, h[k - 1])
  <2>1. CASE k = 0
    BY <1>3, <2>1 DEF IsHistory
  <2>2. CASE k # 0
    <3>1. k \in 1..z /\ h[k - 1] \in Counts
      BY <1>3, <2>2 DEF IsHistory
    <3>2. F[k][h[k - 1]] = Counted(z, k, h[k - 1])
      BY <3>1 DEF F
    <3>q. QED  BY <1>3, <2>2, <3>1, <3>2 DEF IsHistory
  <2>q. QED  BY <2>1, <2>2
<1>5. Is(h)
  BY <1>3, <1>4 DEF IsHistory
<1> HIDE DEF Is
<1>7. Is(Count(z, x, y))
  BY <1>5, <1>2a
<1> DEFINE c == Count(z, x, y)
<1> HIDE DEF c
<1>8. c = [k \in 0..z |-> IF k = 0 THEN first ELSE Counted(z, k, c[k - 1])]
  BY <1>7 DEF Is, c
<1>9. c[0] = first /\ \A k \in 1..z : c[k] = Counted(z, k, c[k - 1])
  BY <1>8
<1> DEFINE T == { k \in 0..z : c[k] \notin Counts }
<1>10. T = {}
  <2>1. SUFFICES ASSUME T # {}  PROVE FALSE
    OBVIOUS
  <2>2. PICK k \in T : \A j \in T : k <= j
    BY <2>1, Least, T \in SUBSET Nat
  <2>3. CASE k = 0
    BY <1>2, <1>9, <2>2, <2>3
  <2>4. CASE k # 0
    <3>1. k \in 1..z /\ c[k - 1] \in Counts
      BY <2>2, <2>4
    <3>2. c[k] \in Counts
      BY <1>9, <3>1, CountedInt
    <3>q. QED  BY <2>2, <3>2
  <2>q. QED  BY <2>3, <2>4
<1>11. c \in [0..z -> Counts]
  BY <1>8, <1>10
<1>q. QED  BY <1>9, <1>11 DEF c, first

----------------------------------------------------------------------------
(* zxyToTileId() and idOnLevel(), round against round. *)

\* The tile of quadrant q that is at x, y within it.
Quarter(s, q, x, y) ==
  CASE q = 0 -> << y, x >>
    [] q = 1 -> << x, s + y >>
    [] q = 2 -> << s + x, s + y >>
    [] q = 3 -> << 2 * s - 1 - y, s - 1 - x >>

\* A round of idOnLevel() goes to the quadrant that the round's digit of the number names.
LEMMA RoundQuarter ==
  ASSUME NEW pos \in Int, NEW k \in Nat, NEW x \in Int, NEW y \in Int
  PROVE  Round(pos, k + 1, << x, y >>) = Quarter(2^k, (pos \div (2^k * 2^k)) % 4, x, y)
<1> DEFINE s == 2^k
<1>1. s \in Nat /\ s > 0 /\ s * s \in Nat /\ s * s > 0
  BY PowerPositive
<1> DEFINE t == pos \div (s * s)
           rx == (t \div 2) % 2
           ry == (t + rx) % 2
<1>2. (k + 1) - 1 = k
  OBVIOUS
<1>3. Round(pos, k + 1, << x, y >>)
        = << rotate(s, << x, y >>, rx, ry)[1] + s * rx, rotate(s, << x, y >>, rx, ry)[2] + s * ry >>
  BY <1>2 DEF Round
<1> HIDE DEF s
<1>4. t \in Int
  BY <1>1, DivMod
<1> HIDE DEF t
<1>5. /\ t % 4 \in 0..3
      /\ t % 4 = 0 => rx = 0 /\ ry = 0
      /\ t % 4 = 1 => rx = 0 /\ ry = 1
      /\ t % 4 = 2 => rx = 1 /\ ry = 1
      /\ t % 4 = 3 => rx = 1 /\ ry = 0
  BY <1>4
<1> HIDE DEF rx, ry
<1>6. CASE t % 4 = 0
  BY <1>1, <1>3, <1>5, <1>6 DEF rotate, Quarter, t, s
<1>7. CASE t % 4 = 1
  BY <1>1, <1>3, <1>5, <1>7 DEF rotate, Quarter, t, s
<1>8. CASE t % 4 = 2
  BY <1>1, <1>3, <1>5, <1>8 DEF rotate, Quarter, t, s
<1>9. CASE t % 4 = 3
  BY <1>1, <1>3, <1>5, <1>9 DEF rotate, Quarter, t, s
<1>q. QED  BY <1>5, <1>6, <1>7, <1>8, <1>9

\* A round of zxyToTileId() notes the quadrant and takes xy to where it is within it.
LEMMA CountedQuarter ==
  ASSUME NEW z \in Nat, NEW k \in 1..z, NEW old \in Counts
  PROVE  LET s == 2^(z - k)
             new == Counted(z, k, old)
             x == old.xy[1]
             y == old.xy[2]
         IN  \E q \in 0..3 :
               /\ new.d = old.d + s * s * q
               /\ << x % (2 * s), y % (2 * s) >> = Quarter(s, q, new.xy[1] % s, new.xy[2] % s)
<1> DEFINE s == 2^(z - k)
<1>0. s \in Nat
  BY PowerNat
<1> HIDE DEF s
<1>1. s > 0
  BY PowerPositive DEF s
<1> DEFINE x == old.xy[1]
           y == old.xy[2]
           a == (x \div s) % 2
           b == (y \div s) % 2
           q == Quadrant(a, b)
           new == rotate(s, old.xy, a, b)
<1>2. old.d \in Int /\ x \in Int /\ y \in Int
  BY DEF Counts, Squares
<1>3. Counted(z, k, old) = [d |-> old.d + s * s * q, xy |-> new]
  BY DEF Counted, HasBit, s
<1> HIDE DEF x, y
<1>4. /\ a \in {0, 1} /\ x % s \in 0..(s - 1) /\ x % (2 * s) = s * a + (x % s)
      /\ b \in {0, 1} /\ y % s \in 0..(s - 1) /\ y % (2 * s) = s * b + (y % s)
  BY <1>0, <1>1, <1>2, ModDouble
<1> HIDE DEF a, b
<1>5. (s - 1 - x) % s = s - 1 - (x % s) /\ (s - 1 - y) % s = s - 1 - (y % s)
  BY <1>0, <1>1, <1>2, ModReverse
<1>6. q \in 0..3
  BY <1>4 DEF Quadrant
<1>7. << x % (2 * s), y % (2 * s) >> = Quarter(s, q, new[1] % s, new[2] % s)
  <2>1. CASE a = 0 /\ b = 0
    <3>1. q = 0 /\ new[1] = y /\ new[2] = x
      BY <2>1 DEF Quadrant, rotate, x, y
    <3>q. QED  BY <1>0, <1>4, <2>1, <3>1 DEF Quarter
  <2>2. CASE a = 0 /\ b = 1
    <3>1. q = 1 /\ new[1] = x /\ new[2] = y
      BY <2>2 DEF Quadrant, rotate, x, y
    <3>q. QED  BY <1>0, <1>4, <2>2, <3>1 DEF Quarter
  <2>3. CASE a = 1 /\ b = 1
    <3>1. q = 2 /\ new[1] = x /\ new[2] = y
      BY <2>3 DEF Quadrant, rotate, x, y
    <3>q. QED  BY <1>0, <1>4, <2>3, <3>1 DEF Quarter
  <2>4. CASE a = 1 /\ b = 0
    <3>1. q = 3 /\ new[1] = s - 1 - y /\ new[2] = s - 1 - x
      BY <2>4 DEF Quadrant, rotate, x, y
    <3>q. QED  BY <1>0, <1>4, <1>5, <2>4, <3>1 DEF Quarter
  <2>q. QED  BY <1>4, <2>1, <2>2, <2>3, <2>4
<1> HIDE DEF q, new
<1>8. Counted(z, k, old).d = old.d + s * s * q /\ Counted(z, k, old).xy = new
  BY <1>3
<1>q. QED  BY <1>6, <1>7, <1>8 DEF s, x, y

\* The last digit of a number to the base 4 * p, and the rest.
Digits(pos, p, q, r) ==
  p \in Nat /\ p > 0 /\ pos \in Int /\ q \in 0..3 /\ r \in 0..(p - 1) /\ pos % (4 * p) = p * q + r

\* Such a digit and rest are what the code computes with a division and a mask.
LEMMA DigitsAre ==
  ASSUME NEW pos, NEW p, NEW q, NEW r, Digits(pos, p, q, r)
  PROVE  (pos \div p) % 4 = q /\ pos % p = r
<1> DEFINE t == (pos \div p) % 4
           u == pos % p
<1>0. p \in Nat /\ p > 0 /\ pos \in Int /\ q \in 0..3 /\ r \in 0..(p - 1) /\ pos % (4 * p) = p * q + r
  BY DEF Digits
<1>1. t \in 0..3 /\ u \in 0..(p - 1) /\ pos % (4 * p) = p * t + u
  BY <1>0, ModFour
<1> HIDE DEF t, u
<1>2. Splits(p * t + u, p, t, u) /\ Splits(p * t + u, p, q, r)
  BY <1>0, <1>1 DEF Splits
<1>q. QED  BY <1>2, SplitsIs DEF t, u

\* What the last j rounds of zxyToTileId() counted leads idOnLevel() in j rounds to
\* where the tile was before them, as far as their bits tell.
LEMMA WalkUndoesCount ==
  ASSUME NEW z \in Nat, NEW x \in Int, NEW y \in Int
  PROVE  LET c == Count(z, x, y) IN
         \A j \in 0..z :
           /\ c[z].d - c[z - j].d \in 0..(2^j * 2^j - 1)
           /\ \A pos \in Int : pos % (2^j * 2^j) = c[z].d - c[z - j].d
                => Walk(z, pos)[j] = << c[z - j].xy[1] % 2^j, c[z - j].xy[2] % 2^j >>
<1> DEFINE c == Count(z, x, y)
<1>1. c \in [0..z -> Counts] /\ \A k \in 1..z : c[k] = Counted(z, k, c[k - 1])
  BY CountDef
<1> HIDE DEF c
<1> DEFINE D(j) == c[z].d - c[z - j].d
           P(j) == /\ D(j) \in 0..(2^j * 2^j - 1)
                   /\ \A pos \in Int : pos % (2^j * 2^j) = D(j)
                        => Walk(z, pos)[j] = << c[z - j].xy[1] % 2^j, c[z - j].xy[2] % 2^j >>
           T == { j \in 0..z : ~P(j) }
<1>2. P(0)
  <2>1. 2^0 = 1 /\ z - 0 = z /\ z \in 0..z
    BY PowerZero
  <2>2. c[z].d \in Int /\ c[z].xy[1] \in Int /\ c[z].xy[2] \in Int
    BY <1>1, <2>1 DEF Counts, Squares
  <2>3. D(0) = 0
    BY <2>1, <2>2
  <2>4. c[z].xy[1] % 1 = 0 /\ c[z].xy[2] % 1 = 0
    BY <2>2
  <2>5. \A pos \in Int : Walk(z, pos)[0] = << 0, 0 >>
    BY WalkDef
  <2>q. QED  BY <2>1, <2>3, <2>4, <2>5
<1>3. ASSUME NEW j \in 0..(z - 1), P(j)
      PROVE  P(j + 1)
  <2> DEFINE s == 2^j
             k == z - j
             old == c[k - 1]
             new == c[k]
  <2>0. s \in Nat
    BY PowerNat
  <2>1. j \in Nat /\ k \in 1..z /\ z - k = j /\ k - 1 \in 0..z /\ k \in 0..z /\ z - (j + 1) = k - 1 /\ j + 1 \in 1..z /\ z \in 0..z
    OBVIOUS
  <2>2. new = Counted(z, k, old) /\ old \in Counts /\ new \in Counts /\ c[z] \in Counts
    BY <1>1, <2>1
  <2>3. PICK q \in 0..3 :
          /\ new.d = old.d + s * s * q
          /\ << old.xy[1] % (2 * s), old.xy[2] % (2 * s) >> = Quarter(s, q, new.xy[1] % s, new.xy[2] % s)
    <3>1. 2^(z - k) = s
      BY <2>1
    <3> HIDE DEF old, new, k
    <3> DEFINE side == 2^(z - k)
               made == Counted(z, k, old)
    <3>2. \E q \in 0..3 :
            /\ made.d = old.d + side * side * q
            /\ << old.xy[1] % (2 * side), old.xy[2] % (2 * side) >> = Quarter(side, q, made.xy[1] % side, made.xy[2] % side)
      BY <2>1, <2>2, CountedQuarter, Zenon
    <3> HIDE DEF side, made
    <3>3. side = s /\ made = new
      BY <2>2, <3>1 DEF side, made
    <3>q. QED  BY <3>2, <3>3
  <2>4. 2^(j + 1) = 2 * s /\ s > 0
    BY <2>1, PowerStep, PowerPositive
  <2>5. /\ D(j) \in 0..(s * s - 1)
        /\ \A pos \in Int : pos % (s * s) = D(j) => Walk(z, pos)[j] = << new.xy[1] % s, new.xy[2] % s >>
    BY <1>3
  <2>6. D(j + 1) = c[z].d - old.d /\ D(j) = c[z].d - new.d
    BY <2>1
  <2>7. old.d \in Int /\ new.d \in Int /\ c[z].d \in Int /\ new.xy[1] \in Int /\ new.xy[2] \in Int
    BY <2>2 DEF Counts, Squares
  <2> HIDE DEF D
  <2>8. D(j + 1) = (s * s) * q + D(j) /\ D(j) \in Int
    <3> DEFINE m == (s * s) * q
               a == old.d
               b == new.d
               e == c[z].d
    <3>1. m \in Int
      BY <2>0
    <3>2. a \in Int /\ b \in Int /\ e \in Int /\ b = a + m /\ D(j + 1) = e - a /\ D(j) = e - b
      BY <2>3, <2>6, <2>7
    <3> HIDE DEF m, a, b, e
    <3>3. D(j + 1) = m + D(j) /\ D(j) \in Int
      BY <3>1, <3>2
    <3>q. QED  BY <3>3 DEF m
  <2>9. (2 * s) * (2 * s) = 4 * (s * s) /\ s * s \in Nat /\ s * s > 0
    BY <2>0, <2>4
  <2> HIDE DEF s, old, new, k
  <2>10. D(j + 1) \in 0..(4 * (s * s) - 1)
    <3> DEFINE p == s * s
    <3>1. p \in Nat /\ D(j) \in 0..(p - 1) /\ D(j + 1) = p * q + D(j)
      BY <2>5, <2>8, <2>9
    <3> HIDE DEF p
    <3>2. D(j + 1) \in 0..(4 * p - 1)
      BY <3>1
    <3>q. QED  BY <3>2 DEF p
  <2>11. ASSUME NEW pos \in Int, pos % (4 * (s * s)) = D(j + 1)
         PROVE  Walk(z, pos)[j + 1] = << old.xy[1] % (2 * s), old.xy[2] % (2 * s) >>
    <3>1. (pos \div (s * s)) % 4 = q /\ pos % (s * s) = D(j)
      <4> DEFINE p == s * s
      <4>1. p \in Nat /\ p > 0 /\ D(j) \in 0..(p - 1) /\ pos % (4 * p) = p * q + D(j)
        BY <2>5, <2>8, <2>9, <2>11
      <4> HIDE DEF p
      <4>2. Digits(pos, p, q, D(j))
        BY <4>1 DEF Digits
      <4>3. (pos \div p) % 4 = q /\ pos % p = D(j)
        BY <4>2, DigitsAre, Zenon
      <4>q. QED  BY <4>3 DEF p
    <3>2. Walk(z, pos)[j] = << new.xy[1] % s, new.xy[2] % s >>
      BY <2>5, <3>1
    <3>3. Walk(z, pos)[j + 1] = Round(pos, j + 1, Walk(z, pos)[j])
      <4>1. Walk(z, pos)[j + 1] = Round(pos, j + 1, Walk(z, pos)[(j + 1) - 1])
        BY <2>1, WalkDef
      <4>q. QED  BY <2>1, <4>1
    <3>4. new.xy[1] % s \in Int /\ new.xy[2] % s \in Int
      BY <2>0, <2>4, <2>7, Remainder, Zenon
    <3>5. Round(pos, j + 1, << new.xy[1] % s, new.xy[2] % s >>) = Quarter(s, q, new.xy[1] % s, new.xy[2] % s)
      BY <2>1, <3>1, <3>4, RoundQuarter DEF s
    <3>q. QED  BY <2>3, <3>2, <3>3, <3>5
  <2>12. c[z - (j + 1)] = old
    BY <2>1 DEF old
  <2> HIDE DEF Walk, Quarter
  <2>q. QED  BY <2>4, <2>9, <2>10, <2>11, <2>12
<1> HIDE DEF P
<1>4. T = {}
  <2>1. SUFFICES ASSUME T # {}  PROVE FALSE
    OBVIOUS
  <2>2. PICK j \in T : \A i \in T : j <= i
    BY <2>1, Least, T \in SUBSET Nat
  <2>3. j # 0
    BY <1>2, <2>2
  <2>4. j - 1 \in 0..(z - 1) /\ (j - 1) + 1 = j /\ ~(j <= j - 1)
    BY <2>2, <2>3
  <2>5. P(j - 1)
    BY <2>2, <2>4
  <2>q. QED  BY <1>3, <2>2, <2>4, <2>5
<1>q. QED  BY <1>4 DEF P, D, c

----------------------------------------------------------------------------
(* Where the numbers of a level lead. *)

\* The tiles of a level, and the numbers they get within it.
Grid(z) == 0..(2^z - 1)

\* The number of tiles of a level is positive.
LEMMA PowerSquare ==
  ASSUME NEW k \in Nat
  PROVE  2^k * 2^k \in Nat /\ 2^k * 2^k > 0
<1> DEFINE s == 2^k
<1>1. s \in Nat /\ s > 0
  BY PowerPositive
<1> HIDE DEF s
<1>2. s * s \in Nat /\ s * s > 0
  BY <1>1
<1>q. QED  BY <1>2 DEF s

\* zxyToTileId() numbers a tile within its level, and idOnLevel() leads back to it.
LEMMA WalkBack ==
  ASSUME NEW z \in Nat, NEW x \in Grid(z), NEW y \in Grid(z)
  PROVE  /\ Count(z, x, y)[z].d \in 0..(2^z * 2^z - 1)
         /\ Walk(z, Count(z, x, y)[z].d)[z] = << x, y >>
<1> DEFINE c == Count(z, x, y)
           n == c[z].d
           s == 2^z
           p == s * s
<1>1. s \in Nat /\ s > 0 /\ p \in Nat /\ p > 0
  BY PowerPositive, PowerSquare
<1>2. x \in Int /\ y \in Int /\ x \in 0..(s - 1) /\ y \in 0..(s - 1)
  BY <1>1 DEF Grid
<1>3. c[0] = [d |-> 0, xy |-> << x, y >>] /\ c \in [0..z -> Counts]
  BY <1>2, CountDef
<1>4. c[0].d = 0 /\ c[0].xy[1] = x /\ c[0].xy[2] = y /\ n \in Int
  BY <1>3 DEF Counts
<1>5. /\ c[z].d - c[z - z].d \in 0..(2^z * 2^z - 1)
      /\ \A pos \in Int : pos % (2^z * 2^z) = c[z].d - c[z - z].d
           => Walk(z, pos)[z] = << c[z - z].xy[1] % 2^z, c[z - z].xy[2] % 2^z >>
  <2>1. x \in Int /\ y \in Int /\ z \in 0..z
    BY <1>2
  <2>2. \A j \in 0..z :
          /\ c[z].d - c[z - j].d \in 0..(2^j * 2^j - 1)
          /\ \A pos \in Int : pos % (2^j * 2^j) = c[z].d - c[z - j].d
               => Walk(z, pos)[j] = << c[z - j].xy[1] % 2^j, c[z - j].xy[2] % 2^j >>
    BY <2>1, WalkUndoesCount, Zenon
  <2> HIDE DEF c
  <2>q. QED  BY <2>1, <2>2, Zenon
<1>6. z - z = 0
  OBVIOUS
<1> HIDE DEF c
<1>7. /\ n - 0 \in 0..(p - 1)
      /\ \A pos \in Int : pos % p = n - 0 => Walk(z, pos)[z] = << x % s, y % s >>
  BY <1>4, <1>5, <1>6
<1> HIDE DEF n, p, s
<1>8. n \in 0..(p - 1)
  BY <1>4, <1>7
<1>9. n % p = n - 0 /\ x % s = x /\ y % s = y
  <2>1. (p * 0 + n) % p = n
    BY <1>1, <1>8, DivUnique
  <2>2. (s * 0 + x) % s = x /\ (s * 0 + y) % s = y
    BY <1>1, <1>2, DivUnique
  <2>3. p * 0 + n = n /\ s * 0 + x = x /\ s * 0 + y = y
    BY <1>1, <1>2, <1>4
  <2>q. QED  BY <2>1, <2>2, <2>3, <1>4
<1>q. QED  BY <1>4, <1>7, <1>8, <1>9 DEF c, n, p, s

----------------------------------------------------------------------------
(* Neighbours. *)

\* After k rounds idOnLevel() is at x, y.
WalksTo(z, pos, k, x, y) ==
  z \in Nat /\ pos \in Int /\ k \in 0..(z - 1) /\ x \in Int /\ y \in Int /\ Walk(z, pos)[k] = << x, y >>

\* Where the next round goes from there.
StepsOn(z, pos, k, x, y) ==
  Walk(z, pos)[k + 1] = Quarter(2^k, (pos \div (2^k * 2^k)) % 4, x, y)

\* A round of idOnLevel() whose start is known.
LEMMA WalkStep ==
  ASSUME NEW z, NEW pos, NEW k, NEW x, NEW y, WalksTo(z, pos, k, x, y)
  PROVE  StepsOn(z, pos, k, x, y)
<1>1. k + 1 \in 1..z /\ (k + 1) - 1 = k /\ k \in Nat /\ z \in Nat /\ pos \in Int /\ x \in Int /\ y \in Int
  BY DEF WalksTo
<1>2. Walk(z, pos)[k + 1] = Round(pos, k + 1, << x, y >>)
  <2>1. Walk(z, pos)[k + 1] = Round(pos, k + 1, Walk(z, pos)[(k + 1) - 1])
    BY <1>1, WalkDef
  <2>q. QED  BY <1>1, <2>1 DEF WalksTo
<1>3. Round(pos, k + 1, << x, y >>) = Quarter(2^k, (pos \div (2^k * 2^k)) % 4, x, y)
  BY <1>1, RoundQuarter
<1>q. QED  BY <1>1, <1>2, <1>3 DEF StepsOn

\* Where a number of the level below is: within its square, at its first corner if the
\* number is the first, at its last corner if it is the last.
InSquare(s, p, pos, x, y) ==
  /\ x \in 0..(s - 1) /\ y \in 0..(s - 1)
  /\ pos % p = 0 => x = 0 /\ y = 0
  /\ pos % p = p - 1 => x = s - 1 /\ y = 0

\* k rounds of idOnLevel() stay in a square of side 2^k, which the numbers enter and
\* leave at two corners of one side.
LEMMA WalkInSquare ==
  ASSUME NEW z \in Nat, NEW pos \in Int
  PROVE  \A k \in 0..z : \E x, y \in Int : Walk(z, pos)[k] = << x, y >> /\ InSquare(2^k, 2^k * 2^k, pos, x, y)
<1> DEFINE P(k) == \E x, y \in Int : Walk(z, pos)[k] = << x, y >> /\ InSquare(2^k, 2^k * 2^k, pos, x, y)
           T == { k \in 0..z : ~P(k) }
<1>1. P(0)
  <2>1. Walk(z, pos)[0] = << 0, 0 >> /\ 2^0 = 1
    BY WalkDef, PowerZero
  <2>2. InSquare(1, 1 * 1, pos, 0, 0)
    BY DEF InSquare
  <2>q. QED  BY <2>1, <2>2
<1>2. ASSUME NEW k \in 0..(z - 1), P(k)  PROVE P(k + 1)
  <2> DEFINE s == 2^k
             p == s * s
             q == (pos \div p) % 4
  <2>1. s \in Nat /\ s > 0 /\ p \in Nat /\ p > 0 /\ 2^(k + 1) = 2 * s
    BY PowerPositive, PowerSquare, PowerStep
  <2>2. PICK x \in Int, y \in Int : Walk(z, pos)[k] = << x, y >> /\ InSquare(s, p, pos, x, y)
    BY <1>2
  <2>3. Walk(z, pos)[k + 1] = Quarter(s, q, x, y)
    <3>1. WalksTo(z, pos, k, x, y)
      BY <2>2 DEF WalksTo
    <3>2. StepsOn(z, pos, k, x, y)
      BY <3>1, WalkStep, Zenon
    <3>q. QED  BY <3>2 DEF StepsOn
  <2>4. (2 * s) * (2 * s) = 4 * p
    BY <2>1
  <2> HIDE DEF s, p
  <2>5. q \in 0..3 /\ pos % p \in 0..(p - 1) /\ pos % (4 * p) = p * q + (pos % p)
    BY <2>1, ModFour
  <2> HIDE DEF q
  <2>6. (pos % (4 * p) = 0 => q = 0 /\ pos % p = 0) /\ (pos % (4 * p) = 4 * p - 1 => q = 3 /\ pos % p = p - 1)
    <3> DEFINE r == pos % p
               m == pos % (4 * p)
    <3>1. q \in 0..3 /\ r \in 0..(p - 1) /\ m = p * q + r
      BY <2>5
    <3> HIDE DEF r, m
    <3>2. (m = 0 => q = 0 /\ r = 0) /\ (m = 4 * p - 1 => q = 3 /\ r = p - 1)
      BY <2>1, <3>1
    <3>q. QED  BY <3>2 DEF r, m
  <2>7. /\ x \in 0..(s - 1) /\ y \in 0..(s - 1)
        /\ pos % p = 0 => x = 0 /\ y = 0
        /\ pos % p = p - 1 => x = s - 1 /\ y = 0
    BY <2>2 DEF InSquare
  <2>8. CASE q = 0
    <3>1. Walk(z, pos)[k + 1] = << y, x >>
      BY <2>3, <2>8 DEF Quarter
    <3>2. InSquare(2 * s, 4 * p, pos, y, x)
      BY <2>1, <2>6, <2>7, <2>8 DEF InSquare
    <3>q. QED  BY <2>1, <2>4, <3>1, <3>2
  <2>9. CASE q = 1
    <3>1. Walk(z, pos)[k + 1] = << x, s + y >>
      BY <2>3, <2>9 DEF Quarter
    <3>2. InSquare(2 * s, 4 * p, pos, x, s + y) /\ s + y \in Int
      BY <2>1, <2>6, <2>7, <2>9 DEF InSquare
    <3>q. QED  BY <2>1, <2>4, <3>1, <3>2
  <2>10. CASE q = 2
    <3>1. Walk(z, pos)[k + 1] = << s + x, s + y >>
      BY <2>3, <2>10 DEF Quarter
    <3>2. InSquare(2 * s, 4 * p, pos, s + x, s + y) /\ s + x \in Int /\ s + y \in Int
      BY <2>1, <2>6, <2>7, <2>10 DEF InSquare
    <3>q. QED  BY <2>1, <2>4, <3>1, <3>2
  <2>11. CASE q = 3
    <3>1. Walk(z, pos)[k + 1] = << 2 * s - 1 - y, s - 1 - x >>
      BY <2>3, <2>11 DEF Quarter
    <3>2. InSquare(2 * s, 4 * p, pos, 2 * s - 1 - y, s - 1 - x) /\ 2 * s - 1 - y \in Int /\ s - 1 - x \in Int
      BY <2>1, <2>6, <2>7, <2>11 DEF InSquare
    <3>q. QED  BY <2>1, <2>4, <3>1, <3>2
  <2>q. QED  BY <2>5, <2>8, <2>9, <2>10, <2>11
<1> HIDE DEF P
<1>3. T = {}
  <2>1. SUFFICES ASSUME T # {}  PROVE FALSE
    OBVIOUS
  <2>2. PICK k \in T : \A i \in T : k <= i
    BY <2>1, Least, T \in SUBSET Nat
  <2>3. k # 0
    BY <1>1, <2>2
  <2>4. k - 1 \in 0..(z - 1) /\ (k - 1) + 1 = k /\ ~(k <= k - 1)
    BY <2>2, <2>3
  <2>5. P(k - 1)
    BY <2>2, <2>4
  <2>q. QED  BY <1>2, <2>2, <2>4, <2>5
<1>q. QED  BY <1>3 DEF P

\* k rounds of idOnLevel() lead two numbers that follow each other in one square to
\* neighbours.
LEMMA WalkNeighbours ==
  ASSUME NEW z \in Nat, NEW pos \in Int
  PROVE  \A k \in 0..z : (pos + 1) % (2^k * 2^k) # 0 =>
           LET a == Walk(z, pos)[k]
               b == Walk(z, pos + 1)[k]
           IN  Distance(b[1], a[1]) + Distance(b[2], a[2]) = 1
<1> DEFINE P(k) == (pos + 1) % (2^k * 2^k) # 0 =>
                     LET a == Walk(z, pos)[k]
                         b == Walk(z, pos + 1)[k]
                     IN  Distance(b[1], a[1]) + Distance(b[2], a[2]) = 1
           T == { k \in 0..z : ~P(k) }
<1>1. P(0)
  <2>1. 2^0 = 1 /\ (pos + 1) % (1 * 1) = 0
    BY PowerZero
  <2>q. QED  BY <2>1
<1>2. ASSUME NEW k \in 0..(z - 1), P(k)  PROVE P(k + 1)
  <2> DEFINE s == 2^k
             p == s * s
             q == (pos \div p) % 4
             t == ((pos + 1) \div p) % 4
             r == pos % p
  <2>1. s \in Nat /\ s > 0 /\ p \in Nat /\ p > 0 /\ 2^(k + 1) = 2 * s
    BY PowerPositive, PowerSquare, PowerStep
  <2>2. PICK x \in Int, y \in Int : Walk(z, pos)[k] = << x, y >> /\ InSquare(s, p, pos, x, y)
    BY WalkInSquare, k \in 0..z
  <2>3. PICK v \in Int, w \in Int : Walk(z, pos + 1)[k] = << v, w >> /\ InSquare(s, p, pos + 1, v, w)
    BY WalkInSquare, k \in 0..z, pos + 1 \in Int
  <2>4. Walk(z, pos)[k + 1] = Quarter(s, q, x, y) /\ Walk(z, pos + 1)[k + 1] = Quarter(s, t, v, w)
    <3>1. WalksTo(z, pos, k, x, y) /\ WalksTo(z, pos + 1, k, v, w)
      BY <2>2, <2>3 DEF WalksTo
    <3>2. StepsOn(z, pos, k, x, y) /\ StepsOn(z, pos + 1, k, v, w)
      BY <3>1, WalkStep, Zenon
    <3>q. QED  BY <3>2 DEF StepsOn
  <2>5. (2 * s) * (2 * s) = 4 * p
    BY <2>1
  <2>5a. (pos + 1) % p # 0 => Distance(v, x) + Distance(w, y) = 1
    BY <1>2, <2>2, <2>3
  <2> HIDE DEF s, p
  <2>6. SUFFICES ASSUME (pos + 1) % (4 * p) # 0
                 PROVE  LET a == Quarter(s, q, x, y)
                            b == Quarter(s, t, v, w)
                        IN  Distance(b[1], a[1]) + Distance(b[2], a[2]) = 1
    BY <2>1, <2>4, <2>5
  <2>7. q \in 0..3 /\ r \in 0..(p - 1) /\ pos % (4 * p) = p * q + r
    BY <2>1, ModFour
  <2>8. pos = (4 * p) * (pos \div (4 * p)) + (p * q + r) /\ pos \div (4 * p) \in Int
    BY <2>1, <2>7, DivMod, 4 * p \in Nat, 4 * p > 0
  <2> HIDE DEF q, r
  <2>9. PICK h \in Int : pos = (4 * p) * h + (p * q + r)
    BY <2>8
  <2>10. CASE r # p - 1
    <3>1. pos + 1 = (4 * p) * h + (p * q + (r + 1)) /\ r + 1 \in 0..(p - 1)
      BY <2>1, <2>7, <2>9, <2>10
    <3>2. p * q + (r + 1) \in 0..(4 * p - 1)
      BY <2>1, <2>7, <3>1
    <3>3. Splits(pos + 1, 4 * p, h, p * q + (r + 1))
      BY <2>1, <3>1, <3>2 DEF Splits
    <3>4. t = q /\ (pos + 1) % p = r + 1
      <4>1. (pos + 1) % (4 * p) = p * q + (r + 1)
        BY <3>3, SplitsIs, Zenon
      <4>2. Digits(pos + 1, p, q, r + 1)
        BY <2>1, <2>7, <3>1, <4>1 DEF Digits
      <4>q. QED  BY <4>2, DigitsAre, Zenon
    <3>5. Distance(v, x) + Distance(w, y) = 1
      BY <2>5a, <2>7, <3>4
    <3>6. t \in 0..3
      BY <2>7, <3>4
    <3> HIDE DEF t
    <3>q. QED  BY <2>1, <2>7, <3>4, <3>5 DEF Quarter, Distance
  <2>11. CASE r = p - 1
    <3>1. pos + 1 = (4 * p) * h + (p * (q + 1) + 0)
      BY <2>1, <2>7, <2>9, <2>11
    <3>2. q # 3
      <4>1. SUFFICES ASSUME q = 3  PROVE FALSE
        OBVIOUS
      <4>2. Splits(pos + 1, 4 * p, h + 1, 0)
        BY <2>1, <3>1, <4>1 DEF Splits
      <4>3. (pos + 1) % (4 * p) = 0
        BY <4>2, SplitsIs, Zenon
      <4>q. QED  BY <2>6, <4>3
    <3>3. p * (q + 1) + 0 \in 0..(4 * p - 1) /\ q + 1 \in 0..3 /\ 0 \in 0..(p - 1)
      BY <2>1, <2>7, <3>2
    <3>4. Splits(pos + 1, 4 * p, h, p * (q + 1) + 0)
      BY <2>1, <3>1, <3>3 DEF Splits
    <3>5. t = q + 1 /\ (pos + 1) % p = 0
      <4>1. (pos + 1) % (4 * p) = p * (q + 1) + 0
        BY <3>4, SplitsIs, Zenon
      <4>2. Digits(pos + 1, p, q + 1, 0)
        BY <2>1, <3>3, <4>1 DEF Digits
      <4>q. QED  BY <4>2, DigitsAre, Zenon
    <3>6. x = s - 1 /\ y = 0 /\ v = 0 /\ w = 0
      BY <2>2, <2>3, <2>11, <3>5 DEF InSquare, r
    <3> HIDE DEF t
    <3>7. CASE q = 0
      <4>1. Quarter(s, q, x, y) = << 0, s - 1 >> /\ Quarter(s, t, v, w) = << 0, s + 0 >>
        BY <3>5, <3>6, <3>7 DEF Quarter
      <4>q. QED  BY <2>1, <4>1 DEF Distance
    <3>8. CASE q = 1
      <4>1. Quarter(s, q, x, y) = << s - 1, s + 0 >> /\ Quarter(s, t, v, w) = << s + 0, s + 0 >>
        BY <3>5, <3>6, <3>8 DEF Quarter
      <4>q. QED  BY <2>1, <4>1 DEF Distance
    <3>9. CASE q = 2
      <4>1. Quarter(s, q, x, y) = << s + (s - 1), s + 0 >> /\ Quarter(s, t, v, w) = << 2 * s - 1 - 0, s - 1 - 0 >>
        BY <3>5, <3>6, <3>9 DEF Quarter
      <4>q. QED  BY <2>1, <4>1 DEF Distance
    <3>q. QED  BY <2>7, <3>2, <3>7, <3>8, <3>9
  <2>q. QED  BY <2>10, <2>11
<1> HIDE DEF P
<1>3. T = {}
  <2>1. SUFFICES ASSUME T # {}  PROVE FALSE
    OBVIOUS
  <2>2. PICK k \in T : \A i \in T : k <= i
    BY <2>1, Least, T \in SUBSET Nat
  <2>3. k # 0
    BY <1>1, <2>2
  <2>4. k - 1 \in 0..(z - 1) /\ (k - 1) + 1 = k /\ ~(k <= k - 1)
    BY <2>2, <2>3
  <2>5. P(k - 1)
    BY <2>2, <2>4
  <2>q. QED  BY <1>2, <2>2, <2>4, <2>5
<1>q. QED  BY <1>3 DEF P

----------------------------------------------------------------------------
(* The levels behind each other. *)

\* The table tzValues: a level starts where the one below it ends.
LEMMA LevelStep ==
  /\ tzValues(0) = 0
  /\ \A z \in Nat : tzValues(z) \in Nat /\ tzValues(z + 1) = tzValues(z) + 2^z * 2^z
<1> DEFINE sq(z) == 2^z * 2^z
           T == { z \in Nat : ~ \E m \in Nat : sq(z) = 3 * m + 1 }
<1>1. sq(0) = 1
  BY PowerZero
<1>2. \A z \in Nat : sq(z) \in Nat /\ sq(z + 1) = 4 * sq(z)
  <2>1. ASSUME NEW z \in Nat  PROVE sq(z) \in Nat /\ sq(z + 1) = 4 * sq(z)
    <3> DEFINE s == 2^z
    <3>1. s \in Nat /\ 2^(z + 1) = 2 * s
      BY PowerPositive, PowerStep
    <3> HIDE DEF s
    <3>2. s * s \in Nat /\ (2 * s) * (2 * s) = 4 * (s * s)
      BY <3>1
    <3>q. QED  BY <3>1, <3>2 DEF s
  <2>q. QED  BY <2>1
<1>3. tzValues(0) = (sq(0) - 1) \div 3 /\ \A z \in Nat : tzValues(z) = (sq(z) - 1) \div 3
  BY DEF tzValues
<1> HIDE DEF sq
<1>4. T = {}
  <2>1. SUFFICES ASSUME T # {}  PROVE FALSE
    OBVIOUS
  <2>2. PICK z \in T : \A y \in T : z <= y
    BY <2>1, Least
  <2>3. z # 0
    <3>1. sq(0) = 3 * 0 + 1
      BY <1>1
    <3>q. QED  BY <2>2, <3>1
  <2>4. z - 1 \in Nat /\ (z - 1) + 1 = z /\ ~(z <= z - 1)
    BY <2>2, <2>3
  <2>5. PICK m \in Nat : sq(z - 1) = 3 * m + 1
    BY <2>2, <2>4
  <2>6. sq(z) = 4 * sq(z - 1)
    BY <1>2, <2>4
  <2>7. sq(z) = 3 * (4 * m + 1) + 1 /\ 4 * m + 1 \in Nat
    BY <2>5, <2>6
  <2>q. QED  BY <2>2, <2>7
<1>5. ASSUME NEW z \in Nat  PROVE tzValues(z) \in Nat /\ 3 * tzValues(z) + 1 = sq(z)
  <2>1. PICK m \in Nat : sq(z) = 3 * m + 1
    BY <1>4
  <2>q. QED  BY <1>3, <2>1
<1>6. ASSUME NEW z \in Nat  PROVE tzValues(z + 1) = tzValues(z) + sq(z)
  <2>1. 3 * tzValues(z + 1) + 1 = sq(z + 1) /\ 3 * tzValues(z) + 1 = sq(z) /\ sq(z + 1) = 4 * sq(z)
    BY <1>2, <1>5, z + 1 \in Nat
  <2>2. tzValues(z + 1) \in Nat /\ tzValues(z) \in Nat /\ sq(z) \in Nat
    BY <1>2, <1>5, z + 1 \in Nat
  <2> DEFINE a == tzValues(z)
             b == tzValues(z + 1)
             q == sq(z)
             r == sq(z + 1)
  <2>3. 3 * b + 1 = r /\ 3 * a + 1 = q /\ r = 4 * q /\ a \in Nat /\ b \in Nat /\ q \in Nat
    BY <2>1, <2>2
  <2> HIDE DEF a, b, q, r
  <2>4. b = a + q
    BY <2>3
  <2>q. QED  BY <2>4 DEF a, b, q
<1>7. tzValues(0) = 0
  BY <1>1, <1>3
<1>8. \A z \in Nat : tzValues(z) \in Nat /\ tzValues(z + 1) = tzValues(z) + sq(z)
  BY <1>5, <1>6
<1>q. QED  BY <1>7, <1>8 DEF sq

\* Later levels start after earlier ones end.
LEMMA LevelsApart ==
  ASSUME NEW a \in Nat, NEW b \in Nat, a < b
  PROVE  tzValues(a) + 2^a * 2^a <= tzValues(b)
<1> DEFINE T == { n \in Nat : n > a /\ ~(tzValues(a + 1) <= tzValues(n)) }
<1>1. T = {}
  <2>1. SUFFICES ASSUME T # {}  PROVE FALSE
    OBVIOUS
  <2>2. PICK n \in T : \A y \in T : n <= y
    BY <2>1, Least, T \in SUBSET Nat
  <2>3. tzValues(a + 1) \in Nat
    BY LevelStep, a + 1 \in Nat
  <2>4. n # a + 1
    BY <2>2, <2>3
  <2>5. n - 1 \in Nat /\ n - 1 > a /\ (n - 1) + 1 = n /\ ~(n <= n - 1)
    BY <2>2, <2>4
  <2>6. tzValues(a + 1) <= tzValues(n - 1)
    BY <2>2, <2>5
  <2>7. tzValues(n - 1) \in Nat /\ tzValues(n) = tzValues(n - 1) + 2^(n - 1) * 2^(n - 1)
    BY <2>5, LevelStep
  <2>8. 2^(n - 1) * 2^(n - 1) \in Nat
    BY <2>5, PowerSquare
  <2>9. tzValues(a + 1) <= tzValues(n)
    BY <2>3, <2>6, <2>7, <2>8
  <2>q. QED  BY <2>2, <2>9
<1>2. tzValues(a + 1) <= tzValues(b)
  BY <1>1
<1>q. QED  BY <1>2, LevelStep

\* The loop of tileIdToZxy() stops at the level that holds the id.
LEMMA LevelFound ==
  ASSUME NEW z \in 0..26, NEW n \in 0..(2^z * 2^z - 1)
  PROVE  tileIdToZxy(tzValues(z) + n) = << z, Walk(z, n)[z][1], Walk(z, n)[z][2] >>
<1> DEFINE i == tzValues(z) + n
           On(y) == tzValues(y) <= i /\ i < tzValues(y) + 2^y * 2^y
<1>1. z \in Nat /\ tzValues(z) \in Nat /\ 2^z * 2^z \in Nat /\ n \in Nat
  BY LevelStep, PowerSquare
<1>2. On(z)
  BY <1>1
<1>3. ASSUME NEW y \in 0..26, On(y)  PROVE y = z
  <2>1. y \in Nat /\ tzValues(y) \in Nat /\ 2^y * 2^y \in Nat
    BY LevelStep, PowerSquare
  <2>2. CASE y < z
    BY <1>1, <1>3, <2>1, <2>2, LevelsApart
  <2>3. CASE z < y
    BY <1>1, <1>3, <2>1, <2>3, LevelsApart
  <2>q. QED  BY <1>1, <2>1, <2>2, <2>3
<1>3a. i - tzValues(z) = n
  BY <1>1
<1>4. tileIdToZxy(i) = IF \E y \in 0..26 : On(y) THEN idOnLevel(CHOOSE y \in 0..26 : On(y), i - tzValues(CHOOSE y \in 0..26 : On(y))) ELSE Error
  BY DEF tileIdToZxy
<1> HIDE DEF On, i
<1>5. (CHOOSE y \in 0..26 : On(y)) = z
  BY <1>2, <1>3
<1>6. tileIdToZxy(i) = idOnLevel(z, i - tzValues(z))
  BY <1>2, <1>4, <1>5
<1>q. QED  BY <1>3a, <1>6 DEF idOnLevel, i

\* The tiles of the levels that have numbers.
TileInputs == UNION { [kind : {"tile"}, z : {z}, x : Grid(z), y : Grid(z)] : z \in 0..26 }

\* For every tile of the 27 levels that have tile ids, zxyToTileId() and tileIdToZxy() are
\* inverse, the id stays within its level, and the next id is a neighbouring tile.
THEOREM TileIdsFollowTheCurve == input \in TileInputs => TileIdsAreACurve
<1> SUFFICES ASSUME NEW z \in 0..26, input \in [kind : {"tile"}, z : {z}, x : Grid(z), y : Grid(z)]
             PROVE  TileIdsAreACurve
  BY DEF TileInputs
<1> DEFINE x == input.x
           y == input.y
           s == 2^z
           n == Count(z, x, y)[z].d
           id == tzValues(z) + n
<1>1. input.z = z /\ x \in Grid(z) /\ y \in Grid(z) /\ z \in Nat
  OBVIOUS
<1> HIDE DEF x, y
<1>2. s \in Nat /\ s > 0 /\ s * s \in Nat /\ tzValues(z) \in Nat /\ tzValues(z + 1) = tzValues(z) + s * s
  <2>1. s \in Nat /\ s > 0
    BY <1>1, PowerPositive, Zenon
  <2>2. s * s \in Nat /\ s * s > 0
    BY <1>1, PowerSquare, Zenon
  <2>3. tzValues(z) \in Nat /\ tzValues(z + 1) = tzValues(z) + s * s
    BY <1>1, LevelStep, Zenon
  <2>q. QED  BY <2>1, <2>2, <2>3
<1>3. n \in 0..(s * s - 1) /\ Walk(z, n)[z] = << x, y >>
  BY <1>1, WalkBack
<1>4. zxyToTileId(z, x, y) = id
  <2>1. ~(z > 26) /\ ~(x > s - 1) /\ ~(y > s - 1)
    BY <1>1, <1>2 DEF Grid
  <2>q. QED  BY <2>1 DEF zxyToTileId
<1>5. zxyToTileId(z, 2^z, y) = Error /\ zxyToTileId(z, x, 2^z) = Error
  <2>1. s > s - 1
    BY <1>2
  <2>q. QED  BY <2>1 DEF zxyToTileId
<1>6. tileIdToZxy(id) = << z, x, y >>
  <2>1. tileIdToZxy(id) = << z, Walk(z, n)[z][1], Walk(z, n)[z][2] >>
    BY <1>3, LevelFound
  <2>q. QED  BY <1>3, <2>1
<1>7. id \in tzValues(z)..(tzValues(z + 1) - 1)
  BY <1>2, <1>3
<1>8. ASSUME id + 1 < tzValues(z + 1)
      PROVE  LET next == tileIdToZxy(id + 1)
             IN  next[1] = z /\ Distance(next[2], x) + Distance(next[3], y) = 1
  <2>1. n + 1 \in 0..(s * s - 1) /\ id + 1 = tzValues(z) + (n + 1) /\ n \in Int
    BY <1>2, <1>3, <1>8
  <2>2. tileIdToZxy(id + 1) = << z, Walk(z, n + 1)[z][1], Walk(z, n + 1)[z][2] >>
    BY <2>1, LevelFound
  <2>3. (n + 1) % (s * s) # 0
    <3> DEFINE p == s * s
               m == n + 1
    <3>1. p \in Nat /\ p > 0 /\ m \in 1..(p - 1)
      BY <1>2, <1>3, <2>1
    <3> HIDE DEF p, m
    <3>2. Splits(m, p, 0, m)
      BY <3>1 DEF Splits
    <3>3. m % p = m
      BY <3>2, SplitsIs, Zenon
    <3>4. m % p # 0
      BY <3>1, <3>3
    <3>q. QED  BY <3>4 DEF p, m
  <2>4. Distance(Walk(z, n + 1)[z][1], Walk(z, n)[z][1]) + Distance(Walk(z, n + 1)[z][2], Walk(z, n)[z][2]) = 1
    BY <1>1, <2>1, <2>3, WalkNeighbours, z \in 0..z
  <2> HIDE DEF n
  <2>q. QED  BY <1>3, <2>2, <2>4
<1> HIDE DEF id
<1>q. QED  BY <1>1, <1>4, <1>5, <1>6, <1>7, <1>8 DEF TileIdsAreACurve, x, y

----------------------------------------------------------------------------
(* No number is left out. *)

\* A quarter and a place within it are known by where they lead.
LEMMA QuarterTells ==
  ASSUME NEW s \in Nat, s > 0, NEW q \in 0..3, NEW t \in 0..3,
         NEW x \in 0..(s - 1), NEW y \in 0..(s - 1), NEW v \in 0..(s - 1), NEW w \in 0..(s - 1),
         Quarter(s, q, x, y) = Quarter(s, t, v, w)
  PROVE  q = t /\ x = v /\ y = w
<1> DEFINE a == Quarter(s, q, x, y)[1]
           b == Quarter(s, q, x, y)[2]
           c == Quarter(s, t, v, w)[1]
           d == Quarter(s, t, v, w)[2]
<1>1. a = c /\ b = d
  OBVIOUS
<1>2. /\ q = 0 => a = y /\ b = x
      /\ q = 1 => a = x /\ b = s + y
      /\ q = 2 => a = s + x /\ b = s + y
      /\ q = 3 => a = 2 * s - 1 - y /\ b = s - 1 - x
  BY DEF Quarter
<1>3. /\ t = 0 => c = w /\ d = v
      /\ t = 1 => c = v /\ d = s + w
      /\ t = 2 => c = s + v /\ d = s + w
      /\ t = 3 => c = 2 * s - 1 - w /\ d = s - 1 - v
  BY DEF Quarter
<1> HIDE DEF a, b, c, d
<1>4. CASE q = 0
  BY <1>1, <1>2, <1>3, <1>4
<1>5. CASE q = 1
  BY <1>1, <1>2, <1>3, <1>5
<1>6. CASE q = 2
  BY <1>1, <1>2, <1>3, <1>6
<1>7. CASE q = 3
  BY <1>1, <1>2, <1>3, <1>7
<1>q. QED  BY <1>4, <1>5, <1>6, <1>7

\* idOnLevel() leads different numbers to different places.
LEMMA WalkTells ==
  ASSUME NEW z \in Nat, NEW a \in Int, NEW b \in Int
  PROVE  \A k \in 0..z : Walk(z, a)[k] = Walk(z, b)[k] => a % (2^k * 2^k) = b % (2^k * 2^k)
<1> DEFINE P(k) == Walk(z, a)[k] = Walk(z, b)[k] => a % (2^k * 2^k) = b % (2^k * 2^k)
           T == { k \in 0..z : ~P(k) }
<1>1. P(0)
  <2>1. 2^0 = 1 /\ a % (1 * 1) = 0 /\ b % (1 * 1) = 0
    BY PowerZero
  <2>q. QED  BY <2>1
<1>2. ASSUME NEW k \in 0..(z - 1), P(k)  PROVE P(k + 1)
  <2> DEFINE s == 2^k
             p == s * s
             q == (a \div p) % 4
             t == (b \div p) % 4
  <2>1. s \in Nat /\ s > 0 /\ p \in Nat /\ p > 0 /\ 2^(k + 1) = 2 * s
    BY PowerPositive, PowerSquare, PowerStep
  <2>2. PICK x \in Int, y \in Int : Walk(z, a)[k] = << x, y >> /\ InSquare(s, p, a, x, y)
    BY WalkInSquare, k \in 0..z
  <2>3. PICK v \in Int, w \in Int : Walk(z, b)[k] = << v, w >> /\ InSquare(s, p, b, v, w)
    BY WalkInSquare, k \in 0..z
  <2>4. Walk(z, a)[k + 1] = Quarter(s, q, x, y) /\ Walk(z, b)[k + 1] = Quarter(s, t, v, w)
    <3>1. WalksTo(z, a, k, x, y) /\ WalksTo(z, b, k, v, w)
      BY <2>2, <2>3 DEF WalksTo
    <3>2. StepsOn(z, a, k, x, y) /\ StepsOn(z, b, k, v, w)
      BY <3>1, WalkStep, Zenon
    <3>q. QED  BY <3>2 DEF StepsOn
  <2>5. (2 * s) * (2 * s) = 4 * p
    BY <2>1
  <2>6. x = v /\ y = w => a % p = b % p
    BY <1>2, <2>2, <2>3
  <2> HIDE DEF s, p
  <2>7. q \in 0..3 /\ a % (4 * p) = p * q + (a % p) /\ t \in 0..3 /\ b % (4 * p) = p * t + (b % p)
    BY <2>1, ModFour
  <2>8. x \in 0..(s - 1) /\ y \in 0..(s - 1) /\ v \in 0..(s - 1) /\ w \in 0..(s - 1)
    BY <2>2, <2>3 DEF InSquare
  <2> HIDE DEF q, t
  <2>9. ASSUME Quarter(s, q, x, y) = Quarter(s, t, v, w)
        PROVE  a % (4 * p) = b % (4 * p)
    <3>1. q = t /\ x = v /\ y = w
      BY <2>1, <2>7, <2>8, <2>9, QuarterTells
    <3>q. QED  BY <2>6, <2>7, <3>1
  <2>q. QED  BY <2>1, <2>4, <2>5, <2>9
<1> HIDE DEF P
<1>3. T = {}
  <2>1. SUFFICES ASSUME T # {}  PROVE FALSE
    OBVIOUS
  <2>2. PICK k \in T : \A i \in T : k <= i
    BY <2>1, Least, T \in SUBSET Nat
  <2>3. k # 0
    BY <1>1, <2>2
  <2>4. k - 1 \in 0..(z - 1) /\ (k - 1) + 1 = k /\ ~(k <= k - 1)
    BY <2>2, <2>3
  <2>5. P(k - 1)
    BY <2>2, <2>4
  <2>q. QED  BY <1>2, <2>2, <2>4, <2>5
<1>q. QED  BY <1>3 DEF P

\* The converse: every id of a level is the id of a tile, the one tileIdToZxy() leads to, so
\* zxyToTileId() leaves no gap.
THEOREM EveryTileIdIsATile ==
  ASSUME NEW z \in 0..26, NEW i \in tzValues(z)..(tzValues(z + 1) - 1)
  PROVE  \E x, y \in Grid(z) : tileIdToZxy(i) = << z, x, y >> /\ zxyToTileId(z, x, y) = i
<1> DEFINE s == 2^z
           p == s * s
           n == i - tzValues(z)
<1>1. z \in Nat /\ s \in Nat /\ s > 0 /\ p \in Nat /\ p > 0 /\ tzValues(z) \in Nat /\ tzValues(z + 1) = tzValues(z) + p
  BY PowerPositive, PowerSquare, LevelStep
<1>2. n \in 0..(p - 1) /\ i = tzValues(z) + n /\ i \in Int
  BY <1>1
<1>3. tileIdToZxy(tzValues(z) + n) = << z, Walk(z, n)[z][1], Walk(z, n)[z][2] >>
  BY <1>2, LevelFound
<1>4. PICK x \in Int, y \in Int : Walk(z, n)[z] = << x, y >> /\ InSquare(s, p, n, x, y)
  BY <1>1, <1>2, WalkInSquare, z \in 0..z, n \in Int
<1>5. x \in Grid(z) /\ y \in Grid(z)
  BY <1>4 DEF InSquare, Grid
<1> DEFINE m == Count(z, x, y)[z].d
<1>6. m \in 0..(p - 1) /\ Walk(z, m)[z] = << x, y >>
  BY <1>1, <1>5, WalkBack
<1> HIDE DEF m, n, p, s
<1>7. m % p = n % p
  <2>1. m \in Int /\ n \in Int
    BY <1>2, <1>6
  <2>2. Walk(z, m)[z] = Walk(z, n)[z]
    BY <1>4, <1>6
  <2>3. m % (2^z * 2^z) = n % (2^z * 2^z)
    BY <1>1, <2>1, <2>2, WalkTells, z \in 0..z
  <2>q. QED  BY <2>3 DEF p, s
<1>8. m = n
  <2>1. Splits(m, p, 0, m) /\ Splits(n, p, 0, n)
    BY <1>1, <1>2, <1>6 DEF Splits
  <2>2. m % p = m /\ n % p = n
    BY <2>1, SplitsIs, Zenon
  <2>q. QED  BY <1>7, <2>2
<1>9. zxyToTileId(z, x, y) = tzValues(z) + m
  <2>1. ~(z > 26) /\ ~(x > s - 1) /\ ~(y > s - 1)
    BY <1>1, <1>5 DEF Grid, s
  <2>q. QED  BY <2>1 DEF zxyToTileId, m, s
<1>q. QED  BY <1>2, <1>3, <1>4, <1>5, <1>8, <1>9

----------------------------------------------------------------------------
(* The largest and the smallest element, and the bytes of a number. *)

\* An element that no other exceeds is the maximum.
LEMMA MaxIs ==
  ASSUME NEW S \in SUBSET Int, NEW x \in S, \A y \in S : y <= x
  PROVE  Max(S) = x
<1>1. \A y \in S : x >= y
  OBVIOUS
<1>2. \A u \in S : (\A y \in S : u >= y) => u = x
  OBVIOUS
<1>q. QED  BY <1>1, <1>2, Zenon DEF Max

\* An element that exceeds no other is the minimum.
LEMMA MinIs ==
  ASSUME NEW S \in SUBSET Int, NEW x \in S, \A y \in S : x <= y
  PROVE  Min(S) = x
<1>2. \A u \in S : (\A y \in S : u <= y) => u = x
  OBVIOUS
<1>q. QED  BY <1>2, Zenon DEF Min

\* A set of naturals below a bound has a last element.
LEMMA MaxIn ==
  ASSUME NEW N \in Nat, NEW S \in SUBSET (0..N), S # {}
  PROVE  Max(S) \in S /\ \A y \in S : y <= Max(S)
<1> DEFINE T == { k \in 0..N : N - k \in S }
<1>1. PICK y \in S : TRUE
  OBVIOUS
<1>2. N - y \in T
  <2>1. N - y \in 0..N /\ N - (N - y) = y
    BY <1>1
  <2>q. QED  BY <1>1, <2>1
<1>3. PICK k \in T : \A j \in T : k <= j
  BY <1>2, Least, T \in SUBSET Nat
<1>4. ASSUME NEW u \in S  PROVE u <= N - k
  <2>1. N - u \in 0..N /\ N - (N - u) = u
    OBVIOUS
  <2>2. k <= N - u
    BY <1>3, <2>1
  <2>q. QED  BY <1>3, <2>2
<1>5. N - k \in S
  BY <1>3
<1>q. QED  BY <1>4, <1>5, MaxIs

\* A set of naturals has its minimum.
LEMMA MinIn ==
  ASSUME NEW S \in SUBSET Nat, S # {}
  PROVE  Min(S) \in S /\ \A y \in S : Min(S) <= y
<1>1. PICK k \in S : \A j \in S : k <= j
  BY Least
<1>q. QED  BY <1>1, MinIs

----------------------------------------------------------------------------
(* LEB128. *)

\* The bits of n that the k-th byte of its code holds.
Part(n, k) == { b \in 0..6 : b + (7 * k - 7) \in n }

\* The shape of a code: seven bits a byte, and the highest bit marks that a byte follows.
IsCode(code, n) ==
  /\ Len(code) \in 1..10
  /\ code \in [1..Len(code) -> SUBSET (0..7)]
  /\ \A k \in 1..Len(code) : code[k] \ {7} = Part(n, k) /\ (7 \in code[k] <=> k < Len(code))
  /\ \A b \in n : b < 7 * Len(code)

\* A byte of the writer without the mark of a further byte.
LEMMA ByteIs ==
  ASSUME NEW n \in SUBSET (0..63), NEW k \in 1..10
  PROVE  Shl(n \intersect ((7 * k - 7)..(7 * k - 1)), 7 - 7 * k) = Part(n, k)
<1>1. ASSUME NEW b \in Shl(n \intersect ((7 * k - 7)..(7 * k - 1)), 7 - 7 * k)  PROVE b \in Part(n, k)
  <2>1. PICK c \in n \intersect ((7 * k - 7)..(7 * k - 1)) : b = c + (7 - 7 * k)
    BY <1>1 DEF Shl
  <2>2. b \in 0..6 /\ b + (7 * k - 7) = c
    BY <2>1
  <2>q. QED  BY <2>1, <2>2 DEF Part
<1>2. ASSUME NEW b \in Part(n, k)  PROVE b \in Shl(n \intersect ((7 * k - 7)..(7 * k - 1)), 7 - 7 * k)
  <2>1. b \in 0..6 /\ b + (7 * k - 7) \in n
    BY <1>2 DEF Part
  <2> DEFINE c == b + (7 * k - 7)
  <2>2. c \in (7 * k - 7)..(7 * k - 1) /\ c + (7 - 7 * k) = b
    BY <2>1
  <2>q. QED  BY <2>1, <2>2 DEF Shl
<1>q. QED  BY <1>1, <1>2

\* The writer writes such a code, of ten bytes at most.
LEMMA CodeIs ==
  ASSUME NEW n \in SUBSET (0..63)
  PROVE  IsCode(LEB128(n), n)
<1> DEFINE L == IF n = {} THEN 1 ELSE (Max(n) \div 7) + 1
           byte(k) == Shl(n \intersect ((7 * k - 7)..(7 * k - 1)), 7 - 7 * k)
                      \union (IF k < L THEN {7} ELSE {})
<1>1. L \in 1..10 /\ \A b \in n : b < 7 * L
  <2>1. CASE n = {}
    BY <2>1
  <2>2. CASE n # {}
    <3>1. Max(n) \in n /\ \A b \in n : b <= Max(n)
      BY <2>2, MaxIn, 63 \in Nat
    <3> DEFINE m == Max(n)
    <3>2. m \in 0..63 /\ m \in Int
      <4>1. m \in 0..63  BY <3>1
      <4>q. QED  BY <4>1
    <3> HIDE DEF m
    <3>3. m \div 7 \in 0..9 /\ m < 7 * ((m \div 7) + 1)
      BY <3>2
    <3>4. \A b \in n : b \in Int /\ b <= m
      BY <3>1 DEF m
    <3>5. \A b \in n : b < 7 * ((m \div 7) + 1)
      BY <3>2, <3>3, <3>4
    <3>q. QED  BY <2>2, <3>3, <3>5 DEF m
  <2>q. QED  BY <2>1, <2>2
<1>2. LEB128(n) = [k \in 1..L |-> byte(k)]
  BY DEF LEB128
<1> HIDE DEF L
<1>3. ASSUME NEW k \in 1..L
      PROVE  byte(k) \in SUBSET (0..7) /\ byte(k) \ {7} = Part(n, k) /\ (7 \in byte(k) <=> k < L)
  <2>1. k \in 1..10
    BY <1>1
  <2>2. byte(k) = Part(n, k) \union (IF k < L THEN {7} ELSE {})
    BY <2>1, ByteIs
  <2>3. Part(n, k) \subseteq 0..6
    BY DEF Part
  <2> HIDE DEF byte
  <2>q. QED  BY <2>2, <2>3
<1> HIDE DEF byte
<1>4. Len(LEB128(n)) = L /\ LEB128(n) \in [1..L -> SUBSET (0..7)] /\ \A k \in 1..L : LEB128(n)[k] = byte(k)
  BY <1>1, <1>2, <1>3
<1>q. QED  BY <1>1, <1>3, <1>4 DEF IsCode

\* What the reader takes from a buffer that starts with the code.
StartsWith(buf, code) == \A k \in 1..Len(code) : ByteAt(buf, k) = code[k]

\* readVarint() takes the seven bits of a byte.
LEMMA GroupIs ==
  ASSUME NEW n \in SUBSET (0..63), NEW code, IsCode(code, n), NEW buf, StartsWith(buf, code),
         NEW k \in 1..Len(code)
  PROVE  Group(buf, k) = Part(n, k) /\ Group(buf, 1 + k - 1) = Part(n, k)
<1>1. 1 + k - 1 = k /\ k \in Int
  BY DEF IsCode
<1>2. Group(buf, k) = Part(n, k)
  BY DEF Group, StartsWith, IsCode
<1>q. QED  BY <1>1, <1>2

\* The first byte without its highest bit is the last of the code.
LEMMA EndIs ==
  ASSUME NEW n \in SUBSET (0..63), NEW code, IsCode(code, n), NEW buf, StartsWith(buf, code)
  PROVE  LET ends == { k \in 1..10 : 7 \notin ByteAt(buf, 1 + k - 1) }
         IN  ends # {} /\ Min(ends) = Len(code)
<1> DEFINE ends == { k \in 1..10 : 7 \notin ByteAt(buf, 1 + k - 1) }
           L == Len(code)
<1>1. L \in 1..10
  BY DEF IsCode
<1>2. \A k \in 1..10 : 1 + k - 1 = k
  OBVIOUS
<1>3. \A k \in 1..L : 7 \in ByteAt(buf, k) <=> k < L
  BY DEF IsCode, StartsWith
<1> HIDE DEF L
<1>4. L \in ends
  BY <1>1, <1>2, <1>3
<1>5. ASSUME NEW k \in ends  PROVE L <= k
  <2>1. k \in 1..10 /\ 7 \notin ByteAt(buf, k)
    BY <1>2
  <2>q. QED  BY <1>1, <1>3, <2>1
<1>6. ends \in SUBSET Int
  OBVIOUS
<1> HIDE DEF ends
<1>7. ends # {} /\ Min(ends) = L
  BY <1>4, <1>5, <1>6, MinIs
<1>q. QED  BY <1>7 DEF ends, L

\* The lower 32 bits as readVarint() puts them together.
Low(buf, n) == (UNION { Shl(Group(buf, 1 + k - 1), 7 * (k - 1)) : k \in 1..Min({n, 5}) }) \intersect 0..31

\* The first four bytes and the low half of the fifth.
LEMMA LowIs ==
  ASSUME NEW n \in SUBSET (0..63), NEW code, IsCode(code, n), NEW buf, StartsWith(buf, code)
  PROVE  Low(buf, Len(code)) = n \intersect 0..31
<1> DEFINE L == Len(code)
           M == Min({L, 5})
           low == UNION { Shl(Group(buf, 1 + k - 1), 7 * (k - 1)) : k \in 1..M }
<1>1. L \in 1..10 /\ \A b \in n : b < 7 * L
  BY DEF IsCode
<1> HIDE DEF L
<1>2. M \in 1..5 /\ M <= L /\ (M = L \/ M = 5)
  <2>1. CASE L <= 5
    <3>1. M = L  BY <1>1, <2>1, MinIs
    <3>q. QED  BY <1>1, <2>1, <3>1
  <2>2. CASE ~(L <= 5)
    <3>1. M = 5  BY <1>1, <2>2, MinIs
    <3>q. QED  BY <1>1, <2>2, <3>1
  <2>q. QED  BY <2>1, <2>2
<1> HIDE DEF M
<1>3. \A k \in 1..M : k \in 1..Len(code) /\ Group(buf, 1 + k - 1) = Part(n, k)
  BY <1>1, <1>2, GroupIs DEF L
<1>4. ASSUME NEW b \in low \intersect 0..31  PROVE b \in n
  <2>1. PICK k \in 1..M : b \in Shl(Part(n, k), 7 * (k - 1))
    BY <1>3, <1>4
  <2>2. PICK c \in Part(n, k) : b = c + 7 * (k - 1)
    BY <2>1 DEF Shl
  <2>3. c \in 0..6 /\ c + (7 * k - 7) \in n
    BY <2>2 DEF Part
  <2>4. b = c + (7 * k - 7)
    BY <1>2, <2>2, <2>3
  <2>q. QED  BY <2>3, <2>4
<1>5. ASSUME NEW b \in n \intersect 0..31  PROVE b \in low
  <2> DEFINE k == (b \div 7) + 1
             c == b % 7
  <2>1. c \in 0..6 /\ k \in 1..5 /\ b = c + (7 * k - 7) /\ b = c + 7 * (k - 1)
    OBVIOUS
  <2>2. b < 7 * L
    BY <1>1
  <2> HIDE DEF k, c
  <2>3. k \in 1..M
    BY <1>1, <1>2, <2>1, <2>2
  <2>4. c \in Part(n, k)
    BY <2>1 DEF Part
  <2>5. b \in Shl(Group(buf, 1 + k - 1), 7 * (k - 1))
    BY <1>3, <2>1, <2>3, <2>4 DEF Shl
  <2>q. QED  BY <2>3, <2>5
<1>q. QED  BY <1>4, <1>5 DEF Low, low, M, L

\* The upper bits as readVarintRemainder() puts them together.
High(buf, n) ==
  Shl(Group(buf, 1 + 4) \ (0..3), -4)
  \union UNION { Shl(Group(buf, 1 + k - 1) \intersect (IF k = 10 THEN {0} ELSE 0..6), 7 * k - 39) : k \in 6..n }

\* The upper half of the fifth byte and the bytes after it.
LEMMA HighIs ==
  ASSUME NEW n \in SUBSET (0..63), NEW code, IsCode(code, n), NEW buf, StartsWith(buf, code), Len(code) >= 5
  PROVE  Shl(High(buf, Len(code)), 32) = n \intersect 32..63
<1> DEFINE L == Len(code)
           Fifth == Shl(Part(n, 5) \ (0..3), -4)
           Byte(k) == Shl(Part(n, k) \intersect (IF k = 10 THEN {0} ELSE 0..6), 7 * k - 39)
           H == High(buf, L)
<1>1. L \in 5..10 /\ \A b \in n : b < 7 * L
  <2>1. Len(code) \in 1..10 /\ \A b \in n : b < 7 * Len(code)
    BY Zenon DEF IsCode
  <2>2. Len(code) \in 5..10
    <3> DEFINE l == Len(code)
    <3>1. l \in 1..10 /\ l >= 5
      BY <2>1
    <3> HIDE DEF l
    <3>2. l \in 5..10
      BY <3>1
    <3>q. QED  BY <3>2 DEF l
  <2>q. QED  BY <2>1, <2>2, Zenon
<1>2. \A k \in 5..L : Group(buf, k) = Part(n, k) /\ Group(buf, 1 + k - 1) = Part(n, k)
  BY <1>1, GroupIs
<1> HIDE DEF L
<1>3. Group(buf, 1 + 4) = Part(n, 5)
  BY <1>1, <1>2, 1 + 4 = 5
<1>4. H = Fifth \union UNION { Byte(k) : k \in 6..L }
  <2> DEFINE Read(k) == Shl(Group(buf, 1 + k - 1) \intersect (IF k = 10 THEN {0} ELSE 0..6), 7 * k - 39)
  <2>0. \A k \in 6..L : Read(k) = Byte(k)
    <3>1. \A k \in 6..L : k \in 5..L
      BY <1>1
    <3>q. QED  BY <1>2, <3>1, Zenon
  <2> HIDE DEF Read, Byte
  <2>1a. { Read(k) : k \in 6..L } = { Byte(k) : k \in 6..L }
    BY <2>0
  <2>1. { Shl(Group(buf, 1 + k - 1) \intersect (IF k = 10 THEN {0} ELSE 0..6), 7 * k - 39) : k \in 6..L }
          = { Byte(k) : k \in 6..L }
    BY <2>1a DEF Read
  <2>q. QED  BY <1>3, <2>1 DEF High
<1>5. ASSUME NEW b \in Shl(H, 32)  PROVE b \in n /\ b \in 32..63
  <2>1. PICK h \in H : b = h + 32
    BY <1>5 DEF Shl
  <2>2. CASE h \in Fifth
    <3>1. PICK c \in Part(n, 5) \ (0..3) : h = c + (-4)
      BY <2>2 DEF Shl
    <3>2. c \in 0..6 /\ c \notin 0..3 /\ c + (7 * 5 - 7) \in n
      BY <3>1 DEF Part
    <3>3. b = c + (7 * 5 - 7) /\ b \in 32..63
      BY <2>1, <3>1, <3>2
    <3>q. QED  BY <3>2, <3>3
  <2>3. CASE h \notin Fifth
    <3>1. PICK k \in 6..L : h \in Byte(k)
      BY <1>4, <2>1, <2>3
    <3>2. PICK c \in Part(n, k) : h = c + (7 * k - 39)
      BY <3>1 DEF Shl
    <3>3. c \in 0..6 /\ c + (7 * k - 7) \in n
      BY <3>2 DEF Part
    <3>4. b = c + (7 * k - 7) /\ b >= 32
      BY <1>1, <2>1, <3>2, <3>3
    <3>5. b \in n /\ b \in 0..63
      BY <3>3, <3>4
    <3> HIDE DEF H
    <3>6. b \in 32..63
      <4>1. b \in 0..63 /\ b >= 32
        BY <3>4, <3>5
      <4>q. QED  BY <4>1
    <3>q. QED  BY <3>3, <3>4, <3>6
  <2>q. QED  BY <2>2, <2>3
<1>6. ASSUME NEW b \in n, b \in 32..63  PROVE b \in Shl(H, 32)
  <2> DEFINE k == (b \div 7) + 1
             c == b % 7
  <2>1. c \in 0..6 /\ k \in 5..10 /\ b = c + (7 * k - 7) /\ (k = 5 => c \notin 0..3) /\ (k = 10 => c = 0)
    BY <1>6
  <2>2. b < 7 * L
    BY <1>1
  <2> HIDE DEF k, c
  <2>3. k \in 5..L
    BY <1>1, <2>1, <2>2
  <2>4. c \in Part(n, k)
    BY <2>1 DEF Part
  <2>5. CASE k = 5
    <3>1. c + (-4) \in Fifth
      BY <2>1, <2>4, <2>5 DEF Shl
    <3>2. b = (c + (-4)) + 32
      BY <2>1, <2>5
    <3>q. QED  BY <1>4, <3>1, <3>2 DEF Shl
  <2>6. CASE k # 5
    <3>0. k \in 6..L
      BY <2>3, <2>6
    <3>1. c + (7 * k - 39) \in Byte(k)
      BY <2>1, <2>4 DEF Shl
    <3>2. b = (c + (7 * k - 39)) + 32
      BY <2>1
    <3>3. c + (7 * k - 39) \in H
      BY <1>4, <3>0, <3>1
    <3>q. QED  BY <3>2, <3>3 DEF Shl
  <2>q. QED  BY <2>5, <2>6
<1>q. QED  BY <1>5, <1>6 DEF L, H

\* What readVarint() makes of a buffer that starts with the code of n.
LEMMA ReadsCode ==
  ASSUME NEW n \in SUBSET (0..63), NEW code, IsCode(code, n), NEW buf, StartsWith(buf, code)
  PROVE  readVarint(buf, 1) =
           [num |-> IF n # {} /\ Max(n) - Min(n) > 52 THEN Rounded ELSE n, next |-> 1 + Len(code)]
<1> DEFINE L == Len(code)
           ends == { k \in 1..10 : 7 \notin ByteAt(buf, 1 + k - 1) }
           low == Low(buf, L)
           whole == IF n # {} /\ Max(n) - Min(n) > 52 THEN Rounded ELSE n
<1>1. L \in 1..10 /\ \A b \in n : b < 7 * L
  BY DEF IsCode
<1>2. ends # {} /\ Min(ends) = L
  BY EndIs
<1>3. low = n \intersect 0..31
  BY LowIs
<1>4. readVarint(buf, 1) =
        [num |-> IF L < 5 THEN low ELSE readVarintRemainder(low, buf, 1, L), next |-> 1 + L]
  BY <1>2 DEF readVarint, Low
<1>5. CASE L < 5
  <2>1. \A b \in n : b \in 0..31
    BY <1>1, <1>5
  <2>2. low = n
    BY <1>3, <2>1
  <2>3. n # {} => ~(Max(n) - Min(n) > 52)
    <3>1. SUFFICES ASSUME n # {}  PROVE ~(Max(n) - Min(n) > 52)
      OBVIOUS
    <3>2. Max(n) \in n
      BY <3>1, MaxIn, 63 \in Nat
    <3>3. Min(n) \in n
      BY <3>1, MinIn
    <3>4. Max(n) \in 0..31 /\ Min(n) \in 0..31
      BY <2>1, <3>2, <3>3
    <3>q. QED  BY <3>4
  <2>4. whole = n
    BY <2>3
  <2> HIDE DEF whole, low, L
  <2>q. QED  BY <1>4, <1>5, <2>2, <2>4 DEF whole, L
<1>6. CASE ~(L < 5)
  <2>1. Shl(High(buf, L), 32) = n \intersect 32..63
    BY <1>1, <1>6, HighIs
  <2>2. readVarintRemainder(low, buf, 1, L) = toNum(low, High(buf, L))
    BY DEF readVarintRemainder, High
  <2>3. low \union Shl(High(buf, L), 32) = n
    <3>1. n = (n \intersect 0..31) \union (n \intersect 32..63)
      BY \A b \in 0..63 : b \in 0..31 \/ b \in 32..63
    <3> HIDE DEF low
    <3>q. QED  BY <1>3, <2>1, <3>1
  <2> HIDE DEF low, L
  <2>4. toNum(low, High(buf, L)) = whole
    BY <2>3 DEF toNum
  <2> HIDE DEF whole
  <2>q. QED  BY <1>4, <1>6, <2>2, <2>4 DEF whole, L
<1>q. QED  BY <1>5, <1>6

\* Every number of 64 bits.
VarintInputs == [kind : {"varint"}, bits : SUBSET (0..63)]

\* readVarint() reads every number of 64 bits that LEB128 can write: exactly if a double holds
\* it, as rounded if not, stopping behind it, and with an error if it is cut off.
THEOREM VarintsAreLEB128 == input \in VarintInputs => VarintIsLEB128
<1> SUFFICES ASSUME input \in VarintInputs  PROVE VarintIsLEB128
  OBVIOUS
<1> DEFINE n == input.bits
           code == LEB128(n)
           buf == code \o << {0} >>
<1>1. n \in SUBSET (0..63)
  BY DEF VarintInputs
<1> HIDE DEF n
<1>2. IsCode(code, n)
  BY <1>1, CodeIs
<1> HIDE DEF code
<1>3. Len(code) \in 1..10 /\ code \in [1..Len(code) -> SUBSET (0..7)]
  BY <1>2 DEF IsCode
<1>4. code \in Seq(SUBSET (0..7))
  BY <1>3 DEF Seq
<1>5. StartsWith(buf, code)
  <2>1. ASSUME NEW k \in 1..Len(code)  PROVE ByteAt(buf, k) = code[k]
    <3>1. << {0} >> \in Seq(SUBSET (0..7)) /\ Len(<< {0} >>) = 1
      OBVIOUS
    <3>2. Len(buf) = Len(code) + 1 /\ buf[k] = code[k]
      BY <1>4, <3>1
    <3>3. k <= Len(buf)
      BY <1>3, <3>2
    <3> HIDE DEF buf
    <3>q. QED  BY <3>2, <3>3 DEF ByteAt
  <2>q. QED  BY <2>1 DEF StartsWith
<1> HIDE DEF buf
<1>6. readVarint(buf, 1) =
        [num |-> IF n # {} /\ Max(n) - Min(n) > 52 THEN Rounded ELSE n, next |-> 1 + Len(code)]
  BY <1>1, <1>2, <1>5, ReadsCode
<1>7. ASSUME NEW k \in 0..(Len(code) - 1)  PROVE readVarint(SubSeq(code, 1, k), 1).num = Error
  <2> DEFINE cut == SubSeq(code, 1, k)
             ends == { j \in 1..10 : 7 \notin ByteAt(cut, 1 + j - 1) }
  <2>1. Len(cut) = k /\ \A j \in 1..k : cut[j] = code[j]
    BY <1>3, <1>4
  <2> HIDE DEF cut
  <2>2. ASSUME NEW j \in 1..10  PROVE 7 \in ByteAt(cut, j)
    <3>1. CASE j <= k
      <4>1. j \in 1..k /\ j \in 1..Len(code) /\ j < Len(code)
        BY <1>3, <3>1
      <4>2. 7 \in code[j]
        BY <1>2, <4>1 DEF IsCode
      <4>q. QED  BY <2>1, <3>1, <4>1, <4>2 DEF ByteAt
    <3>2. CASE ~(j <= k)
      BY <2>1, <3>2 DEF ByteAt
    <3>q. QED  BY <3>1, <3>2
  <2>3. \A j \in 1..10 : 1 + j - 1 = j
    OBVIOUS
  <2>4. ends = {}
    BY <2>2, <2>3
  <2>5. readVarint(cut, 1) = [num |-> Error, next |-> 1 + 10]
    BY <2>4 DEF readVarint
  <2>6. readVarint(cut, 1).num = Error
    BY <2>5
  <2>q. QED  BY <2>6 DEF cut
<1>8. readVarint(buf, 1).next = Len(code) + 1
  BY <1>3, <1>6
<1>9. readVarint(buf, 1).num = IF n # {} /\ Max(n) - Min(n) > 52 THEN Rounded ELSE n
  BY <1>6
<1>q. QED  BY <1>7, <1>8, <1>9 DEF VarintIsLEB128, n, code, buf

----------------------------------------------------------------------------
(* Directories of format 3: the search. *)

\* The entries of a directory: an id after the one before.
DirEntries == [tileId : Nat, runLength : Nat, length : Nat, offset : Nat]
Ascending(dir) == \A i, j \in DOMAIN dir : i < j => dir[i].tileId < dir[j].tileId

\* An entry of a directory.
LEMMA EntryTyped ==
  ASSUME NEW entries \in Seq(DirEntries), NEW j \in 1..Len(entries)
  PROVE  entries[j] \in DirEntries /\ entries[j].tileId \in Nat /\ entries[j].runLength \in Nat
         /\ entries[j].length \in Nat /\ entries[j].offset \in Nat
<1>1. entries[j] \in DirEntries
  OBVIOUS
<1>q. QED  BY <1>1 DEF DirEntries

\* The two ends m and n of a search.
Ranges == Int \X Int

\* A round of the search in findTile() leads to a range of positions.
LEMMA HalvedRange ==
  ASSUME NEW entries, NEW tileId, NEW m \in Int, NEW n \in Int
  PROVE  Halved(entries, tileId, m, n) \in Ranges
<1> DEFINE k == (n + m) \div 2
<1>1. k \in Int
  OBVIOUS
<1> HIDE DEF k
<1>2. Halved(entries, tileId, m, n) =
        IF m > n THEN << m, n >>
        ELSE IF tileId > entries[k].tileId THEN << k + 1, n >>
        ELSE IF tileId < entries[k].tileId THEN << m, k - 1 >>
        ELSE << k + 1, k >>
  BY DEF Halved, k
<1>q. QED  BY <1>1, <1>2 DEF Ranges

\* What a search has kept after each round.
LEMMA RangeIs ==
  ASSUME NEW N \in Nat, NEW h \in [0..N -> Ranges], NEW i \in 0..N
  PROVE  \E m, n \in Int : h[i] = << m, n >>
<1>1. h[i] \in Int \X Int
  BY DEF Ranges
<1> DEFINE a == h[i]
<1> HIDE DEF a
<1>2. a \in Int \X Int
  BY <1>1 DEF a
<1>3. a[1] \in Int /\ a[2] \in Int /\ a = << a[1], a[2] >>
  BY <1>2
<1>q. QED  BY <1>3 DEF a

\* The search in findTile() starts with the whole directory, and each round follows the one
\* before.
LEMMA SearchDef ==
  ASSUME NEW entries, Len(entries) \in Nat, NEW tileId
  PROVE  /\ Search(entries, tileId) \in [0..Len(entries) -> Ranges]
         /\ Search(entries, tileId)[0] = << 1, Len(entries) >>
         /\ \A i \in 1..Len(entries) :
              Search(entries, tileId)[i] =
                Halved(entries, tileId, Search(entries, tileId)[i - 1][1], Search(entries, tileId)[i - 1][2])
<1> DEFINE N == Len(entries)
           first == << 1, N >>
           Step(a) == Halved(entries, tileId, a[1], a[2])
           Is(g) == g = [i \in 0..N |-> IF i = 0 THEN first ELSE Step(g[i - 1])]
           F == [i \in 1..N |-> [a \in Ranges |-> Step(a)]]
<1>0. N \in Nat
  OBVIOUS
<1>1. \A a \in Ranges : Step(a) \in Ranges
  BY HalvedRange DEF Ranges
<1>2. first \in Ranges
  BY <1>0 DEF Ranges
<1>2a. Search(entries, tileId) = CHOOSE g : Is(g)
  BY DEF Search
<1> HIDE DEF N, first, Step
<1>2b. F \in Rounds(N, Ranges)
  BY <1>1 DEF Rounds
<1> HIDE DEF F
<1>3. PICK h : IsHistory(h, N, Ranges, first, F)
  BY <1>0, <1>2, <1>2b, History
<1>4. ASSUME NEW k \in 0..N  PROVE h[k] = IF k = 0 THEN first ELSE Step(h[k - 1])
  <2>1. CASE k = 0
    BY <1>3, <2>1 DEF IsHistory
  <2>2. CASE k # 0
    <3>1. k \in 1..N /\ k - 1 \in 0..N
      BY <1>0, <2>2
    <3>2. h[k - 1] \in Ranges
      BY <1>3, <3>1 DEF IsHistory
    <3>3. F[k][h[k - 1]] = Step(h[k - 1])
      BY <3>1, <3>2 DEF F
    <3>q. QED  BY <1>3, <2>2, <3>1, <3>3 DEF IsHistory
  <2>q. QED  BY <2>1, <2>2
<1>5. Is(h)
  BY <1>3, <1>4 DEF IsHistory
<1> HIDE DEF Is
<1>6. Is(Search(entries, tileId))
  BY <1>5, <1>2a
<1> DEFINE c == Search(entries, tileId)
<1> HIDE DEF c
<1>7. c = [i \in 0..N |-> IF i = 0 THEN first ELSE Step(c[i - 1])]
  BY <1>6 DEF Is, c
<1>8. c[0] = first /\ \A i \in 1..N : c[i] = Step(c[i - 1])
  BY <1>0, <1>7
<1> DEFINE T == { i \in 0..N : c[i] \notin Ranges }
<1>9. T = {}
  <2>1. SUFFICES ASSUME T # {}  PROVE FALSE
    OBVIOUS
  <2>2. PICK i \in T : \A j \in T : i <= j
    BY <2>1, Least, T \in SUBSET Nat
  <2>3. CASE i = 0
    BY <1>2, <1>8, <2>2, <2>3
  <2>4. CASE i # 0
    <3>1. i \in 1..N /\ i - 1 \in 0..N /\ ~(i <= i - 1)
      BY <1>0, <2>2, <2>4
    <3>2. c[i - 1] \in Ranges
      BY <2>2, <3>1
    <3>3. c[i] \in Ranges
      BY <1>1, <1>8, <3>1, <3>2
    <3>q. QED  BY <2>2, <3>3
  <2>q. QED  BY <2>3, <2>4
<1>10. c \in [0..N -> Ranges]
  BY <1>7, <1>9
<1>q. QED  BY <1>8, <1>10 DEF c, first, Step, N

\* The invariant of the search's loop: the entries before m are not after the id, those
\* after n are, and i rounds have left at most Len - i entries to look at.
Narrowed(entries, tileId, i, a) ==
  /\ 1 <= a[1] /\ a[1] <= a[2] + 1 /\ a[2] <= Len(entries) /\ a[2] - a[1] + 1 <= Len(entries) - i
  /\ \A j \in 1..Len(entries) : /\ j < a[1] => entries[j].tileId <= tileId
                                /\ j > a[2] => entries[j].tileId > tileId

\* A round of the search in findTile() keeps the loop's invariant and looks at one entry less.
LEMMA HalvedNarrows ==
  ASSUME NEW entries \in Seq(DirEntries), Ascending(entries), NEW tileId \in Int,
         NEW i \in 1..Len(entries), NEW m \in Int, NEW n \in Int, Narrowed(entries, tileId, i - 1, << m, n >>)
  PROVE  Narrowed(entries, tileId, i, Halved(entries, tileId, m, n))
<1> DEFINE N == Len(entries)
           id(j) == entries[j].tileId
           k == (n + m) \div 2
<1>1. N \in Nat /\ DOMAIN entries = 1..N /\ \A j \in 1..N : id(j) \in Nat
  BY EntryTyped
<1>2. \A j, l \in 1..N : j < l => id(j) < id(l)
  BY <1>1 DEF Ascending
<1>3. /\ 1 <= m /\ m <= n + 1 /\ n <= N /\ n - m + 1 <= N - (i - 1)
      /\ \A j \in 1..N : (j < m => id(j) <= tileId) /\ (j > n => id(j) > tileId)
  BY DEF Narrowed
<1>4. Halved(entries, tileId, m, n) =
        IF m > n THEN << m, n >>
        ELSE IF tileId > id(k) THEN << k + 1, n >>
        ELSE IF tileId < id(k) THEN << m, k - 1 >>
        ELSE << k + 1, k >>
  BY DEF Halved
<1>4a. i \in 1..N
  OBVIOUS
<1>4b. ~(m > n) => k \in m..n
  OBVIOUS
<1>4c. k \in Int
  OBVIOUS
<1>5. SUFFICES ASSUME NEW u \in Int, NEW v \in Int, Halved(entries, tileId, m, n) = << u, v >>,
                      \/ m > n /\ u = m /\ v = n
                      \/ ~(m > n) /\ tileId > id(k) /\ u = k + 1 /\ v = n
                      \/ ~(m > n) /\ tileId < id(k) /\ u = m /\ v = k - 1
                      \/ ~(m > n) /\ tileId = id(k) /\ u = k + 1 /\ v = k
               PROVE  Narrowed(entries, tileId, i, << u, v >>)
  <2>1. CASE m > n
    BY <1>4, <1>5, <2>1
  <2>2. CASE ~(m > n) /\ tileId > id(k)
    BY <1>4, <1>4c, <1>5, <2>2
  <2>3. CASE ~(m > n) /\ tileId < id(k)
    <3>1. id(k) \in Nat
      BY <1>1, <1>3, <1>4b, <2>3
    <3> HIDE DEF k, id
    <3>2. Halved(entries, tileId, m, n) = << m, k - 1 >>
      BY <1>4, <2>3, <3>1
    <3>q. QED  BY <1>4c, <1>5, <2>3, <3>2
  <2>4. CASE ~(m > n) /\ ~(tileId > id(k)) /\ ~(tileId < id(k))
    <3>1. id(k) \in Nat
      BY <1>1, <1>3, <1>4b, <2>4
    <3> HIDE DEF k, id
    <3>2. Halved(entries, tileId, m, n) = << k + 1, k >> /\ tileId = id(k)
      BY <1>4, <2>4, <3>1
    <3>q. QED  BY <1>4c, <1>5, <2>4, <3>2
  <2>q. QED  BY <2>1, <2>2, <2>3, <2>4
<1> HIDE DEF N, id, k
<1>6. ~(m > n) => k \in 1..N
  BY <1>1, <1>3, <1>4b
<1>7. 1 <= u /\ u <= v + 1 /\ v <= N /\ v - u + 1 <= N - i
  BY <1>1, <1>3, <1>4a, <1>4b, <1>4c, <1>5
<1>8. ASSUME NEW j \in 1..N  PROVE (j < u => id(j) <= tileId) /\ (j > v => id(j) > tileId)
  <2>0. id(j) \in Nat
    BY <1>1
  <2>1. CASE m > n /\ u = m /\ v = n
    BY <1>3, <2>1
  <2>2. CASE ~(m > n)
    <3>1. k \in 1..N /\ id(k) \in Nat
      BY <1>1, <1>6, <2>2
    <3>2. (j < k => id(j) < id(k)) /\ (k < j => id(k) < id(j)) /\ (j = k => id(j) = id(k))
      BY <1>2, <3>1
    <3>q. QED  BY <1>1, <1>3, <1>5, <2>0, <2>2, <3>1, <3>2
  <2>q. QED  BY <1>5, <2>1, <2>2
<1>q. QED  BY <1>7, <1>8 DEF Narrowed, N, id

\* The search stops at the last entry that is not after the id.
LEMMA ProbeIs ==
  ASSUME NEW entries \in Seq(DirEntries), Ascending(entries), NEW tileId \in Int
  PROVE  /\ Probe(entries, tileId) \in 0..Len(entries)
         /\ \A j \in 1..Len(entries) : entries[j].tileId <= tileId <=> j <= Probe(entries, tileId)
<1> DEFINE N == Len(entries)
           at == Search(entries, tileId)
<1>1. N \in Nat
  OBVIOUS
<1>2. at \in [0..N -> Ranges] /\ at[0] = << 1, N >>
      /\ \A i \in 1..N : at[i] = Halved(entries, tileId, at[i - 1][1], at[i - 1][2])
  BY <1>1, SearchDef
<1> DEFINE T == { i \in 0..N : ~Narrowed(entries, tileId, i, at[i]) }
<1> HIDE DEF at
<1>3. T = {}
  <2>1. SUFFICES ASSUME T # {}  PROVE FALSE
    OBVIOUS
  <2>2. PICK i \in T : \A j \in T : i <= j
    BY <2>1, Least, T \in SUBSET Nat
  <2>3. CASE i = 0
    <3>1. Narrowed(entries, tileId, 0, << 1, N >>)
      BY <1>1 DEF Narrowed
    <3>q. QED  BY <1>2, <2>2, <2>3, <3>1
  <2>4. CASE i # 0
    <3>1. i \in 1..N /\ i - 1 \in 0..N /\ ~(i <= i - 1)
      BY <2>2, <2>4
    <3>2. Narrowed(entries, tileId, i - 1, at[i - 1])
      BY <2>2, <3>1
    <3>3. PICK m \in Int, n \in Int : at[i - 1] = << m, n >>
      BY <1>1, <1>2, <3>1, RangeIs, Zenon
    <3>4. at[i] = Halved(entries, tileId, m, n)
      BY <1>2, <3>1, <3>3
    <3>5. Narrowed(entries, tileId, i, at[i])
      BY <3>1, <3>2, <3>3, <3>4, HalvedNarrows
    <3>q. QED  BY <2>2, <3>5
  <2>q. QED  BY <2>3, <2>4
<1>4. Narrowed(entries, tileId, N, at[N])
  BY <1>1, <1>3
<1>5. PICK m \in Int, n \in Int : at[N] = << m, n >>
  BY <1>1, <1>2 DEF Ranges
<1>6. Probe(entries, tileId) = n
  BY <1>5 DEF Probe, at
<1>7. \A j \in 1..N : entries[j].tileId \in Nat
  BY EntryTyped
<1>8. /\ 1 <= m /\ m <= n + 1 /\ n <= N /\ n - m + 1 <= N - N
      /\ \A j \in 1..N : (j < m => entries[j].tileId <= tileId) /\ (j > n => entries[j].tileId > tileId)
  BY <1>4, <1>5 DEF Narrowed
<1>9. m = n + 1 /\ n \in 0..N
  BY <1>1, <1>8
<1>q. QED  BY <1>1, <1>6, <1>7, <1>8, <1>9

----------------------------------------------------------------------------
(* Directories of format 3. *)

\* A directory of format 3.
DirectoryOf(dir) == dir \in Seq(DirEntries) /\ dir # << >> /\ Ascending(dir)

\* What the columns hold: the distance from the id before, and an offset or the mark that the
\* entry follows the one before.
Gap(dir, i) == dir[i].tileId - (IF i = 1 THEN 0 ELSE dir[i - 1].tileId)
Coded(dir, i) ==
  IF i > 1 /\ dir[i].offset = dir[i - 1].offset + dir[i - 1].length THEN 0 ELSE dir[i].offset + 1

\* Where serialize() puts the columns of a directory of n entries.
Columns(nums, dir, n) ==
  /\ nums \in Seq(Int) /\ Len(nums) = 1 + 4 * n /\ nums[1] = n
  /\ \A i \in 1..n : /\ nums[1 + i] = Gap(dir, i)
                      /\ nums[1 + n + i] = dir[i].runLength
                      /\ nums[1 + 2 * n + i] = dir[i].length
                      /\ nums[1 + 3 * n + i] = Coded(dir, i)

\* Where two columns lie behind each other.
LEMMA Appended ==
  ASSUME NEW s \in Seq(Int), NEW t \in Seq(Int)
  PROVE  /\ s \o t \in Seq(Int) /\ Len(s \o t) = Len(s) + Len(t)
         /\ \A i \in 1..Len(s) : (s \o t)[i] = s[i]
         /\ \A i \in 1..Len(t) : (s \o t)[Len(s) + i] = t[i]
OBVIOUS

\* The numbers of a directory, and where its columns lie.
Row(n, a, b, c, d) == << n >> \o a \o b \o c \o d
InRow(nums, n, a, b, c, d) ==
  /\ nums \in Seq(Int) /\ Len(nums) = 1 + 4 * n /\ nums[1] = n
  /\ \A i \in 1..n : nums[1 + i] = a[i] /\ nums[1 + n + i] = b[i]
                      /\ nums[1 + 2 * n + i] = c[i] /\ nums[1 + 3 * n + i] = d[i]

\* Where the four columns of a directory lie.
LEMMA FourColumns ==
  ASSUME NEW n \in Nat, NEW a \in [1..n -> Int], NEW b \in [1..n -> Int], NEW c \in [1..n -> Int],
         NEW d \in [1..n -> Int]
  PROVE  InRow(Row(n, a, b, c, d), n, a, b, c, d)
<1> DEFINE s0 == << n >>
           s1 == s0 \o a
           s2 == s1 \o b
           s3 == s2 \o c
           s4 == s3 \o d
<1>0. /\ a \in Seq(Int) /\ Len(a) = n /\ b \in Seq(Int) /\ Len(b) = n
      /\ c \in Seq(Int) /\ Len(c) = n /\ d \in Seq(Int) /\ Len(d) = n
      /\ s0 \in Seq(Int) /\ Len(s0) = 1 /\ s0[1] = n
  OBVIOUS
<1> HIDE DEF s0
<1>1. s1 \in Seq(Int) /\ Len(s1) = 1 + n /\ s1[1] = n /\ \A i \in 1..n : s1[1 + i] = a[i]
  <2>1. /\ s1 \in Seq(Int) /\ Len(s1) = Len(s0) + Len(a)
        /\ \A i \in 1..Len(s0) : s1[i] = s0[i]
        /\ \A i \in 1..Len(a) : s1[Len(s0) + i] = a[i]
    BY <1>0, Appended
  <2> HIDE DEF s1
  <2>q. QED  BY <1>0, <2>1
<1> HIDE DEF s1
<1>2. /\ s2 \in Seq(Int) /\ Len(s2) = 1 + 2 * n /\ s2[1] = n
      /\ \A i \in 1..n : s2[1 + i] = a[i] /\ s2[1 + n + i] = b[i]
  <2>1. /\ s2 \in Seq(Int) /\ Len(s2) = Len(s1) + Len(b)
        /\ \A i \in 1..Len(s1) : s2[i] = s1[i]
        /\ \A i \in 1..Len(b) : s2[Len(s1) + i] = b[i]
    BY <1>0, <1>1, Appended
  <2> HIDE DEF s2
  <2>2. \A i \in 1..n : 1 + i \in 1..Len(s1)
    BY <1>1
  <2>3. Len(s1) = 1 + n /\ Len(s2) = 1 + 2 * n /\ 1 \in 1..Len(s1)
    BY <1>0, <1>1, <2>1
  <2>4. s2[1] = n
    BY <1>1, <2>1, <2>3
  <2>5. ASSUME NEW i \in 1..n  PROVE s2[1 + i] = a[i]
    BY <1>1, <2>1, <2>2
  <2>6. ASSUME NEW i \in 1..n  PROVE s2[1 + n + i] = b[i]
    <3>1. i \in 1..Len(b) /\ Len(s1) + i = 1 + n + i
      BY <1>0, <2>3
    <3>q. QED  BY <2>1, <3>1
  <2>q. QED  BY <2>1, <2>3, <2>4, <2>5, <2>6
<1> HIDE DEF s2
<1>3. /\ s3 \in Seq(Int) /\ Len(s3) = 1 + 3 * n /\ s3[1] = n
      /\ \A i \in 1..n : s3[1 + i] = a[i] /\ s3[1 + n + i] = b[i] /\ s3[1 + 2 * n + i] = c[i]
  <2>1. /\ s3 \in Seq(Int) /\ Len(s3) = Len(s2) + Len(c)
        /\ \A i \in 1..Len(s2) : s3[i] = s2[i]
        /\ \A i \in 1..Len(c) : s3[Len(s2) + i] = c[i]
    BY <1>0, <1>2, Appended
  <2> HIDE DEF s3
  <2>2. \A i \in 1..n : 1 + i \in 1..Len(s2) /\ 1 + n + i \in 1..Len(s2)
    BY <1>2
  <2>3. 1 \in 1..Len(s2)
    BY <1>2
  <2>4. s3 \in Seq(Int) /\ Len(s3) = 1 + 3 * n /\ s3[1] = n
    BY <1>0, <1>2, <2>1, <2>3
  <2>5. ASSUME NEW i \in 1..n  PROVE s3[1 + i] = a[i] /\ s3[1 + n + i] = b[i] /\ s3[1 + 2 * n + i] = c[i]
    <3>1. s3[1 + i] = s2[1 + i] /\ s3[1 + n + i] = s2[1 + n + i]
      BY <2>1, <2>2
    <3>2. s3[1 + 2 * n + i] = c[i]
      BY <1>0, <1>2, <2>1
    <3>q. QED  BY <1>2, <3>1, <3>2
  <2>q. QED  BY <2>4, <2>5
<1> HIDE DEF s3
<1>4. /\ s4 \in Seq(Int) /\ Len(s4) = 1 + 4 * n /\ s4[1] = n
      /\ \A i \in 1..n : s4[1 + i] = a[i] /\ s4[1 + n + i] = b[i]
                          /\ s4[1 + 2 * n + i] = c[i] /\ s4[1 + 3 * n + i] = d[i]
  <2>1. /\ s4 \in Seq(Int) /\ Len(s4) = Len(s3) + Len(d)
        /\ \A i \in 1..Len(s3) : s4[i] = s3[i]
        /\ \A i \in 1..Len(d) : s4[Len(s3) + i] = d[i]
    BY <1>0, <1>3, Appended
  <2> HIDE DEF s4
  <2>2. \A i \in 1..n : 1 + i \in 1..Len(s3) /\ 1 + n + i \in 1..Len(s3) /\ 1 + 2 * n + i \in 1..Len(s3)
    BY <1>3
  <2>3. 1 \in 1..Len(s3)
    BY <1>3
  <2>4. \A i \in 1..n : s4[1 + 3 * n + i] = d[i]
    BY <1>0, <1>3, <2>1
  <2>5. s4 \in Seq(Int) /\ Len(s4) = 1 + 4 * n /\ s4[1] = n
    BY <1>0, <1>3, <2>1, <2>3
  <2>6. ASSUME NEW i \in 1..n  PROVE s4[1 + i] = a[i] /\ s4[1 + n + i] = b[i] /\ s4[1 + 2 * n + i] = c[i]
    <3>1. s4[1 + i] = s3[1 + i] /\ s4[1 + n + i] = s3[1 + n + i] /\ s4[1 + 2 * n + i] = s3[1 + 2 * n + i]
      BY <2>1, <2>2
    <3>q. QED  BY <1>3, <3>1
  <2>q. QED  BY <2>4, <2>5, <2>6
<1>q. QED  BY <1>4, Zenon DEF Row, InRow, s4, s3, s2, s1, s0

\* The writer puts the columns where deserializeIndex() looks for them.
LEMMA SerializeColumns ==
  ASSUME NEW dir, DirectoryOf(dir)
  PROVE  Len(dir) \in Nat /\ Len(dir) > 0 /\ Columns(serialize(dir), dir, Len(dir))
<1> DEFINE n == Len(dir)
           a == [i \in 1..n |-> Gap(dir, i)]
           b == [i \in 1..n |-> dir[i].runLength]
           c == [i \in 1..n |-> dir[i].length]
           d == [i \in 1..n |-> Coded(dir, i)]
<1>1. n \in Nat /\ n > 0 /\ dir \in Seq(DirEntries)
  BY DEF DirectoryOf
<1>2. \A i \in 1..n : /\ dir[i].tileId \in Nat /\ dir[i].runLength \in Nat
                      /\ dir[i].length \in Nat /\ dir[i].offset \in Nat
  BY <1>1, EntryTyped
<1>3. serialize(dir) = Row(n, a, b, c, d)
  BY DEF serialize, Row, Gap, Coded
<1> HIDE DEF n
<1>4. \A i \in 1..n : Gap(dir, i) \in Int /\ Coded(dir, i) \in Int
  BY <1>1, <1>2 DEF Gap, Coded
<1>5. a \in [1..n -> Int] /\ b \in [1..n -> Int] /\ c \in [1..n -> Int] /\ d \in [1..n -> Int]
  BY <1>1, <1>2, <1>4
<1>6. \A i \in 1..n : a[i] = Gap(dir, i) /\ b[i] = dir[i].runLength /\ c[i] = dir[i].length /\ d[i] = Coded(dir, i)
  OBVIOUS
<1> HIDE DEF a, b, c, d
<1> DEFINE nums == serialize(dir)
<1> HIDE DEF nums
<1>7. nums = Row(n, a, b, c, d)
  BY <1>3 DEF nums
<1>8. InRow(Row(n, a, b, c, d), n, a, b, c, d)
  BY <1>1, <1>5, FourColumns, Zenon
<1>9. Columns(nums, dir, n)
  BY <1>6, <1>7, <1>8 DEF Columns, InRow
<1>q. QED  BY <1>1, <1>9 DEF n, nums

\* The ids are the sums of the gaps.
LEMMA IdsAre ==
  ASSUME NEW dir, DirectoryOf(dir), NEW nums, Columns(nums, dir, Len(dir)), NEW id,
         id = CHOOSE g : g = [i \in 0..Len(dir) |-> IF i = 0 THEN 0 ELSE g[i - 1] + nums[1 + i]]
  PROVE  \A i \in 1..Len(dir) : id[i] = dir[i].tileId
<1> DEFINE n == Len(dir)
           E(g, i) == IF i = 0 THEN 0 ELSE g[i - 1] + nums[1 + i]
           Is(g) == g = [i \in 0..n |-> E(g, i)]
           before(i) == IF i = 0 THEN 0 ELSE dir[i].tileId
           h == [i \in 0..n |-> before(i)]
<1>1. n \in Nat /\ dir \in Seq(DirEntries)
  BY DEF DirectoryOf
<1>2. \A i \in 1..n : dir[i].tileId \in Nat
  BY <1>1, EntryTyped
<1>3. \A i \in 1..n : nums[1 + i] = Gap(dir, i)
  BY DEF Columns
<1>3a. id = CHOOSE g : Is(g)
  OBVIOUS
<1> HIDE DEF n
<1>4. ASSUME NEW i \in 0..n, NEW g, i # 0 => g[i - 1] = before(i - 1)  PROVE E(g, i) = before(i)
  <2>1. CASE i = 0
    BY <2>1
  <2>2. CASE i = 1
    <3>1. dir[1].tileId \in Nat /\ nums[1 + 1] = dir[1].tileId - 0
      BY <1>1, <1>2, <1>3, <2>2 DEF Gap
    <3>2. g[0] = 0
      BY <1>4, <2>2
    <3>3. E(g, i) = g[0] + nums[1 + 1]
      BY <2>2
    <3>q. QED  BY <2>2, <3>1, <3>2, <3>3
  <2>3. CASE i # 0 /\ i # 1
    <3>1. i \in 1..n /\ i - 1 \in 1..n /\ i - 1 # 0
      BY <1>1, <2>3
    <3>2. nums[1 + i] = dir[i].tileId - dir[i - 1].tileId
      BY <1>3, <2>3, <3>1 DEF Gap
    <3>3. dir[i].tileId \in Nat /\ dir[i - 1].tileId \in Nat
      BY <1>2, <3>1
    <3>4. g[i - 1] = dir[i - 1].tileId
      BY <1>4, <2>3, <3>1
    <3>q. QED  BY <2>3, <3>2, <3>3, <3>4
  <2>q. QED  BY <2>1, <2>2, <2>3
<1>4a. \A i \in 1..n : before(i) = dir[i].tileId
  BY <1>1
<1> HIDE DEF E, before
<1>5. ASSUME NEW i \in 0..n  PROVE h[i] = E(h, i)
  <2>1. i # 0 => h[i - 1] = before(i - 1)
    BY <1>1
  <2>2. h[i] = before(i)
    OBVIOUS
  <2> HIDE DEF h
  <2>q. QED  BY <1>4, <2>1, <2>2
<1>6. Is(h)
  BY <1>5
<1> HIDE DEF Is
<1>7. Is(id)
  BY <1>3a, <1>6
<1>8. \A i \in 0..n : id[i] = E(id, i)
  BY <1>7 DEF Is
<1> DEFINE T == { i \in 0..n : id[i] # before(i) }
<1>9. T = {}
  <2>1. SUFFICES ASSUME T # {}  PROVE FALSE
    OBVIOUS
  <2>2. PICK i \in T : \A j \in T : i <= j
    BY <2>1, Least, T \in SUBSET Nat
  <2>3. i # 0 => i - 1 \in 0..n /\ ~(i <= i - 1)
    BY <1>1, <2>2
  <2>4. i # 0 => id[i - 1] = before(i - 1)
    BY <2>2, <2>3
  <2>5. id[i] = before(i)
    BY <1>4, <1>8, <2>2, <2>4
  <2>q. QED  BY <2>2, <2>5
<1>10. ASSUME NEW i \in 1..n  PROVE id[i] = dir[i].tileId
  <2>1. i \in 0..n
    BY <1>1
  <2>q. QED  BY <1>4a, <1>9, <2>1
<1>q. QED  BY <1>10 DEF n

\* A zero stands for the offset behind the entry before.
LEMMA OffsetsAre ==
  ASSUME NEW dir, DirectoryOf(dir), NEW nums, Columns(nums, dir, Len(dir)), NEW off,
         off = CHOOSE g : g = [i \in 1..Len(dir) |->
                 IF nums[1 + 3 * Len(dir) + i] = 0 /\ i > 1
                 THEN g[i - 1] + nums[1 + 2 * Len(dir) + (i - 1)] ELSE nums[1 + 3 * Len(dir) + i] - 1]
  PROVE  \A i \in 1..Len(dir) : off[i] = dir[i].offset
<1> DEFINE n == Len(dir)
           E(g, i) == IF nums[1 + 3 * n + i] = 0 /\ i > 1
                      THEN g[i - 1] + nums[1 + 2 * n + (i - 1)] ELSE nums[1 + 3 * n + i] - 1
           Is(g) == g = [i \in 1..n |-> E(g, i)]
           h == [i \in 1..n |-> dir[i].offset]
<1>1. n \in Nat /\ dir \in Seq(DirEntries)
  BY DEF DirectoryOf
<1>2. \A i \in 1..n : dir[i].offset \in Nat /\ dir[i].length \in Nat
  BY <1>1, EntryTyped
<1>3. \A i \in 1..n : nums[1 + 2 * n + i] = dir[i].length /\ nums[1 + 3 * n + i] = Coded(dir, i)
  BY DEF Columns
<1>3a. off = CHOOSE g : Is(g)
  OBVIOUS
<1> HIDE DEF n
<1>4. ASSUME NEW i \in 1..n, NEW g, i > 1 => g[i - 1] = dir[i - 1].offset  PROVE E(g, i) = dir[i].offset
  <2>1. CASE i > 1 /\ dir[i].offset = dir[i - 1].offset + dir[i - 1].length
    <3>1. nums[1 + 3 * n + i] = 0
      BY <1>3, <2>1 DEF Coded
    <3>2. i - 1 \in 1..n
      BY <1>1, <2>1
    <3>3. nums[1 + 2 * n + (i - 1)] = dir[i - 1].length
      BY <1>3, <3>2
    <3>q. QED  BY <1>4, <2>1, <3>1, <3>3
  <2>2. CASE ~(i > 1 /\ dir[i].offset = dir[i - 1].offset + dir[i - 1].length)
    <3>1. nums[1 + 3 * n + i] = dir[i].offset + 1
      BY <1>3, <2>2 DEF Coded
    <3>2. dir[i].offset \in Nat
      BY <1>2
    <3>q. QED  BY <3>1, <3>2
  <2>q. QED  BY <2>1, <2>2
<1> HIDE DEF E
<1>5. ASSUME NEW i \in 1..n  PROVE h[i] = E(h, i)
  <2>1. i > 1 => h[i - 1] = dir[i - 1].offset
    BY <1>1
  <2>2. h[i] = dir[i].offset
    OBVIOUS
  <2> HIDE DEF h
  <2>q. QED  BY <1>4, <2>1, <2>2
<1>6. Is(h)
  BY <1>5
<1> HIDE DEF Is
<1>7. Is(off)
  BY <1>3a, <1>6
<1>8. \A i \in 1..n : off[i] = E(off, i)
  BY <1>7 DEF Is
<1> DEFINE T == { i \in 1..n : off[i] # dir[i].offset }
<1>9. T = {}
  <2>1. SUFFICES ASSUME T # {}  PROVE FALSE
    OBVIOUS
  <2>2. PICK i \in T : \A j \in T : i <= j
    BY <1>1, <2>1, Least, T \in SUBSET Nat
  <2>3. i > 1 => i - 1 \in 1..n /\ ~(i <= i - 1)
    BY <1>1, <2>2
  <2>4. i > 1 => off[i - 1] = dir[i - 1].offset
    BY <2>2, <2>3
  <2>5. off[i] = dir[i].offset
    BY <1>4, <1>8, <2>2, <2>4
  <2>q. QED  BY <2>2, <2>5
<1>q. QED  BY <1>9 DEF n

\* What deserializeIndex() makes of the columns.
ReadColumns(nums, n) ==
  LET id[i \in 0..n] == IF i = 0 THEN 0 ELSE id[i - 1] + nums[1 + i]
      length(i) == nums[1 + 2 * n + i]
      coded(i) == nums[1 + 3 * n + i]
      offset[i \in 1..n] == IF coded(i) = 0 /\ i > 1 THEN offset[i - 1] + length(i - 1) ELSE coded(i) - 1
  IN  [i \in 1..n |-> [tileId |-> id[i], runLength |-> nums[1 + n + i],
                       length |-> length(i), offset |-> offset[i]]]

\* deserializeIndex() refuses a directory that ends early and reads the columns of any other.
LEMMA DeserializeIs ==
  ASSUME NEW nums
  PROVE  deserializeIndex(nums) = IF Len(nums) < 1 \/ Len(nums) < 1 + 4 * nums[1] THEN Error
                                  ELSE ReadColumns(nums, nums[1])
BY Zenon DEF deserializeIndex, ReadColumns

\* The reader undoes the writer.
LEMMA DirectoryReadBack ==
  ASSUME NEW dir, DirectoryOf(dir)
  PROVE  deserializeIndex(serialize(dir)) = dir
<1> DEFINE n == Len(dir)
           nums == serialize(dir)
<1>1. n \in Nat /\ n > 0 /\ Columns(nums, dir, n)
  BY SerializeColumns
<1> HIDE DEF nums
<1>1a. dir \in Seq(DirEntries)
  BY DEF DirectoryOf
<1> DEFINE id == CHOOSE g : g = [i \in 0..n |-> IF i = 0 THEN 0 ELSE g[i - 1] + nums[1 + i]]
           off == CHOOSE g : g = [i \in 1..n |->
                    IF nums[1 + 3 * n + i] = 0 /\ i > 1
                    THEN g[i - 1] + nums[1 + 2 * n + (i - 1)] ELSE nums[1 + 3 * n + i] - 1]
<1>2. nums[1] = n /\ Len(nums) = 1 + 4 * n
  BY <1>1 DEF Columns
<1>3. ~(Len(nums) < 1 \/ Len(nums) < 1 + 4 * n)
  BY <1>1, <1>2
<1>4. deserializeIndex(nums) =
        [i \in 1..n |-> [tileId |-> id[i], runLength |-> nums[1 + n + i],
                         length |-> nums[1 + 2 * n + i], offset |-> off[i]]]
  <2>1. deserializeIndex(nums) = ReadColumns(nums, n)
    BY <1>2, <1>3, DeserializeIs
  <2>2. ReadColumns(nums, n) =
        [i \in 1..n |-> [tileId |-> id[i], runLength |-> nums[1 + n + i],
                         length |-> nums[1 + 2 * n + i], offset |-> off[i]]]
    BY Zenon DEF ReadColumns
  <2>q. QED  BY <2>1, <2>2
<1>5. \A i \in 1..n : id[i] = dir[i].tileId
  BY <1>1, IdsAre
<1>6. \A i \in 1..n : off[i] = dir[i].offset
  BY <1>1, OffsetsAre
<1> HIDE DEF id, off
<1>7. \A i \in 1..n : nums[1 + n + i] = dir[i].runLength /\ nums[1 + 2 * n + i] = dir[i].length
  BY <1>1 DEF Columns
<1>8. ASSUME NEW i \in 1..n
      PROVE  [tileId |-> id[i], runLength |-> nums[1 + n + i],
              length |-> nums[1 + 2 * n + i], offset |-> off[i]] = dir[i]
  <2>1. dir[i] \in DirEntries
    BY <1>1a, EntryTyped
  <2>q. QED  BY <1>5, <1>6, <1>7, <2>1 DEF DirEntries
<1>9. dir = [i \in 1..n |-> dir[i]]
  BY <1>1a
<1> HIDE DEF n
<1>q. QED  BY <1>4, <1>8, <1>9 DEF nums

\* What the reader makes of a shortened directory.
LEMMA DirectoryCut ==
  ASSUME NEW dir, DirectoryOf(dir), NEW k \in 0..(4 * Len(dir))
  PROVE  deserializeIndex(SubSeq(serialize(dir), 1, k)) = Error
<1> DEFINE n == Len(dir)
           nums == serialize(dir)
           cut == SubSeq(nums, 1, k)
<1>1. n \in Nat /\ nums \in Seq(Int) /\ Len(nums) = 1 + 4 * n /\ nums[1] = n
  BY SerializeColumns DEF Columns
<1> HIDE DEF nums
<1>2. Len(cut) = k /\ (k >= 1 => cut[1] = n)
  BY <1>1
<1> HIDE DEF cut
<1>3. Len(cut) < 1 \/ Len(cut) < 1 + 4 * cut[1]
  BY <1>1, <1>2
<1>q. QED  BY <1>3, DeserializeIs DEF cut, nums

\* The entry found is the last one not after the id, if it holds the id.
LEMMA TileFound ==
  ASSUME NEW dir, DirectoryOf(dir), NEW id \in Nat
  PROVE  LET UpTo == { i \in DOMAIN dir : dir[i].tileId <= id }
             Holds(i) == dir[i].runLength = 0 \/ id < dir[i].tileId + dir[i].runLength
         IN  findTile(dir, id) = IF UpTo # {} /\ Holds(Max(UpTo)) THEN dir[Max(UpTo)] ELSE None
<1> DEFINE UpTo == { i \in DOMAIN dir : dir[i].tileId <= id }
           Holds(i) == dir[i].runLength = 0 \/ id < dir[i].tileId + dir[i].runLength
           n == Probe(dir, id)
<1>1. dir \in Seq(DirEntries) /\ Ascending(dir)
  BY DEF DirectoryOf
<1>2. n \in 0..Len(dir) /\ \A j \in 1..Len(dir) : dir[j].tileId <= id <=> j <= n
  BY <1>1, ProbeIs
<1>3. findTile(dir, id) =
        IF n > 0 /\ (dir[n].tileId = id \/ dir[n].runLength = 0 \/ id - dir[n].tileId < dir[n].runLength)
        THEN dir[n] ELSE None
  BY DEF findTile
<1> HIDE DEF n
<1>4. UpTo = 1..n
  BY <1>1, <1>2
<1>5. CASE n = 0
  <2>1. UpTo = {}
    BY <1>4, <1>5
  <2> HIDE DEF UpTo
  <2>q. QED  BY <1>3, <1>5, <2>1 DEF UpTo
<1>6. CASE n # 0
  <2>1. n \in 1..Len(dir) /\ n > 0 /\ n \in 1..n
    BY <1>2, <1>6
  <2>2. UpTo # {} /\ Max(UpTo) = n
    <3>1. 1..n \in SUBSET Int /\ \A y \in 1..n : y <= n
      BY <2>1
    <3> HIDE DEF UpTo
    <3>q. QED  BY <1>4, <2>1, <3>1, MaxIs
  <2>3. dir[n].tileId \in Nat /\ dir[n].runLength \in Nat
    BY <1>1, <2>1, EntryTyped
  <2>4. (dir[n].tileId = id \/ dir[n].runLength = 0 \/ id - dir[n].tileId < dir[n].runLength) <=> Holds(n)
    BY <2>3
  <2> HIDE DEF UpTo, Holds
  <2>5. findTile(dir, id) = IF UpTo # {} /\ Holds(Max(UpTo)) THEN dir[Max(UpTo)] ELSE None
    BY <1>3, <2>1, <2>2, <2>4
  <2>q. QED  BY <2>5 DEF UpTo, Holds
<1>q. QED  BY <1>5, <1>6

\* Every directory that is not empty and ascends.
DirectoryInputs == { [kind |-> "directory", entries |-> dir] : dir \in { d \in Seq(DirEntries) : d # << >> /\ Ascending(d) } }

\* Of every ascending directory of format 3, of any length, deserializeIndex() reads the entries
\* back, findTile() finds for each id the entry that holds it and none if none does, and a
\* shortened directory is an error.
THEOREM Format3DirectoriesFind == input \in DirectoryInputs => Format3Finds
<1> SUFFICES ASSUME input \in DirectoryInputs  PROVE Format3Finds
  OBVIOUS
<1> DEFINE dir == input.entries
           UpTo(id) == { i \in DOMAIN dir : dir[i].tileId <= id }
           Holds(i, id) == dir[i].runLength = 0 \/ id < dir[i].tileId + dir[i].runLength
<1>1. DirectoryOf(dir)
  BY DEF DirectoryInputs, DirectoryOf
<1> HIDE DEF dir
<1>2. deserializeIndex(serialize(dir)) = dir
  BY <1>1, DirectoryReadBack
<1>3. Last(dir).tileId + 3 \in Nat
  <2>1. dir \in Seq(DirEntries) /\ Len(dir) \in 1..Len(dir)
    BY <1>1 DEF DirectoryOf
  <2>2. dir[Len(dir)].tileId \in Nat
    BY <2>1, EntryTyped
  <2>q. QED  BY <2>2 DEF Last
<1>4. \A id \in 0..(Last(dir).tileId + 3) : id \in Nat
  BY <1>3
<1>5. \A id \in 0..(Last(dir).tileId + 3) :
        findTile(dir, id) = IF UpTo(id) # {} /\ Holds(Max(UpTo(id)), id) THEN dir[Max(UpTo(id))] ELSE None
  BY <1>1, <1>4, TileFound, Zenon
<1>6. \A k \in 0..(4 * Len(dir)) : deserializeIndex(SubSeq(serialize(dir), 1, k)) = Error
  BY <1>1, DirectoryCut, Zenon
<1> HIDE DEF UpTo, Holds
<1>7. \A id \in 0..(Last(dir).tileId + 3) :
        findTile(deserializeIndex(serialize(dir)), id)
          = IF UpTo(id) # {} /\ Holds(Max(UpTo(id)), id) THEN dir[Max(UpTo(id))] ELSE None
  BY <1>2, <1>5, Zenon
<1>q. QED  BY <1>6, <1>7, Zenon DEF Format3Finds, dir, UpTo, Holds

----------------------------------------------------------------------------
(* Ranks. *)

\* A strict order of S: ahead[e] are the elements before e.
Orders(ahead, S) ==
  /\ ahead \in [S -> SUBSET S]
  /\ \A e \in S : e \notin ahead[e] /\ \A f \in ahead[e] : ahead[f] \subseteq ahead[e]
  /\ \A e, f \in S : e = f \/ e \in ahead[f] \/ f \in ahead[e]

\* In a finite ordered set the numbers of the elements before an element are 0 to n - 1.
LEMMA Ranked ==
  ASSUME NEW S, IsFiniteSet(S), NEW ahead, Orders(ahead, S)
  PROVE  /\ Cardinality(S) \in Nat
         /\ \A e \in S : Cardinality(ahead[e]) \in 0..(Cardinality(S) - 1)
         /\ \A e, f \in S : f \in ahead[e] => Cardinality(ahead[f]) < Cardinality(ahead[e])
         /\ \A k \in 1..Cardinality(S) : \E e \in S : Cardinality(ahead[e]) = k - 1
<1> DEFINE n == Cardinality(S)
           c(e) == Cardinality(ahead[e])
           place == [e \in S |-> c(e) + 1]
<1>1. n \in Nat
  BY FS_CardinalityType
<1>2. \A e \in S : ahead[e] \in SUBSET S /\ ahead[e] # S
  BY DEF Orders
<1>3. ASSUME NEW e \in S  PROVE IsFiniteSet(ahead[e]) /\ c(e) \in Nat /\ c(e) <= n /\ c(e) # n
  <2>1. IsFiniteSet(ahead[e]) /\ c(e) <= n /\ (n = c(e) => S = ahead[e])
    BY <1>2, FS_Subset
  <2>2. c(e) \in Nat
    BY <2>1, FS_CardinalityType
  <2>q. QED  BY <1>2, <2>1, <2>2
<1>4. ASSUME NEW e \in S, NEW f \in ahead[e]  PROVE c(f) < c(e)
  <2>1. f \in S /\ ahead[f] \subseteq ahead[e] /\ f \notin ahead[f]
    BY DEF Orders
  <2>2. c(f) <= c(e) /\ (c(e) = c(f) => ahead[e] = ahead[f])
    BY <1>3, <2>1, FS_Subset
  <2>3. ahead[e] # ahead[f]
    BY <2>1
  <2>q. QED  BY <1>3, <2>1, <2>2, <2>3
<1> HIDE DEF c, n
<1>5. place \in [S -> 1..n]
  <2>1. \A e \in S : c(e) + 1 \in 1..n
    BY <1>1, <1>3
  <2>q. QED  BY <2>1
<1>6. \A e, f \in S : place[e] = place[f] => e = f
  <2>1. \A e, f \in S : e # f => c(e) # c(f)
    <3>1. ASSUME NEW e \in S, NEW f \in S, e # f  PROVE c(e) # c(f)
      <4>1. e \in ahead[f] \/ f \in ahead[e]
        BY <3>1 DEF Orders
      <4>q. QED  BY <1>3, <1>4, <4>1
    <3>q. QED  BY <3>1
  <2>2. \A e \in S : place[e] = c(e) + 1 /\ c(e) \in Nat
    BY <1>3
  <2> HIDE DEF place
  <2>q. QED  BY <2>1, <2>2
<1>7. place \in Injection(S, 1..n)
  BY <1>5, <1>6, Zenon DEF Injection, IsInjective
<1>8. IsFiniteSet(1..n) /\ Cardinality(1..n) = n
  BY <1>1, FS_Interval
<1>9. place \in Surjection(S, 1..n)
  <2>1. Cardinality(S) = Cardinality(1..n)
    BY <1>8 DEF n
  <2>q. QED  BY <1>7, <1>8, <2>1, FS_Injection
<1>10. ASSUME NEW k \in 1..n  PROVE \E e \in S : c(e) = k - 1
  <2>1. PICK e \in S : place[e] = k
    BY <1>9 DEF Surjection
  <2>2. c(e) + 1 = k /\ c(e) \in Nat
    BY <1>3, <2>1
  <2>q. QED  BY <2>2
<1>11. \A e \in S : c(e) \in 0..(n - 1)
  BY <1>1, <1>3
<1>q. QED  BY <1>1, <1>4, <1>10, <1>11, Zenon DEF c, n

----------------------------------------------------------------------------
(* The order of the old directories. *)

\* Entries of the old formats; an offset is the set of its bits.
V2Entries == [z : Nat, x : Nat, y : Nat, offset : SUBSET (0..39), length : Nat]
\* What compare() looks at is there.
Keyed(e) == e.z \in Nat /\ e.x \in Nat /\ e.y \in Nat

\* compare() is a strict order that only entries of one place escape.
LEMMA V2Order ==
  ASSUME NEW a, NEW b, NEW c, Keyed(a), Keyed(b), Keyed(c)
  PROVE  /\ ~V2Before(a, a)
         /\ V2Before(a, b) => ~V2Before(b, a)
         /\ V2Before(a, b) /\ V2Before(b, c) => V2Before(a, c)
         /\ V2Before(a, b) \/ V2Before(b, a) \/ (a.z = b.z /\ a.x = b.x /\ a.y = b.y)
         /\ (a.z = b.z /\ a.x = b.x /\ a.y = b.y) => ~V2Before(a, b) /\ (V2Before(b, c) <=> V2Before(a, c))
BY DEF V2Before, Keyed

\* Entries of a directory, no two for one place.
Distinct(E) == \A e, f \in E : (e.z = f.z /\ e.x = f.x /\ e.y = f.y) => e = f
\* A sorted directory, and one that holds a set of entries, each once.
V2Sorted(view) == \A i, j \in DOMAIN view : i < j => V2Before(view[i], view[j])
HoldsAll(view, E) == view \in Seq(V2Entries) /\ (\A i \in DOMAIN view : view[i] \in E)
                     /\ (\A e \in E : \E i \in DOMAIN view : view[i] = e)
                     /\ \A i, j \in DOMAIN view : view[i] = view[j] => i = j

\* The writer of a format 2 directory sorts; that of format 1 need not.
LEMMA SortedWritten ==
  ASSUME NEW E \in SUBSET V2Entries, IsFiniteSet(E), Distinct(E)
  PROVE  LET s == [k \in 1..Cardinality(E) |-> CHOOSE e \in E : Cardinality(Ahead(E, e)) = k - 1]
         IN  HoldsAll(s, E) /\ V2Sorted(s)
<1> DEFINE n == Cardinality(E)
           ahead == [e \in E |-> Ahead(E, e)]
           at(k) == CHOOSE e \in E : Cardinality(Ahead(E, e)) = k - 1
           s == [k \in 1..n |-> at(k)]
<1>1. \A e \in E : Keyed(e)
  BY DEF V2Entries, Keyed
<1>2. Orders(ahead, E)
  <2>1. ahead \in [E -> SUBSET E]
    BY DEF Ahead
  <2>2. ASSUME NEW e \in E  PROVE e \notin ahead[e] /\ \A f \in ahead[e] : ahead[f] \subseteq ahead[e]
    BY <1>1, V2Order DEF Ahead
  <2>3. ASSUME NEW e \in E, NEW f \in E  PROVE e = f \/ e \in ahead[f] \/ f \in ahead[e]
    BY <1>1, V2Order DEF Ahead, Distinct
  <2>q. QED  BY <2>1, <2>2, <2>3 DEF Orders
<1>2a. \A e \in E : ahead[e] = Ahead(E, e)
  OBVIOUS
<1> HIDE DEF ahead
<1>3. /\ n \in Nat
      /\ \A e \in E : Cardinality(ahead[e]) \in 0..(n - 1)
      /\ \A e, f \in E : f \in ahead[e] => Cardinality(ahead[f]) < Cardinality(ahead[e])
      /\ \A k \in 1..n : \E e \in E : Cardinality(ahead[e]) = k - 1
  BY <1>2, Ranked, Zenon
<1>4. \A k \in 1..n : at(k) \in E /\ Cardinality(ahead[at(k)]) = k - 1
  BY <1>2a, <1>3
<1> HIDE DEF at, n
<1>5. s \in Seq(V2Entries) /\ DOMAIN s = 1..n /\ \A k \in 1..n : s[k] = at(k)
  BY <1>3, <1>4
<1> HIDE DEF s
<1>6. ASSUME NEW i \in 1..n, NEW j \in 1..n, i < j  PROVE V2Before(s[i], s[j])
  <2>1. at(i) \in E /\ at(j) \in E /\ at(i) # at(j) /\ ~(Cardinality(ahead[at(j)]) < Cardinality(ahead[at(i)]))
    BY <1>3, <1>4, <1>6
  <2>2. at(j) \notin ahead[at(i)]
    BY <1>3, <2>1
  <2>3. at(i) \in ahead[at(j)]
    BY <1>2, <2>1, <2>2 DEF Orders
  <2>q. QED  BY <1>2a, <1>5, <2>1, <2>3 DEF Ahead
<1>7. \A i, j \in 1..n : s[i] = s[j] => i = j
  <2>1. ASSUME NEW i \in 1..n, NEW j \in 1..n, s[i] = s[j]  PROVE i = j
    <3>1. at(i) = at(j)
      BY <1>5, <2>1
    <3>2. i - 1 = j - 1
      BY <1>4, <3>1
    <3>q. QED  BY <1>3, <3>2
  <2>q. QED  BY <2>1
<1>8. ASSUME NEW e \in E  PROVE \E i \in 1..n : s[i] = e
  <2> DEFINE k == Cardinality(ahead[e]) + 1
  <2>1. k \in 1..n /\ k - 1 = Cardinality(ahead[e])
    BY <1>3
  <2> HIDE DEF k
  <2>2. at(k) \in E /\ Cardinality(ahead[at(k)]) = Cardinality(ahead[e])
    BY <1>4, <2>1
  <2>3. at(k) = e
    <3>1. ~(Cardinality(ahead[e]) < Cardinality(ahead[e]))
      BY <1>3
    <3>2. at(k) \notin ahead[e] /\ e \notin ahead[at(k)]
      BY <1>3, <2>2, <3>1
    <3>q. QED  BY <1>2, <2>2, <3>2 DEF Orders
  <2>q. QED  BY <1>5, <2>1, <2>3
<1>9. HoldsAll(s, E) /\ V2Sorted(s)
  BY <1>4, <1>5, <1>6, <1>7, <1>8 DEF HoldsAll, V2Sorted
<1>q. QED  BY <1>9, Zenon DEF s, at, n

----------------------------------------------------------------------------
(* The directories as written and as the reader sorts them. *)

\* The empty sequence in front changes nothing.
LEMMA EmptyFirst ==
  ASSUME NEW S, NEW s \in Seq(S)
  PROVE  << >> \o s = s
<1>1. << >> \o s \in Seq(S) /\ Len(<< >> \o s) = Len(s) /\ \A i \in 1..Len(s) : (<< >> \o s)[i] = s[i]
  OBVIOUS
<1>q. QED  BY <1>1, SeqEqual

\* A written directory holds its entries, and is sorted in format 2.
LEMMA WrittenIs ==
  ASSUME NEW E \in SUBSET V2Entries, IsFiniteSet(E), Distinct(E), NEW spec
  PROVE  HoldsAll(Written(spec, E), E) /\ (spec # 1 => V2Sorted(Written(spec, E)))
<1> DEFINE s == [k \in 1..Cardinality(E) |-> CHOOSE e \in E : Cardinality(Ahead(E, e)) = k - 1]
           w == Written(spec, E)
<1>1. HoldsAll(s, E) /\ V2Sorted(s)
  BY SortedWritten
<1>2. w = << >> \o (IF spec = 1 THEN Reverse(<< >> \o s) ELSE << >> \o s)
  BY DEF Written
<1> HIDE DEF s, w
<1>3. s \in Seq(V2Entries)
  BY <1>1 DEF HoldsAll
<1>4. << >> \o s = s
  BY <1>3, EmptyFirst
<1>5. CASE spec = 1
  <2> DEFINE n == Len(s)
             r == Reverse(s)
  <2>1. n \in Nat /\ DOMAIN s = 1..n /\ r = [i \in 1..n |-> s[(n - i) + 1]]
    BY <1>3 DEF Reverse
  <2> HIDE DEF n
  <2>2. \A i \in 1..n : (n - i) + 1 \in 1..n
    BY <2>1
  <2>3. r \in Seq(V2Entries) /\ DOMAIN r = 1..n /\ \A i \in 1..n : r[i] = s[(n - i) + 1]
    <3>1. \A i \in 1..n : s[i] \in V2Entries
      BY <1>3, <2>1
    <3>q. QED  BY <2>1, <2>2, <3>1
  <2> HIDE DEF r
  <2>4. \A i \in 1..n : r[i] \in E
    <3>1. \A i \in 1..n : s[i] \in E
      BY <1>1, <2>1 DEF HoldsAll
    <3>q. QED  BY <2>2, <2>3, <3>1
  <2>5. ASSUME NEW e \in E  PROVE \E i \in 1..n : r[i] = e
    <3>1. PICK j \in 1..n : s[j] = e
      BY <1>1, <2>1 DEF HoldsAll
    <3>2. (n - ((n - j) + 1)) + 1 = j /\ (n - j) + 1 \in 1..n
      BY <2>1
    <3>q. QED  BY <2>3, <3>1, <3>2
  <2>6. ASSUME NEW i \in 1..n, NEW j \in 1..n, r[i] = r[j]  PROVE i = j
    <3>1. s[(n - i) + 1] = s[(n - j) + 1]
      BY <2>3, <2>6
    <3>2. (n - i) + 1 = (n - j) + 1
      <4>1. \A k, l \in 1..n : s[k] = s[l] => k = l
        BY <1>1, <2>1, Zenon DEF HoldsAll
      <4>2. (n - i) + 1 \in 1..n /\ (n - j) + 1 \in 1..n
        BY <2>2
      <4>q. QED  BY <3>1, <4>1, <4>2, Zenon
    <3>q. QED  BY <2>1, <3>2
  <2>7. HoldsAll(r, E)
    BY <2>3, <2>4, <2>5, <2>6 DEF HoldsAll
  <2>8. w = r
    BY <1>2, <1>4, <1>5, <2>3, EmptyFirst DEF r
  <2>q. QED  BY <1>5, <2>7, <2>8 DEF w
<1>6. CASE spec # 1
  BY <1>1, <1>2, <1>4, <1>6 DEF w
<1>q. QED  BY <1>5, <1>6

\* The reader sorts a directory of format 1.
LEMMA CreateIs ==
  ASSUME NEW E \in SUBSET V2Entries, Distinct(E), NEW s, HoldsAll(s, E)
  PROVE  HoldsAll(createDirectory(s), E) /\ V2Sorted(createDirectory(s))
<1> DEFINE n == Len(s)
           S == DOMAIN s
           ahead == [i \in S |-> { j \in S : V2Before(s[j], s[i]) }]
           at(k) == CHOOSE i \in DOMAIN s : Rank(s, i) = k
           r == [k \in DOMAIN s |-> [s[at(k)] EXCEPT !.offset = @ \intersect 0..39]]
<1>1. n \in Nat /\ S = 1..n /\ s \in Seq(V2Entries)
  BY DEF HoldsAll
<1>2. \A i \in S : s[i] \in V2Entries /\ Keyed(s[i]) /\ s[i] \in E
  BY DEF HoldsAll, V2Entries, Keyed
<1>3. \A i, j \in S : i = j \/ V2Before(s[i], s[j]) \/ V2Before(s[j], s[i])
  <2>1. ASSUME NEW i \in S, NEW j \in S  PROVE i = j \/ V2Before(s[i], s[j]) \/ V2Before(s[j], s[i])
    BY <1>2, V2Order DEF Distinct, HoldsAll
  <2>q. QED  BY <2>1
<1>4. Orders(ahead, S)
  <2>1. ahead \in [S -> SUBSET S]
    OBVIOUS
  <2>2. ASSUME NEW e \in S  PROVE e \notin ahead[e] /\ \A f \in ahead[e] : ahead[f] \subseteq ahead[e]
    BY <1>2, V2Order
  <2>3. ASSUME NEW e \in S, NEW f \in S  PROVE e = f \/ e \in ahead[f] \/ f \in ahead[e]
    BY <1>3
  <2>q. QED  BY <2>1, <2>2, <2>3 DEF Orders
<1>5. ASSUME NEW i \in S  PROVE Rank(s, i) = 1 + Cardinality(ahead[i])
  <2>1. ASSUME NEW j \in S
        PROVE  (V2Before(s[j], s[i]) \/ (j < i /\ ~V2Before(s[i], s[j]))) <=> V2Before(s[j], s[i])
    <3>1. j < i => j # i
      BY <1>1
    <3>q. QED  BY <1>3, <3>1
  <2>2. { j \in DOMAIN s : V2Before(s[j], s[i]) \/ (j < i /\ ~V2Before(s[i], s[j])) } = ahead[i]
    BY <2>1
  <2> HIDE DEF ahead
  <2>q. QED  BY <2>2 DEF Rank
<1>6. \A i \in S : ahead[i] = { j \in S : V2Before(s[j], s[i]) }
  OBVIOUS
<1>7. IsFiniteSet(S) /\ Cardinality(S) = n
  BY <1>1, FS_Interval
<1> HIDE DEF ahead
<1>8. /\ \A i \in S : Cardinality(ahead[i]) \in 0..(n - 1)
      /\ \A i, j \in S : j \in ahead[i] => Cardinality(ahead[j]) < Cardinality(ahead[i])
      /\ \A k \in 1..n : \E i \in S : Cardinality(ahead[i]) = k - 1
  BY <1>4, <1>7, Ranked
<1>9. createDirectory(s) = << >> \o r
  BY DEF createDirectory
<1>10. ASSUME NEW k \in 1..n  PROVE at(k) \in S /\ Cardinality(ahead[at(k)]) = k - 1
  <2>1. PICK i \in S : Cardinality(ahead[i]) = k - 1
    BY <1>8
  <2>2. Rank(s, i) = k
    BY <1>5, <2>1
  <2>3. at(k) \in S /\ Rank(s, at(k)) = k
    BY <2>2
  <2> HIDE DEF at
  <2>4. 1 + Cardinality(ahead[at(k)]) = k /\ Cardinality(ahead[at(k)]) \in Int
    BY <1>5, <1>8, <2>3
  <2>q. QED  BY <2>3, <2>4
<1> HIDE DEF at
<1>11. ASSUME NEW k \in 1..n  PROVE r[k] = s[at(k)]
  <2>1. s[at(k)] \in V2Entries
    BY <1>2, <1>10
  <2>2. s[at(k)].offset \intersect 0..39 = s[at(k)].offset
    BY <2>1 DEF V2Entries
  <2>3. [s[at(k)] EXCEPT !.offset = @ \intersect 0..39] = s[at(k)]
    BY <2>1, <2>2 DEF V2Entries
  <2>q. QED  BY <1>1, <2>3
<1>12. DOMAIN r = 1..n /\ r \in Seq(V2Entries)
  <2>1. r = [k \in 1..n |-> s[at(k)]]
    BY <1>1, <1>11
  <2>2. \A k \in 1..n : s[at(k)] \in V2Entries
    BY <1>2, <1>10
  <2> HIDE DEF r, n
  <2>q. QED  BY <1>1, <2>1, <2>2
<1>13. createDirectory(s) = r
  BY <1>9, <1>12, EmptyFirst
<1> HIDE DEF r, n, S
<1>14. ASSUME NEW i \in 1..n, NEW j \in 1..n, i < j  PROVE V2Before(r[i], r[j])
  <2>0. at(i) \in S /\ at(j) \in S /\ Cardinality(ahead[at(i)]) = i - 1 /\ Cardinality(ahead[at(j)]) = j - 1
    BY <1>10
  <2>0a. i \in Int /\ j \in Int /\ i - 1 # j - 1 /\ ~(j - 1 < i - 1)
    BY <1>1, <1>14
  <2>0b. at(j) \in ahead[at(i)] => j - 1 < i - 1
    BY <1>8, <2>0
  <2>1. at(i) \in S /\ at(j) \in S /\ at(i) # at(j) /\ at(j) \notin ahead[at(i)]
    BY <2>0, <2>0a, <2>0b
  <2>2. at(i) \in ahead[at(j)]
    BY <1>4, <2>1 DEF Orders
  <2>q. QED  BY <1>6, <1>11, <2>1, <2>2
<1>15. ASSUME NEW i \in 1..n, NEW j \in 1..n, r[i] = r[j]  PROVE i = j
  <2>1. s[at(i)] = s[at(j)] /\ at(i) \in S /\ at(j) \in S
    BY <1>10, <1>11, <1>15
  <2>2. at(i) = at(j)
    BY <2>1 DEF HoldsAll, S
  <2>3. i - 1 = j - 1
    BY <1>10, <2>2
  <2>q. QED  BY <1>1, <2>3
<1>16. ASSUME NEW e \in E  PROVE \E k \in 1..n : r[k] = e
  <2>1. PICK i \in S : s[i] = e
    BY DEF HoldsAll, S
  <2> DEFINE k == Cardinality(ahead[i]) + 1
  <2>2. k \in 1..n /\ k - 1 = Cardinality(ahead[i])
    <3> DEFINE c == Cardinality(ahead[i])
    <3>1. c \in 0..(n - 1) /\ n \in Nat
      BY <1>1, <1>8 DEF n
    <3> HIDE DEF c
    <3>2. c + 1 \in 1..n /\ (c + 1) - 1 = c
      BY <3>1
    <3>q. QED  BY <3>2 DEF c
  <2> HIDE DEF k
  <2>3. at(k) \in S /\ Cardinality(ahead[at(k)]) = Cardinality(ahead[i])
    BY <1>10, <2>2
  <2>4. at(k) = i
    <3>1. ~(Cardinality(ahead[i]) < Cardinality(ahead[i]))
      BY <1>1, <1>8
    <3>2. at(k) \notin ahead[i] /\ i \notin ahead[at(k)]
      BY <1>8, <2>3, <3>1
    <3>q. QED  BY <1>4, <2>3, <3>2 DEF Orders
  <2>q. QED  BY <1>11, <2>1, <2>2, <2>4
<1>17. \A k \in 1..n : r[k] \in E
  BY <1>2, <1>10, <1>11
<1>q. QED  BY <1>12, <1>13, <1>14, <1>15, <1>16, <1>17 DEF HoldsAll, V2Sorted

\* The directory as the reader searches it.
ViewOf(spec, dir) == IF spec = 1 THEN sortDir(dir) ELSE dir

\* Of either format the reader searches a sorted directory of all entries.
LEMMA ViewIs ==
  ASSUME NEW E \in SUBSET V2Entries, IsFiniteSet(E), Distinct(E), NEW spec
  PROVE  HoldsAll(ViewOf(spec, Written(spec, E)), E) /\ V2Sorted(ViewOf(spec, Written(spec, E)))
BY WrittenIs, CreateIs DEF ViewOf, sortDir

----------------------------------------------------------------------------
(* Their binary search. *)

\* A round of the search in queryView() leads to a range of positions.
LEMMA V2HalvedRange ==
  ASSUME NEW view, NEW key, NEW m \in Int, NEW n \in Int
  PROVE  V2Halved(view, key, m, n) \in Ranges
<1> DEFINE k == (n + m) \div 2
<1>1. k \in Int
  OBVIOUS
<1> HIDE DEF k
<1>2. V2Halved(view, key, m, n) =
        IF m > n THEN << m, n >>
        ELSE IF V2Before(view[k], key) THEN << k + 1, n >>
        ELSE IF V2Before(key, view[k]) THEN << m, k - 1 >>
        ELSE << k + 1, k >>
  BY DEF V2Halved, k
<1>q. QED  BY <1>1, <1>2 DEF Ranges

\* The search in queryView() starts with the whole directory, and each round follows the one
\* before.
LEMMA V2SearchDef ==
  ASSUME NEW view, Len(view) \in Nat, NEW key
  PROVE  /\ V2Search(view, key) \in [0..Len(view) -> Ranges]
         /\ V2Search(view, key)[0] = << 1, Len(view) >>
         /\ \A i \in 1..Len(view) :
              V2Search(view, key)[i] =
                V2Halved(view, key, V2Search(view, key)[i - 1][1], V2Search(view, key)[i - 1][2])
<1> DEFINE N == Len(view)
           first == << 1, N >>
           Step(a) == V2Halved(view, key, a[1], a[2])
           Is(g) == g = [i \in 0..N |-> IF i = 0 THEN first ELSE Step(g[i - 1])]
           F == [i \in 1..N |-> [a \in Ranges |-> Step(a)]]
<1>0. N \in Nat
  OBVIOUS
<1>1. \A a \in Ranges : Step(a) \in Ranges
  BY V2HalvedRange DEF Ranges
<1>2. first \in Ranges
  BY <1>0 DEF Ranges
<1>2a. V2Search(view, key) = CHOOSE g : Is(g)
  BY DEF V2Search
<1> HIDE DEF N, first, Step
<1>2b. F \in Rounds(N, Ranges)
  BY <1>1 DEF Rounds
<1> HIDE DEF F
<1>3. PICK h : IsHistory(h, N, Ranges, first, F)
  BY <1>0, <1>2, <1>2b, History
<1>4. ASSUME NEW k \in 0..N  PROVE h[k] = IF k = 0 THEN first ELSE Step(h[k - 1])
  <2>1. CASE k = 0
    BY <1>3, <2>1 DEF IsHistory
  <2>2. CASE k # 0
    <3>1. k \in 1..N /\ k - 1 \in 0..N
      BY <1>0, <2>2
    <3>2. h[k - 1] \in Ranges
      BY <1>3, <3>1 DEF IsHistory
    <3>3. F[k][h[k - 1]] = Step(h[k - 1])
      BY <3>1, <3>2 DEF F
    <3>q. QED  BY <1>3, <2>2, <3>1, <3>3 DEF IsHistory
  <2>q. QED  BY <2>1, <2>2
<1>5. Is(h)
  BY <1>3, <1>4 DEF IsHistory
<1> HIDE DEF Is
<1>6. Is(V2Search(view, key))
  BY <1>5, <1>2a
<1> DEFINE c == V2Search(view, key)
<1> HIDE DEF c
<1>7. c = [i \in 0..N |-> IF i = 0 THEN first ELSE Step(c[i - 1])]
  BY <1>6 DEF Is, c
<1>8. c[0] = first /\ \A i \in 1..N : c[i] = Step(c[i - 1])
  BY <1>0, <1>7
<1> DEFINE T == { i \in 0..N : c[i] \notin Ranges }
<1>9. T = {}
  <2>1. SUFFICES ASSUME T # {}  PROVE FALSE
    OBVIOUS
  <2>2. PICK i \in T : \A j \in T : i <= j
    BY <2>1, Least, T \in SUBSET Nat
  <2>3. CASE i = 0
    BY <1>2, <1>8, <2>2, <2>3
  <2>4. CASE i # 0
    <3>1. i \in 1..N /\ i - 1 \in 0..N /\ ~(i <= i - 1)
      BY <1>0, <2>2, <2>4
    <3>2. c[i - 1] \in Ranges
      BY <2>2, <3>1
    <3>3. c[i] \in Ranges
      BY <1>1, <1>8, <3>1, <3>2
    <3>q. QED  BY <2>2, <3>3
  <2>q. QED  BY <2>3, <2>4
<1>10. c \in [0..N -> Ranges]
  BY <1>7, <1>9
<1>q. QED  BY <1>8, <1>10 DEF c, first, Step, N

\* The invariant of this search's loop.
V2Narrowed(view, key, i, a) ==
  /\ 1 <= a[1] /\ a[1] <= a[2] + 1 /\ a[2] <= Len(view) /\ a[2] - a[1] + 1 <= Len(view) - i
  /\ \A j \in 1..Len(view) : /\ j < a[1] => ~V2Before(key, view[j])
                             /\ j > a[2] => V2Before(key, view[j])

\* A round of this search keeps the invariant and looks at one entry less.
LEMMA V2HalvedNarrows ==
  ASSUME NEW view \in Seq(V2Entries), V2Sorted(view), NEW key, Keyed(key),
         NEW i \in 1..Len(view), NEW m \in Int, NEW n \in Int, V2Narrowed(view, key, i - 1, << m, n >>)
  PROVE  V2Narrowed(view, key, i, V2Halved(view, key, m, n))
<1> DEFINE N == Len(view)
           Lower(j) == V2Before(view[j], key)
           Upper(j) == V2Before(key, view[j])
           k == (n + m) \div 2
<1>1. N \in Nat /\ DOMAIN view = 1..N
  OBVIOUS
<1>1a. \A j \in 1..N : Keyed(view[j])
  <2>1. ASSUME NEW j \in 1..N  PROVE view[j] \in V2Entries
    OBVIOUS
  <2>q. QED  BY <2>1 DEF V2Entries, Keyed
<1>2. ASSUME NEW j \in 1..N, NEW l \in 1..N
      PROVE  /\ Lower(j) => ~Upper(j)
             /\ j < l => (Lower(l) => Lower(j)) /\ (Upper(j) => Upper(l))
             /\ j < l => (~Upper(l) => ~Upper(j)) /\ (~Lower(j) /\ ~Upper(j) => Upper(l))
             /\ j < l => (~Lower(l) /\ ~Upper(l) => Lower(j))
  <2>0. Keyed(view[j]) /\ Keyed(view[l])
    BY <1>1a
  <2>1. Lower(j) => ~Upper(j)
    BY <2>0, V2Order
  <2>2. CASE j < l
    <3>1. V2Before(view[j], view[l])
      BY <1>1, <2>2 DEF V2Sorted
    <3>2. (Lower(l) => Lower(j)) /\ (Upper(j) => Upper(l))
      BY <2>0, <3>1, V2Order
    <3>3. ~Lower(j) /\ ~Upper(j) => Upper(l)
      BY <2>0, <3>1, V2Order
    <3>4. ~Lower(l) /\ ~Upper(l) => Lower(j)
      <4>1. ~Lower(l) /\ ~Upper(l) => view[l].z = key.z /\ view[l].x = key.x /\ view[l].y = key.y
        BY <2>0, V2Order
      <4>q. QED  BY <3>1, <4>1 DEF V2Before
    <3>q. QED  BY <2>1, <3>2, <3>3, <3>4
  <2>q. QED  BY <2>1, <2>2
<1>3. /\ 1 <= m /\ m <= n + 1 /\ n <= N /\ n - m + 1 <= N - (i - 1)
      /\ \A j \in 1..N : (j < m => ~Upper(j)) /\ (j > n => Upper(j))
  BY DEF V2Narrowed
<1>4. V2Halved(view, key, m, n) =
        IF m > n THEN << m, n >>
        ELSE IF Lower(k) THEN << k + 1, n >>
        ELSE IF Upper(k) THEN << m, k - 1 >>
        ELSE << k + 1, k >>
  BY DEF V2Halved
<1>4a. i \in 1..N
  OBVIOUS
<1>4b. ~(m > n) => k \in m..n
  OBVIOUS
<1>4c. k \in Int
  OBVIOUS
<1> HIDE DEF N, Lower, Upper, k
<1>5. SUFFICES ASSUME NEW u \in Int, NEW v \in Int, V2Halved(view, key, m, n) = << u, v >>,
                      \/ m > n /\ u = m /\ v = n
                      \/ ~(m > n) /\ Lower(k) /\ u = k + 1 /\ v = n
                      \/ ~(m > n) /\ Upper(k) /\ u = m /\ v = k - 1
                      \/ ~(m > n) /\ ~Lower(k) /\ ~Upper(k) /\ u = k + 1 /\ v = k
               PROVE  V2Narrowed(view, key, i, << u, v >>)
  <2>1. CASE m > n
    BY <1>4, <1>5, <2>1
  <2>2. CASE ~(m > n) /\ Lower(k)
    BY <1>4, <1>4c, <1>5, <2>2
  <2>3. CASE ~(m > n) /\ ~Lower(k) /\ Upper(k)
    BY <1>4, <1>4c, <1>5, <2>3
  <2>4. CASE ~(m > n) /\ ~Lower(k) /\ ~Upper(k)
    BY <1>4, <1>4c, <1>5, <2>4
  <2>q. QED  BY <2>1, <2>2, <2>3, <2>4
<1>6. ~(m > n) => k \in 1..N
  BY <1>1, <1>3, <1>4b
<1>7. 1 <= u /\ u <= v + 1 /\ v <= N /\ v - u + 1 <= N - i
  BY <1>1, <1>3, <1>4a, <1>4b, <1>4c, <1>5
<1>8. ASSUME NEW j \in 1..N  PROVE (j < u => ~Upper(j)) /\ (j > v => Upper(j))
  <2>1. CASE m > n /\ u = m /\ v = n
    BY <1>3, <2>1
  <2>2. CASE ~(m > n)
    <3>1. k \in 1..N
      BY <1>6, <2>2
    <3>2. CASE Lower(k) /\ u = k + 1 /\ v = n
      <4>1. ~Upper(k) /\ (j < k => ~Upper(j))
        BY <1>2, <3>1, <3>2
      <4>2. j < u => j < k \/ j = k
        BY <1>1, <1>4c, <3>2
      <4>q. QED  BY <1>3, <3>2, <4>1, <4>2
    <3>3. CASE Upper(k) /\ u = m /\ v = k - 1
      <4>1. k < j => Upper(j)
        BY <1>2, <3>1, <3>3
      <4>2. j > v => k < j \/ j = k
        BY <1>1, <1>4c, <3>3
      <4>q. QED  BY <1>3, <3>3, <4>1, <4>2
    <3>4. CASE ~Lower(k) /\ ~Upper(k) /\ u = k + 1 /\ v = k
      <4>1. (k < j => Upper(j)) /\ (j < k => ~Upper(j))
        BY <1>2, <3>1, <3>4
      <4>2. (j < u => j < k \/ j = k) /\ (j > v => k < j)
        BY <1>1, <1>4c, <3>4
      <4>q. QED  BY <3>4, <4>1, <4>2
    <3>q. QED  BY <1>5, <2>2, <3>2, <3>3, <3>4
  <2>q. QED  BY <1>5, <2>1, <2>2
<1>q. QED  BY <1>7, <1>8 DEF V2Narrowed, N, Upper

\* The search stops at the last entry that is not after the key.
LEMMA V2ProbeIs ==
  ASSUME NEW view \in Seq(V2Entries), V2Sorted(view), NEW key, Keyed(key)
  PROVE  /\ V2Search(view, key)[Len(view)][2] \in 0..Len(view)
         /\ \A j \in 1..Len(view) : ~V2Before(key, view[j]) <=> j <= V2Search(view, key)[Len(view)][2]
<1> DEFINE N == Len(view)
           at == V2Search(view, key)
<1>1. N \in Nat
  OBVIOUS
<1>2. at \in [0..N -> Ranges] /\ at[0] = << 1, N >>
      /\ \A i \in 1..N : at[i] = V2Halved(view, key, at[i - 1][1], at[i - 1][2])
  BY <1>1, V2SearchDef
<1> DEFINE T == { i \in 0..N : ~V2Narrowed(view, key, i, at[i]) }
<1> HIDE DEF at
<1>3. T = {}
  <2>1. SUFFICES ASSUME T # {}  PROVE FALSE
    OBVIOUS
  <2>2. PICK i \in T : \A j \in T : i <= j
    BY <2>1, Least, T \in SUBSET Nat
  <2>3. CASE i = 0
    <3>1. V2Narrowed(view, key, 0, << 1, N >>)
      BY <1>1 DEF V2Narrowed
    <3>q. QED  BY <1>2, <2>2, <2>3, <3>1
  <2>4. CASE i # 0
    <3>1. i \in 1..N /\ i - 1 \in 0..N /\ ~(i <= i - 1)
      BY <2>2, <2>4
    <3>2. V2Narrowed(view, key, i - 1, at[i - 1])
      BY <2>2, <3>1
    <3>3. PICK m \in Int, n \in Int : at[i - 1] = << m, n >>
      BY <1>1, <1>2, <3>1, RangeIs, Zenon
    <3>4. at[i] = V2Halved(view, key, m, n)
      BY <1>2, <3>1, <3>3
    <3>5. V2Narrowed(view, key, i, at[i])
      BY <3>1, <3>2, <3>3, <3>4, V2HalvedNarrows
    <3>q. QED  BY <2>2, <3>5
  <2>q. QED  BY <2>3, <2>4
<1>4. V2Narrowed(view, key, N, at[N])
  BY <1>1, <1>3
<1>5. PICK m \in Int, n \in Int : at[N] = << m, n >>
  BY <1>1, <1>2 DEF Ranges
<1>6. at[N][2] = n
  BY <1>5
<1>8. /\ 1 <= m /\ m <= n + 1 /\ n <= N /\ n - m + 1 <= N - N
      /\ \A j \in 1..N : (j < m => ~V2Before(key, view[j])) /\ (j > n => V2Before(key, view[j]))
  BY <1>4, <1>5 DEF V2Narrowed
<1>9. m = n + 1 /\ n \in 0..N
  BY <1>1, <1>8
<1>10. \A j \in 1..N : ~V2Before(key, view[j]) <=> j <= n
  BY <1>1, <1>8, <1>9
<1>q. QED  BY <1>6, <1>9, <1>10 DEF at

\* No entry of E is for this place.
NoneAt(E, z, x, y) == \A e \in E : ~(e.z = z /\ e.x = x /\ e.y = y)

\* In a sorted directory the entry for a place is found, and none if there is none.
LEMMA QueryIs ==
  ASSUME NEW E, NEW view, HoldsAll(view, E), V2Sorted(view), NEW z \in Nat, NEW x \in Nat, NEW y \in Nat
  PROVE  /\ \A e \in E : e.z = z /\ e.x = x /\ e.y = y => queryView(view, z, x, y) = e
         /\ NoneAt(E, z, x, y) => queryView(view, z, x, y) = V2None
<1> DEFINE key == [z |-> z, x |-> x, y |-> y]
           n == V2Search(view, key)[Len(view)][2]
           Same(e) == e.z = z /\ e.x = x /\ e.y = y
<1>1. view \in Seq(V2Entries) /\ Keyed(key) /\ key.z = z /\ key.x = x /\ key.y = y
  BY DEF HoldsAll, Keyed
<1>2. queryView(view, z, x, y) =
        IF n > 0 /\ << view[n].z, view[n].x, view[n].y >> = << z, x, y >> THEN view[n] ELSE V2None
  BY DEF queryView
<1> HIDE DEF key
<1>3. n \in 0..Len(view) /\ \A j \in 1..Len(view) : ~V2Before(key, view[j]) <=> j <= n
  BY <1>1, V2ProbeIs
<1> HIDE DEF n
<1>3a. queryView(view, z, x, y) = IF n > 0 /\ Same(view[n]) THEN view[n] ELSE V2None
  BY <1>2
<1>3b. \A j \in 1..Len(view) : Keyed(view[j]) /\ view[j] \in E
  <2>1. ASSUME NEW j \in 1..Len(view)  PROVE Keyed(view[j]) /\ view[j] \in E
    <3>1. view[j] \in V2Entries /\ j \in DOMAIN view
      BY <1>1
    <3>q. QED  BY <3>1 DEF V2Entries, Keyed, HoldsAll
  <2>q. QED  BY <2>1
<1>4. ASSUME NEW e \in E, Same(e)  PROVE queryView(view, z, x, y) = e
  <2>1. PICK i \in 1..Len(view) : view[i] = e
    BY <1>1 DEF HoldsAll
  <2>2. Keyed(e) /\ ~V2Before(key, e) /\ e.z = key.z /\ e.x = key.x /\ e.y = key.y
    <3>1. Keyed(e) /\ e.z = key.z /\ e.x = key.x /\ e.y = key.y
      BY <1>1, <1>3b, <1>4, <2>1
    <3>2. ~V2Before(key, e)
      BY <1>1, <3>1, V2Order
    <3>q. QED  BY <3>1, <3>2
  <2>3. i <= n
    BY <1>3, <2>1, <2>2
  <2>4. n \in 1..Len(view) /\ n > 0
    BY <1>3, <2>1, <2>3
  <2>5. CASE i = n
    BY <1>3a, <1>4, <2>1, <2>4, <2>5
  <2>6. CASE i # n
    <3>1. i < n
      BY <2>1, <2>3, <2>4, <2>6
    <3>2. V2Before(view[i], view[n])
      BY <1>1, <2>4, <3>1 DEF V2Sorted
    <3>3. V2Before(key, view[n])
      BY <1>1, <1>3b, <2>1, <2>2, <2>4, <3>2, V2Order
    <3>q. QED  BY <1>3, <2>4, <3>3
  <2>q. QED  BY <2>5, <2>6
<1>5. ASSUME \A e \in E : ~Same(e)  PROVE queryView(view, z, x, y) = V2None
  <2>1. n > 0 => view[n] \in E
    BY <1>3, <1>3b
  <2> HIDE DEF Same
  <2>q. QED  BY <1>3a, <1>5, <2>1
<1>q. QED  BY <1>4, <1>5 DEF NoneAt

----------------------------------------------------------------------------
(* Archives of the formats 1 and 2. *)

\* The tiles of the levels 0 to 2.
AllTiles == { t \in (0..2) \X (0..3) \X (0..3) : t[2] < 2^t[1] /\ t[3] < 2^t[1] }

\* Every archive of the formats 1 and 2 over these tiles: a tile is in the root or in a leaf
\* directory of the archive's level, not in both.
OldInputs ==
  { i \in [kind : {"v2"}, spec : 1..2, level : 0..2, root : SUBSET AllTiles, leaf : SUBSET AllTiles] :
      \A t \in i.leaf : t[1] >= i.level }

\* The entries of tiles, and of leaf directories.
TileEntries(U) == { TileEntry(t) : t \in U }
LeafEntries(L) == { LeafEntry(l) : l \in L }
\* The places that a tile or a leaf directory of these levels can have, and some more.
Leaves == (0..2) \X (0..3) \X (0..3)

\* A place of these levels, and what an entry for it holds.
LEMMA TileIs ==
  ASSUME NEW t \in Leaves
  PROVE  /\ t[1] \in 0..2 /\ t[2] \in 0..3 /\ t[3] \in 0..3 /\ t = << t[1], t[2], t[3] >>
         /\ TileEntry(t) \in V2Entries /\ TileEntry(t).z = t[1] /\ TileEntry(t).x = t[2] /\ TileEntry(t).y = t[3]
         /\ LeafEntry(t) \in V2Entries /\ LeafEntry(t).z = 128 + t[1] /\ LeafEntry(t).x = t[2] /\ LeafEntry(t).y = t[3]
         /\ LeafEntry(t) # V2None /\ TileEntry(t) # V2None
<1>1. PICK a \in 0..2, b \in 0..3, c \in 0..3 : t = << a, b, c >>
  BY DEF Leaves
<1>2. t[1] = a /\ t[2] = b /\ t[3] = c
  BY <1>1
<1>3. TileEntry(t) = [z |-> a, x |-> b, y |-> c, offset |-> {a, 10 + b, 20 + c, 39}, length |-> 1]
  BY <1>2 DEF TileEntry
<1>4. LeafEntry(t) = [z |-> 128 + a, x |-> b, y |-> c, offset |-> {5, 10 + b, 20 + c}, length |-> 17]
  BY <1>2 DEF LeafEntry
<1>5. {a, 10 + b, 20 + c, 39} \in SUBSET (0..39) /\ {5, 10 + b, 20 + c} \in SUBSET (0..39)
  <2>1. a \in 0..39 /\ 10 + b \in 0..39 /\ 20 + c \in 0..39 /\ 39 \in 0..39 /\ 5 \in 0..39
    OBVIOUS
  <2>q. QED  BY <2>1
<1>6. TileEntry(t) \in V2Entries /\ TileEntry(t).z = a /\ TileEntry(t).x = b /\ TileEntry(t).y = c
  BY <1>3, <1>5 DEF V2Entries
<1>7. LeafEntry(t) \in V2Entries /\ LeafEntry(t).z = 128 + a /\ LeafEntry(t).x = b /\ LeafEntry(t).y = c
  BY <1>4, <1>5 DEF V2Entries
<1>8. V2None.z = -1
  BY DEF V2None
<1>9. LeafEntry(t) # V2None /\ TileEntry(t) # V2None
  BY <1>6, <1>7, <1>8
<1>q. QED  BY <1>1, <1>2, <1>6, <1>7, <1>9

\* Directories of these places are finite.
LEMMA Finite ==
  ASSUME NEW U \in SUBSET Leaves
  PROVE  IsFiniteSet(U) /\ IsFiniteSet(TileEntries(U)) /\ IsFiniteSet(LeafEntries(U))
<1>1. IsFiniteSet(0..2) /\ IsFiniteSet(0..3)
  BY FS_Interval, 0 \in Int, 2 \in Int, 3 \in Int
<1>2. IsFiniteSet((0..3) \X (0..3))
  BY <1>1, FS_Product
<1> DEFINE f == [p \in (0..2) \X ((0..3) \X (0..3)) |-> << p[1], p[2][1], p[2][2] >>]
<1>3. IsFiniteSet((0..2) \X ((0..3) \X (0..3)))
  BY <1>1, <1>2, FS_Product
<1>4. f \in Surjection((0..2) \X ((0..3) \X (0..3)), Leaves)
  <2>1. f \in [(0..2) \X ((0..3) \X (0..3)) -> Leaves]
    BY DEF Leaves
  <2>2. ASSUME NEW t \in Leaves  PROVE \E p \in (0..2) \X ((0..3) \X (0..3)) : f[p] = t
    <3>1. t[1] \in 0..2 /\ t[2] \in 0..3 /\ t[3] \in 0..3 /\ t = << t[1], t[2], t[3] >>
      BY TileIs
    <3>2. << t[1], << t[2], t[3] >> >> \in (0..2) \X ((0..3) \X (0..3))
      BY <3>1
    <3>q. QED  BY <3>1, <3>2
  <2> HIDE DEF f
  <2>q. QED  BY <2>1, <2>2 DEF Surjection
<1>5. IsFiniteSet(Leaves)
  BY <1>3, <1>4, FS_Surjection
<1>6. IsFiniteSet(U)
  BY <1>5, FS_Subset
<1>7. IsFiniteSet(TileEntries(U))
  <2> DEFINE g == [t \in U |-> TileEntry(t)]
  <2>1. g \in Surjection(U, TileEntries(U))
    BY DEF Surjection, TileEntries
  <2>q. QED  BY <1>6, <2>1, FS_Surjection
<1>8. IsFiniteSet(LeafEntries(U))
  <2> DEFINE g == [t \in U |-> LeafEntry(t)]
  <2>1. g \in Surjection(U, LeafEntries(U))
    BY DEF Surjection, LeafEntries
  <2>q. QED  BY <1>6, <2>1, FS_Surjection
<1>q. QED  BY <1>6, <1>7, <1>8

\* A directory of tiles and of the leaf directories of one level.
LEMMA DirectoryEntries ==
  ASSUME NEW U \in SUBSET Leaves, NEW L \in SUBSET Leaves
  PROVE  LET E == TileEntries(U) \union LeafEntries(L)
         IN  E \in SUBSET V2Entries /\ IsFiniteSet(E) /\ Distinct(E)
<1> DEFINE E == TileEntries(U) \union LeafEntries(L)
<1>1. E \in SUBSET V2Entries
  BY TileIs DEF TileEntries, LeafEntries
<1>2. IsFiniteSet(E)
  BY Finite, FS_Union
<1>3. ASSUME NEW e \in E, NEW f \in E, e.z = f.z /\ e.x = f.x /\ e.y = f.y  PROVE e = f
  <2>1. ASSUME NEW t \in Leaves, NEW u \in Leaves, t[1] = u[1] /\ t[2] = u[2] /\ t[3] = u[3]  PROVE t = u
    <3>1. t = << t[1], t[2], t[3] >> /\ u = << u[1], u[2], u[3] >>
      BY TileIs
    <3>q. QED  BY <2>1, <3>1
  <2>2. CASE e \in TileEntries(U) /\ f \in TileEntries(U)
    <3>1. PICK t \in U, u \in U : e = TileEntry(t) /\ f = TileEntry(u)
      BY <2>2 DEF TileEntries
    <3>2. t[1] = u[1] /\ t[2] = u[2] /\ t[3] = u[3]
      BY <1>3, <3>1, TileIs
    <3>q. QED  BY <2>1, <3>1, <3>2
  <2>3. CASE e \in LeafEntries(L) /\ f \in LeafEntries(L)
    <3>1. PICK t \in L, u \in L : e = LeafEntry(t) /\ f = LeafEntry(u)
      BY <2>3 DEF LeafEntries
    <3>2. 128 + t[1] = 128 + u[1] /\ t[2] = u[2] /\ t[3] = u[3] /\ t[1] \in 0..2 /\ u[1] \in 0..2
      BY <1>3, <3>1, TileIs
    <3>q. QED  BY <2>1, <3>1, <3>2
  <2>4. \A g \in TileEntries(U) : g.z \in 0..2
    BY TileIs DEF TileEntries
  <2>5. \A g \in LeafEntries(L) : g.z \in 128..130
    <3>1. ASSUME NEW l \in L  PROVE LeafEntry(l).z \in 128..130
      <4>1. l[1] \in 0..2 /\ LeafEntry(l).z = 128 + l[1]
        BY TileIs
      <4>q. QED  BY <4>1
    <3>q. QED  BY <3>1 DEF LeafEntries
  <2>6. ~(e \in TileEntries(U) /\ f \in LeafEntries(L)) /\ ~(f \in TileEntries(U) /\ e \in LeafEntries(L))
    <3>1. \A a \in 0..2, b \in 128..130 : a # b
      OBVIOUS
    <3>q. QED  BY <1>3, <2>4, <2>5, <3>1
  <2>q. QED  BY <2>2, <2>3, <2>6
<1>q. QED  BY <1>1, <1>2, <1>3 DEF Distinct

\* Such a directory as the reader searches it.
ViewOn(spec, U, L) == ViewOf(spec, Written(spec, TileEntries(U) \union LeafEntries(L)))

\* A query of such a directory.
LEMMA DirectoryQuery ==
  ASSUME NEW U \in SUBSET Leaves, NEW L \in SUBSET Leaves, NEW spec, NEW view,
         view = ViewOn(spec, U, L), NEW t \in Leaves
  PROVE  /\ queryTile(view, t[1], t[2], t[3]) = IF t \in U THEN TileEntry(t) ELSE V2None
         /\ queryLeafdir(view, t[1], t[2], t[3]) = IF t \in L THEN LeafEntry(t) ELSE V2None
<1> DEFINE E == TileEntries(U) \union LeafEntries(L)
<1>1. HoldsAll(view, E) /\ V2Sorted(view)
  BY DirectoryEntries, ViewIs DEF ViewOn
<1>2. t[1] \in 0..2 /\ t[2] \in 0..3 /\ t[3] \in 0..3 /\ t = << t[1], t[2], t[3] >>
  BY TileIs
<1>3. t[1] \in Nat /\ t[2] \in Nat /\ t[3] \in Nat /\ t[1] + 128 \in Nat
  BY <1>2
<1>4. \A u \in Leaves : u = << u[1], u[2], u[3] >> /\ u[1] \in 0..2
  BY TileIs
<1>5. queryView(view, t[1], t[2], t[3]) = IF t \in U THEN TileEntry(t) ELSE V2None
  <2>1. CASE t \in U
    <3>1. TileEntry(t) \in E /\ TileEntry(t).z = t[1] /\ TileEntry(t).x = t[2] /\ TileEntry(t).y = t[3]
      BY <2>1, TileIs DEF TileEntries
    <3> HIDE DEF E
    <3>q. QED  BY <1>1, <1>3, <2>1, <3>1, QueryIs
  <2>2. CASE t \notin U
    <3>1. ASSUME NEW e \in E, e.z = t[1] /\ e.x = t[2] /\ e.y = t[3]  PROVE FALSE
      <4>1. CASE e \in TileEntries(U)
        <5>1. PICK u \in U : e = TileEntry(u)
          BY <4>1 DEF TileEntries
        <5>2. u[1] = t[1] /\ u[2] = t[2] /\ u[3] = t[3]
          BY <3>1, <5>1, TileIs
        <5>q. QED  BY <1>2, <1>4, <2>2, <5>2
      <4>2. CASE e \in LeafEntries(L)
        <5>1. PICK u \in L : e = LeafEntry(u)
          BY <4>2 DEF LeafEntries
        <5>2. 128 + u[1] = t[1] /\ u[1] \in 0..2
          BY <3>1, <5>1, TileIs
        <5>q. QED  BY <1>2, <5>2
      <4>q. QED  BY <4>1, <4>2
    <3> HIDE DEF E
    <3>2. NoneAt(E, t[1], t[2], t[3])
      BY <3>1 DEF NoneAt
    <3>3. queryView(view, t[1], t[2], t[3]) = V2None
      BY <1>1, <1>3, <3>2, QueryIs
    <3>q. QED  BY <2>2, <3>3
  <2>q. QED  BY <2>1, <2>2
<1>6. queryView(view, t[1] + 128, t[2], t[3]) = IF t \in L THEN LeafEntry(t) ELSE V2None
  <2>1. CASE t \in L
    <3>1. LeafEntry(t) \in E /\ LeafEntry(t).z = t[1] + 128 /\ LeafEntry(t).x = t[2] /\ LeafEntry(t).y = t[3]
      BY <1>2, <2>1, TileIs DEF LeafEntries
    <3> HIDE DEF E
    <3>q. QED  BY <1>1, <1>3, <2>1, <3>1, QueryIs
  <2>2. CASE t \notin L
    <3>1. ASSUME NEW e \in E, e.z = t[1] + 128 /\ e.x = t[2] /\ e.y = t[3]  PROVE FALSE
      <4>1. CASE e \in LeafEntries(L)
        <5>1. PICK u \in L : e = LeafEntry(u)
          BY <4>1 DEF LeafEntries
        <5>2. 128 + u[1] = t[1] + 128 /\ u[2] = t[2] /\ u[3] = t[3] /\ u[1] \in 0..2
          BY <3>1, <5>1, TileIs
        <5>q. QED  BY <1>2, <1>4, <2>2, <5>2
      <4>2. CASE e \in TileEntries(U)
        <5>1. PICK u \in U : e = TileEntry(u)
          BY <4>2 DEF TileEntries
        <5>2. u[1] = t[1] + 128 /\ u[1] \in 0..2
          BY <3>1, <5>1, TileIs
        <5>q. QED  BY <1>2, <5>2
      <4>q. QED  BY <4>1, <4>2
    <3> HIDE DEF E
    <3>2. NoneAt(E, t[1] + 128, t[2], t[3])
      BY <3>1 DEF NoneAt
    <3>3. queryView(view, t[1] + 128, t[2], t[3]) = V2None
      BY <1>1, <1>3, <3>2, QueryIs
    <3>q. QED  BY <2>2, <3>3
  <2>q. QED  BY <2>1, <2>2
<1>q. QED  BY <1>5, <1>6 DEF queryTile, queryLeafdir

\* What a directory of the tiles U and the leaf directories L answers to queryTile() and
\* queryLeafdir().
AnswersFor(view, U, L) ==
  \A t \in Leaves : /\ queryTile(view, t[1], t[2], t[3]) = IF t \in U THEN TileEntry(t) ELSE V2None
                    /\ queryLeafdir(view, t[1], t[2], t[3]) = IF t \in L THEN LeafEntry(t) ELSE V2None

\* The reader's directory answers so.
LEMMA DirectoryAnswers ==
  ASSUME NEW U \in SUBSET Leaves, NEW L \in SUBSET Leaves, NEW spec
  PROVE  AnswersFor(ViewOn(spec, U, L), U, L)
BY DirectoryQuery DEF AnswersFor

\* The level of the leaf directories is read from the last entry of the root.
LEMMA RootLast ==
  ASSUME NEW U \in SUBSET Leaves, NEW L \in SUBSET Leaves, NEW spec, NEW view,
         view = ViewOn(spec, U, L)
  PROVE  /\ view \in Seq(V2Entries)
         /\ L = {} /\ Len(view) # 0 => Last(view).z - 128 < 0
         /\ L # {} => Len(view) # 0 /\ \E l \in L : Last(view).z - 128 = l[1]
<1> DEFINE E == TileEntries(U) \union LeafEntries(L)
           n == Len(view)
<1>1. HoldsAll(view, E) /\ V2Sorted(view)
  BY DirectoryEntries, ViewIs DEF ViewOn
<1>2. view \in Seq(V2Entries) /\ n \in Nat /\ DOMAIN view = 1..n
  BY <1>1 DEF HoldsAll
<1>3. Last(view) = view[n]
  BY DEF Last
<1>4. n # 0 => n \in 1..n /\ view[n] \in E
  <2> HIDE DEF n, E
  <2>1. n # 0 => n \in 1..n
    BY <1>2
  <2>q. QED  BY <1>1, <1>2, <2>1 DEF HoldsAll
<1>5. \A e \in TileEntries(U) : e.z \in 0..2
  BY TileIs DEF TileEntries
<1>6. \A e \in LeafEntries(L) : \E l \in L : e.z = 128 + l[1] /\ l[1] \in 0..2
  BY TileIs DEF LeafEntries
<1> HIDE DEF n
<1>7. ASSUME L = {}, n # 0  PROVE Last(view).z - 128 < 0
  <2>1. view[n] \in TileEntries(U)
    BY <1>4, <1>7 DEF LeafEntries
  <2>2. view[n].z \in 0..2
    BY <1>5, <2>1
  <2>q. QED  BY <1>3, <2>2
<1>8. ASSUME L # {}  PROVE n # 0 /\ \E l \in L : Last(view).z - 128 = l[1]
  <2>1. PICK l \in L : TRUE
    BY <1>8
  <2>2. LeafEntry(l) \in E /\ LeafEntry(l).z = 128 + l[1] /\ l[1] \in 0..2
    BY TileIs DEF LeafEntries
  <2>3. PICK i \in 1..n : view[i] = LeafEntry(l)
    BY <1>1, <1>2, <2>2 DEF HoldsAll
  <2>4. n # 0 /\ n \in 1..n /\ view[n] \in E
    BY <1>2, <1>4, <2>3
  <2>5. view[n] \notin TileEntries(U)
    <3>1. SUFFICES ASSUME view[n] \in TileEntries(U)  PROVE FALSE
      OBVIOUS
    <3>2. view[n].z \in 0..2
      BY <1>5, <3>1
    <3>3. i # n
      BY <2>2, <2>3, <3>2
    <3>4. i < n
      BY <1>2, <2>3, <3>3
    <3>5. V2Before(view[i], view[n])
      BY <1>1, <1>2, <2>4, <3>4 DEF V2Sorted
    <3>q. QED  BY <2>2, <2>3, <3>2, <3>5 DEF V2Before
  <2>6. PICK u \in L : view[n].z = 128 + u[1] /\ u[1] \in 0..2
    BY <1>6, <2>4, <2>5
  <2>q. QED  BY <1>3, <2>4, <2>6
<1>q. QED  BY <1>2, <1>7, <1>8 DEF n

----------------------------------------------------------------------------
\* The sides of the levels 0 to 2.
LEMMA PowersToFour == 2^0 = 1 /\ 2^1 = 2 /\ 2^2 = 4
<1>1. 2^0 = 1
  BY PowerZero
<1>2. 2^(0 + 1) = 2 * 2^0 /\ 2^(1 + 1) = 2 * 2^1
  BY PowerStep, 0 \in Nat, 1 \in Nat
<1>3. 0 + 1 = 1 /\ 1 + 1 = 2
  OBVIOUS
<1>q. QED  BY <1>1, <1>2, <1>3

\* The leaf directory that covers a tile is one of its level.
LEMMA CoveringIs ==
  ASSUME NEW t \in Leaves, NEW level \in 0..2, t[1] >= level
  PROVE  Covering(t, level) \in Leaves /\ Covering(t, level)[1] = level
<1>1. t[1] \in 0..2 /\ t[2] \in 0..3 /\ t[3] \in 0..3
  BY TileIs
<1>2. 2^0 = 1 /\ 2^1 = 2 /\ 2^2 = 4
  BY PowersToFour
<1> DEFINE p == 2^(t[1] - level)
<1>3. p \in {1, 2, 4}
  <2>1. t[1] - level \in {0, 1, 2}
    BY <1>1
  <2>q. QED  BY <1>2, <2>1
<1>4. Covering(t, level) = << level, t[2] \div p, t[3] \div p >>
  BY DEF Covering
<1> HIDE DEF p
<1>5. t[2] \div p \in 0..3 /\ t[3] \div p \in 0..3
  BY <1>1, <1>3
<1>q. QED  BY <1>4, <1>5 DEF Leaves

\* deriveLeaf() computes the leaf directory that covers the tile, from the level it reads off the
\* last entry.
LEMMA DeriveIs ==
  ASSUME NEW view, Len(view) # 0, NEW level \in 0..2, Last(view).z - 128 = level, NEW t \in Leaves
  PROVE  deriveLeaf(view, t[1], t[2], t[3]) = IF t[1] < level THEN << level, 0, 0 >> ELSE Covering(t, level)
<1> DEFINE lv == Last(view).z - 128
<1>1. ~(Len(view) = 0 \/ lv < 0)
  OBVIOUS
<1>2. deriveLeaf(view, t[1], t[2], t[3]) =
        IF Len(view) = 0 \/ lv < 0 THEN << >>
        ELSE IF t[1] < lv THEN << lv, 0, 0 >>
        ELSE << lv, t[2] \div 2^(t[1] - lv), t[3] \div 2^(t[1] - lv) >>
  BY Zenon DEF deriveLeaf
<1>3. lv = level
  OBVIOUS
<1> HIDE DEF lv
<1>4. Covering(t, lv) = << lv, t[2] \div 2^(t[1] - lv), t[3] \div 2^(t[1] - lv) >>
  BY Zenon DEF Covering
<1>q. QED  BY <1>1, <1>2, <1>3, <1>4, Zenon

\* The directories of an archive: where the leaf directories lie, and what each holds.
Covers(F, level) == { Covering(t, level) : t \in F }
Stored(F, level, o) == { u \in F : LeafEntry(Covering(u, level)).offset = o }
LeafDirs(spec, F, level) ==
  [o \in { LeafEntry(l).offset : l \in Covers(F, level) } |-> Written(spec, TileEntries(Stored(F, level, o)))]
RootDir(spec, U, F, level) == Written(spec, TileEntries(U) \union LeafEntries(Covers(F, level)))

AtLeast(F, level) == \A t \in F : t[1] >= level

\* A query of an archive: the root first, then the leaf directory that covers the tile.
LEMMA OldArchive ==
  ASSUME NEW spec, NEW level \in 0..2, NEW U \in SUBSET Leaves, NEW F \in SUBSET Leaves,
         AtLeast(F, level), NEW t \in Leaves
  PROVE  v2Entry(spec, RootDir(spec, U, F, level), LeafDirs(spec, F, level), t[1], t[2], t[3])
           = IF t \in U \union F THEN TileEntry(t) ELSE V2None
<1> DEFINE L == Covers(F, level)
           view == ViewOn(spec, U, L)
           leafAt == LeafDirs(spec, F, level)
           hit == queryTile(view, t[1], t[2], t[3])
           leaf == deriveLeaf(view, t[1], t[2], t[3])
           leafEntry == queryLeafdir(view, leaf[1], leaf[2], leaf[3])
           found == v2Entry(spec, RootDir(spec, U, F, level), leafAt, t[1], t[2], t[3])
<1>1. t[1] \in 0..2 /\ TileEntry(t) # V2None
  BY TileIs
<1>2. L \in SUBSET Leaves /\ \A l \in L : l[1] = level
  BY CoveringIs DEF Covers, AtLeast
<1>3. found = IF hit # V2None THEN hit
              ELSE IF leaf = << >> \/ leafEntry = V2None THEN V2None
              ELSE queryTile(ViewOf(spec, leafAt[leafEntry.offset]), t[1], t[2], t[3])
  BY Zenon DEF v2Entry, ViewOf, ViewOn, RootDir
<1>4. hit = IF t \in U THEN TileEntry(t) ELSE V2None
  <2> HIDE DEF L, view
  <2>1. view = ViewOn(spec, U, L)
    BY DEF view
  <2>q. QED  BY <1>2, <2>1, DirectoryQuery
<1>5. CASE t \in U
  <2>1. hit = TileEntry(t) /\ t \in U \union F
    BY <1>4, <1>5
  <2> HIDE DEF found, hit, leaf, leafEntry, view, leafAt
  <2>2. found = TileEntry(t)
    BY <1>1, <1>3, <2>1
  <2>q. QED  BY <2>1, <2>2 DEF found, leafAt
<1>6. CASE t \notin U /\ F = {}
  <2>1. L = {}
    BY <1>6 DEF Covers
  <2>2. Len(view) = 0 \/ Last(view).z - 128 < 0
    BY <1>2, <2>1, RootLast
  <2>3. leaf = << >>
    BY <2>2, Zenon DEF deriveLeaf
  <2>4. hit = V2None /\ t \notin U \union F
    BY <1>4, <1>6
  <2> HIDE DEF found, hit, leaf, leafEntry, view, leafAt
  <2>5. found = V2None
    BY <1>3, <2>3, <2>4
  <2>q. QED  BY <2>4, <2>5 DEF found, leafAt
<1>7. CASE t \notin U /\ F # {}
  <2>1. L # {}
    BY <1>7 DEF Covers
  <2>2. Len(view) # 0 /\ Last(view).z - 128 = level
    <3>1. Len(view) # 0 /\ \E l \in L : Last(view).z - 128 = l[1]
      <4> HIDE DEF L, view
      <4>1. view = ViewOn(spec, U, L)
        BY DEF view
      <4>q. QED  BY <1>2, <2>1, <4>1, RootLast
    <3>q. QED  BY <1>2, <3>1
  <2> DEFINE c == IF t[1] < level THEN << level, 0, 0 >> ELSE Covering(t, level)
  <2>3. leaf = c
    <3> HIDE DEF view
    <3>q. QED  BY <2>2, DeriveIs
  <2>4. c \in Leaves /\ c # << >>
    <3>0. \A u \in Leaves : u # << >>
      BY DEF Leaves
    <3>1. CASE t[1] < level
      <4>1. << level, 0, 0 >> \in Leaves
        BY DEF Leaves
      <4>2. c = << level, 0, 0 >>
        BY <3>1
      <4>q. QED  BY <3>0, <4>1, <4>2
    <3>2. CASE ~(t[1] < level)
      <4>1. t[1] >= level
        BY <1>1, <3>2
      <4>2. Covering(t, level) \in Leaves
        BY <4>1, CoveringIs
      <4>3. c = Covering(t, level)
        BY <3>2
      <4>q. QED  BY <3>0, <4>2, <4>3
    <3>q. QED  BY <3>1, <3>2
  <2>5. t \in F => c \in L /\ c = Covering(t, level)
    BY <1>1 DEF Covers, AtLeast
  <2> HIDE DEF c
  <2>6. leafEntry = IF c \in L THEN LeafEntry(c) ELSE V2None
    <3> HIDE DEF L, view, leaf
    <3>1. view = ViewOn(spec, U, L)
      BY DEF view
    <3>1a. AnswersFor(view, U, L)
      BY <1>2, <3>1, DirectoryAnswers
    <3>2. queryLeafdir(view, c[1], c[2], c[3]) = IF c \in L THEN LeafEntry(c) ELSE V2None
      BY <2>4, <3>1a, Zenon DEF AnswersFor
    <3>q. QED  BY <2>3, <3>2, Zenon
  <2>7. hit = V2None
    BY <1>4, <1>7
  <2>8. CASE c \notin L
    <3>1. t \notin U \union F
      BY <1>7, <2>5, <2>8
    <3>2. leafEntry = V2None
      BY <2>6, <2>8
    <3> HIDE DEF found, hit, leaf, leafEntry, view, leafAt, L
    <3>3. found = V2None
      BY <1>3, <2>7, <3>2
    <3>q. QED  BY <3>1, <3>3 DEF found, leafAt
  <2>9. CASE c \in L
    <3>1. leafEntry = LeafEntry(c) /\ leafEntry # V2None
      BY <2>4, <2>6, <2>9, TileIs
    <3> DEFINE o == LeafEntry(c).offset
               S == Stored(F, level, o)
    <3>2. leafAt[leafEntry.offset] = Written(spec, TileEntries(S))
      BY <2>9, <3>1 DEF LeafDirs
    <3>3. S \in SUBSET Leaves
      BY DEF Stored
    <3>4. t \in S <=> t \in U \union F
      BY <1>7, <2>5 DEF Stored
    <3> HIDE DEF S, o
    <3>5. ViewOf(spec, Written(spec, TileEntries(S))) = ViewOn(spec, S, {})
      <4>1. TileEntries(S) = TileEntries(S) \union LeafEntries({})
        BY DEF LeafEntries
      <4>q. QED  BY <4>1 DEF ViewOn
    <3>6. queryTile(ViewOn(spec, S, {}), t[1], t[2], t[3]) = IF t \in S THEN TileEntry(t) ELSE V2None
      <4>1. {} \in SUBSET Leaves
        OBVIOUS
      <4>q. QED  BY <3>3, <4>1, DirectoryQuery
    <3>7. leaf # << >>
      BY <2>3, <2>4
    <3> HIDE DEF found, hit, leaf, leafEntry, view, leafAt, L
    <3>8. found = queryTile(ViewOn(spec, S, {}), t[1], t[2], t[3])
      BY <1>3, <2>7, <3>1, <3>2, <3>5, <3>7
    <3>q. QED  BY <3>4, <3>6, <3>8 DEF found, leafAt
  <2>q. QED  BY <2>8, <2>9
<1>q. QED  BY <1>5, <1>6, <1>7

\* An archive answers every query right.
ArchiveAnswers(spec, U, F, level) ==
  \A t \in Leaves :
    v2Entry(spec, RootDir(spec, U, F, level), LeafDirs(spec, F, level), t[1], t[2], t[3])
      = IF t \in U \union F THEN TileEntry(t) ELSE V2None

\* The same for all places at once.
LEMMA OldArchiveAnswers ==
  ASSUME NEW spec, NEW level \in 0..2, NEW U \in SUBSET Leaves, NEW F \in SUBSET Leaves, AtLeast(F, level)
  PROVE  ArchiveAnswers(spec, U, F, level)
BY OldArchive DEF ArchiveAnswers

\* The tiles of the levels 0 to 2 are such places.
LEMMA LevelTiles ==
  ASSUME NEW z \in 0..2, NEW x \in 0..(2^z - 1), NEW y \in 0..(2^z - 1)
  PROVE  << z, x, y >> \in Leaves
<1> DEFINE p == 2^z
<1>1. p \in {1, 2, 4}
  <2>1. z = 0 \/ z = 1 \/ z = 2
    OBVIOUS
  <2>q. QED  BY <2>1, PowersToFour
<1>2. x \in 0..(p - 1) /\ y \in 0..(p - 1)
  OBVIOUS
<1> HIDE DEF p
<1>3. x \in 0..3 /\ y \in 0..3
  BY <1>1, <1>2
<1>q. QED  BY <1>3 DEF Leaves

\* Of every archive of format 1 or 2 over the levels 0 to 2, however its tiles are shared between
\* the root and the leaf directories, createDirectory(), queryView() and deriveLeaf() lead to the
\* tile's entry, and to none for a tile it has not.
THEOREM OldDirectoriesFind == input \in OldInputs => OldFormatsFind
<1> SUFFICES ASSUME input \in OldInputs  PROVE OldFormatsFind
  OBVIOUS
<1> DEFINE spec == input.spec
           level == input.level
           U == input.root
           F == input.leaf
           Found(z, x, y) ==
             v2Entry(spec, RootDir(spec, U, F, level), LeafDirs(spec, F, level), z, x, y)
               = IF << z, x, y >> \in U \union F THEN TileEntry(<< z, x, y >>) ELSE V2None
<1>1. /\ level \in 0..2 /\ U \in SUBSET Leaves /\ F \in SUBSET Leaves /\ AtLeast(F, level)
  BY DEF OldInputs, AllTiles, Leaves, AtLeast
<1>2. (\A z \in 0..2 : \A x, y \in 0..(2^z - 1) : Found(z, x, y)) => OldFormatsFind
  BY Zenon DEF OldFormatsFind, TileEntries, LeafEntries, RootDir, LeafDirs, Covers, Stored
<1> HIDE DEF spec, level, U, F
<1>3. ASSUME NEW z \in 0..2, NEW x \in 0..(2^z - 1), NEW y \in 0..(2^z - 1)  PROVE Found(z, x, y)
  <2> DEFINE t == << z, x, y >>
  <2>1. t \in Leaves /\ t[1] = z /\ t[2] = x /\ t[3] = y
    BY LevelTiles
  <2> HIDE DEF t
  <2>2. v2Entry(spec, RootDir(spec, U, F, level), LeafDirs(spec, F, level), t[1], t[2], t[3])
          = IF t \in U \union F THEN TileEntry(t) ELSE V2None
    <3>1. ArchiveAnswers(spec, U, F, level)
      BY <1>1, OldArchiveAnswers
    <3>q. QED  BY <2>1, <3>1, Zenon DEF ArchiveAnswers
  <2>3. v2Entry(spec, RootDir(spec, U, F, level), LeafDirs(spec, F, level), z, x, y)
          = IF t \in U \union F THEN TileEntry(t) ELSE V2None
    BY <2>1, <2>2, Zenon
  <2>q. QED  BY <2>3, Zenon DEF t
<1> HIDE DEF Found
<1>q. QED  BY <1>2, <1>3

\* The directories of all three formats lead from a tile to the entry that holds it and from a
\* tile the archive has not to none: deserializeIndex() and findTile() for format 3,
\* createDirectory(), queryView() and deriveLeaf() for the formats before.
THEOREM DirectoriesFindTiles == input \in DirectoryInputs \union OldInputs => DirectoryFindsTile
<1>1. ASSUME input \in DirectoryInputs  PROVE DirectoryFindsTile
  <2>1. input.kind = "directory"
    BY <1>1 DEF DirectoryInputs
  <2>2. OldFormatsFind
    BY <2>1 DEF OldFormatsFind
  <2>q. QED  BY <1>1, <2>2, Format3DirectoriesFind DEF DirectoryFindsTile
<1>2. ASSUME input \in OldInputs  PROVE DirectoryFindsTile
  <2>1. input.kind = "v2"
    BY <1>2 DEF OldInputs
  <2>2. Format3Finds
    BY <2>1 DEF Format3Finds
  <2>q. QED  BY <1>2, <2>2, OldDirectoriesFind DEF DirectoryFindsTile
<1>q. QED  BY <1>1, <1>2
============================================================================
