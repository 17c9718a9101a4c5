---------------------------- MODULE PMTilesIndex ----------------------------
(***************************************************************************)
(* The index of a PMTiles archive as src/app/static/js/pmtiles.js reads    *)
(* it: variable-length integers, the directories of format version 3, the  *)
(* Hilbert numbering of the tiles, and the sorted directories of the older *)
(* formats 1 and 2.  Everything is a pure function of its arguments; the   *)
(* client that fetches and caches the directories is module PMTiles.       *)
(*                                                                         *)
(* A binary number is the set of the positions of its one bits, so that 64 *)
(* bits fit: a byte is a subset of 0..7 and "& 127" drops position 7.      *)
(***************************************************************************)
EXTENDS Integers, Sequences, TLC, FiniteSetsExt, SequencesExt

Error == "error"          \* the JavaScript exception

----------------------------------------------------------------------------
(* Variable-length integers. *)

Shl(bits, k) == { b + k : b \in bits }

\* A double holds 53 significant bits; a longer number comes back rounded.
Rounded == {-1}
toNum(low, high) ==
  LET n == low \union Shl(high, 32)
  IN  IF n # {} /\ Max(n) - Min(n) > 52 THEN Rounded ELSE n

\* buf[i] past the end is undefined: no bits, and not less than 128.
ByteAt(buf, i) == IF i <= Len(buf) THEN buf[i] ELSE {7}
Group(buf, i) == ByteAt(buf, i) \ {7}

\* Mutant: the sixth and later groups are placed a bit too high.
readVarintRemainderHigh(low, buf, pos, n) ==
  toNum(low, Shl(Group(buf, pos + 4) \ (0..3), -4)
             \union UNION { Shl(Group(buf, pos + k - 1), 7 * k - 38) : k \in 6..n })

\* The upper 32 bits: bits 4..6 of the fifth byte, then the bytes 6 to 10.
readVarintRemainder(low, buf, pos, n) ==
  toNum(low, Shl(Group(buf, pos + 4) \ (0..3), -4)
             \union UNION { Shl(Group(buf, pos + k - 1) \intersect (IF k = 10 THEN {0} ELSE 0..6),
                                7 * k - 39) : k \in 6..n })

\* The number at buf[pos] and the position after it.
readVarint(buf, pos) ==
  LET ends == { k \in 1..10 : 7 \notin ByteAt(buf, pos + k - 1) }
      n == Min(ends)
      low == (UNION { Shl(Group(buf, pos + k - 1), 7 * (k - 1)) : k \in 1..Min({n, 5}) })
             \intersect 0..31
  IN  IF ends = {} THEN [num |-> Error, next |-> pos + 10]
      ELSE [num  |-> IF n < 5 THEN low ELSE readVarintRemainder(low, buf, pos, n),
            next |-> pos + n]

----------------------------------------------------------------------------
(* Directories of format version 3.  nums is the sequence of the varints   *)
(* of the buffer: running past its end is readVarint's Error.              *)

deserializeIndex(nums) ==
  LET n == nums[1]
      id[i \in 0..n] == IF i = 0 THEN 0 ELSE id[i - 1] + nums[1 + i]
      length(i) == nums[1 + 2 * n + i]
      coded(i) == nums[1 + 3 * n + i]
      offset[i \in 1..n] == IF coded(i) = 0 /\ i > 1 THEN offset[i - 1] + length(i - 1)
                            ELSE coded(i) - 1
  IN  IF Len(nums) < 1 \/ Len(nums) < 1 + 4 * n THEN Error
      ELSE [i \in 1..n |-> [tileId |-> id[i], runLength |-> nums[1 + n + i],
                            length |-> length(i), offset |-> offset[i]]]

\* A round of the binary search for an id between m and n, which ends with m > n.
Halved(entries, tileId, m, n) ==
  LET k == (n + m) \div 2
  IN  IF m > n THEN << m, n >>
      ELSE IF tileId > entries[k].tileId THEN << k + 1, n >>
      ELSE IF tileId < entries[k].tileId THEN << m, k - 1 >>
      ELSE << k + 1, k >>

\* m and n after every round; each leaves at least one entry fewer.
Search(entries, tileId) ==
  LET at[i \in 0..Len(entries)] ==
        IF i = 0 THEN << 1, Len(entries) >> ELSE Halved(entries, tileId, at[i - 1][1], at[i - 1][2])
  IN  at

\* Where the search stops: the entry with this id, or the last one before it
\* (0 if there is none).
Probe(entries, tileId) == Search(entries, tileId)[Len(entries)][2]

None == [tileId |-> -1, runLength |-> 0, length |-> 0, offset |-> 0]   \* null

\* Mutant: the run is one tile too long.
findTileLongRun(entries, tileId) ==
  LET n == Probe(entries, tileId)
  IN  IF n > 0 /\ (entries[n].runLength = 0 \/ tileId - entries[n].tileId <= entries[n].runLength)
      THEN entries[n] ELSE None

findTile(entries, tileId) ==
  LET n == Probe(entries, tileId)
  IN  IF n > 0 /\ ( \/ entries[n].tileId = tileId
                    \/ entries[n].runLength = 0
                    \/ tileId - entries[n].tileId < entries[n].runLength )
      THEN entries[n] ELSE None

----------------------------------------------------------------------------
(* The Hilbert numbering. *)

rotate(n, xy, rx, ry) ==
  IF ry # 0 THEN xy
  ELSE IF rx = 1 THEN << n - 1 - xy[2], n - 1 - xy[1] >> ELSE << xy[2], xy[1] >>

\* "&" with a power of two, which sees a negative number as two's complement.
HasBit(n, s) == (n \div s) % 2

\* The table tzValues: how many tiles the levels below z have.
tzValues(z) == (2^z * 2^z - 1) \div 3

\* A round of idOnLevel(): xy within the level below, turned and put in its quadrant.
\* t / 2 and t / 4 keep their fraction in the code, which "&" and "^" drop.
Round(pos, k, xy) ==
  LET s  == 2^(k - 1)
      t  == pos \div (s * s)
      rx == (t \div 2) % 2
      ry == (t + rx) % 2
      turned == rotate(s, xy, rx, ry)
  IN  << turned[1] + s * rx, turned[2] + s * ry >>

\* xy after every round.
Walk(z, pos) ==
  LET walk[k \in 0..z] == IF k = 0 THEN << 0, 0 >> ELSE Round(pos, k, walk[k - 1])
  IN  walk

idOnLevel(z, pos) == << z, Walk(z, pos)[z][1], Walk(z, pos)[z][2] >>

\* 3 * rx ^ ry numbers the quadrants 0, 1, 2, 3 in the order of the curve.
Quadrant(rx, ry) == IF ry = 1 THEN rx + 1 ELSE 3 * rx

\* Mutant: the quadrant is rotated by the size of the whole level.
CountedWide(z, k, old) ==
  LET s  == 2^(z - k)
      rx == HasBit(old.xy[1], s)
      ry == HasBit(old.xy[2], s)
  IN  [d |-> old.d + s * s * Quadrant(rx, ry), xy |-> rotate(2^z - 1, old.xy, rx, ry)]

\* Round k of the loop of zxyToTileId().  The loop halves s past 1 without
\* rounding; those rounds add nothing to d.
Counted(z, k, old) ==
  LET s  == 2^(z - k)
      rx == HasBit(old.xy[1], s)
      ry == HasBit(old.xy[2], s)
  IN  [d |-> old.d + s * s * Quadrant(rx, ry), xy |-> rotate(s, old.xy, rx, ry)]

\* d and xy after every round.
Count(z, x, y) ==
  LET count[k \in 0..z] == IF k = 0 THEN [d |-> 0, xy |-> << x, y >>] ELSE Counted(z, k, count[k - 1])
  IN  count

zxyToTileId(z, x, y) ==
  IF z > 26 \/ x > 2^z - 1 \/ y > 2^z - 1 THEN Error ELSE tzValues(z) + Count(z, x, y)[z].d

tileIdToZxy(i) ==
  LET OnLevel(z) == tzValues(z) <= i /\ i < tzValues(z) + 2^z * 2^z
  IN  IF \E z \in 0..26 : OnLevel(z)
      THEN LET z == CHOOSE z \in 0..26 : OnLevel(z) IN idOnLevel(z, i - tzValues(z))
      ELSE Error

----------------------------------------------------------------------------
(* Directories of formats 1 and 2: a sequence of entries of 17 bytes, with *)
(* the level (and 128 for a leaf directory), x, y, a 48-bit offset kept as *)
(* a set of bits, and the length.                                          *)

\* compare(): by raw level, x, y.
V2Before(a, b) ==
  \/ a.z < b.z
  \/ a.z = b.z /\ (a.x < b.x \/ (a.x = b.x /\ a.y < b.y))

\* Where a stable sort puts the i-th entry.
Rank(entries, i) ==
  1 + Cardinality({ j \in DOMAIN entries : \/ V2Before(entries[j], entries[i])
                                           \/ j < i /\ ~V2Before(entries[i], entries[j]) })

\* entrySort() orders tiles before leaf directories; the raw level does too.
\* createDirectory() writes offset >> 48 to the sixth byte of the offset, so
\* that bits 40 to 47 are lost.  ("<< >> \o" has TLC evaluate the sequence once.)
createDirectory(entries) ==
  LET at(k) == CHOOSE i \in DOMAIN entries : Rank(entries, i) = k
  IN  << >> \o [k \in DOMAIN entries |-> [entries[at(k)] EXCEPT !.offset = @ \intersect 0..39]]

sortDir(entries) == createDirectory(entries)

V2None == [z |-> -1, x |-> 0, y |-> 0, offset |-> {}, length |-> 0]

\* As Halved, by compare().
V2Halved(view, key, m, n) ==
  LET k == (n + m) \div 2
  IN  IF m > n THEN << m, n >>
      ELSE IF V2Before(view[k], key) THEN << k + 1, n >>
      ELSE IF V2Before(key, view[k]) THEN << m, k - 1 >>
      ELSE << k + 1, k >>

V2Search(view, key) ==
  LET at[i \in 0..Len(view)] ==
        IF i = 0 THEN << 1, Len(view) >> ELSE V2Halved(view, key, at[i - 1][1], at[i - 1][2])
  IN  at

queryView(view, z, x, y) ==
  LET key == [z |-> z, x |-> x, y |-> y]
      n == V2Search(view, key)[Len(view)][2]
  IN  IF n > 0 /\ << view[n].z, view[n].x, view[n].y >> = << z, x, y >> THEN view[n] ELSE V2None

queryTile(view, z, x, y) == queryView(view, z, x, y)
queryLeafdir(view, z, x, y) == queryView(view, z + 128, x, y)

\* The leaf that covers a tile; 1 << levelDiff of a negative difference is a
\* shift by 32 + levelDiff, larger than any x, so that the quotient is 0.
deriveLeaf(view, z, x, y) ==
  LET level == Last(view).z - 128
  IN  IF Len(view) = 0 \/ level < 0 THEN << >>
      ELSE IF z < level THEN << level, 0, 0 >>
      ELSE << level, x \div 2^(z - level), y \div 2^(z - level) >>

\* getZxy() of the old formats: the root, then at most one leaf.  leafAt maps
\* an offset to the directory stored there.
v2Entry(specVersion, root, leafAt, z, x, y) ==
  LET Sorted(dir) == IF specVersion = 1 THEN sortDir(dir) ELSE dir
      rootDir == Sorted(root)
      hit == queryTile(rootDir, z, x, y)
      leaf == deriveLeaf(rootDir, z, x, y)
      leafEntry == queryLeafdir(rootDir, leaf[1], leaf[2], leaf[3])
  IN  IF hit # V2None THEN hit
      ELSE IF leaf = << >> \/ leafEntry = V2None THEN V2None
      ELSE queryTile(Sorted(leafAt[leafEntry.offset]), z, x, y)
============================================================================
