--------------------------- MODULE PMTilesFormats ---------------------------
(***************************************************************************)
(* What the readers of module PMTilesIndex must compute, stated from the   *)
(* formats and not from the code: a LEB128 writer, the writers of the old  *)
(* and the new directories and the order of the tile ids and, as           *)
(* invariants over one chosen input, that the reader undoes the writer.    *)
(***************************************************************************)
EXTENDS PMTilesIndex

VARIABLE input        \* the input under test: a record with a kind

----------------------------------------------------------------------------
(* LEB128. *)

LEB128(bits_) ==
  LET n == IF bits_ = {} THEN 1 ELSE (Max(bits_) \div 7) + 1
  IN  [k \in 1..n |-> Shl(bits_ \intersect ((7 * k - 7)..(7 * k - 1)), 7 - 7 * k)
                      \union (IF k < n THEN {7} ELSE {})]

(* readVarint() undoes LEB128 for every number a double holds, leaves the   *)
(* position behind it, says of a longer number that it is rounded, and      *)
(* takes no cut-off number for a shorter one.                               *)
VarintIsLEB128 ==
  input.kind = "varint" =>
    LET n == input.bits
        code == LEB128(n)
        read == readVarint(code \o << {0} >>, 1)
    IN  /\ read.next = Len(code) + 1
        /\ read.num = IF n # {} /\ Max(n) - Min(n) > 52 THEN Rounded ELSE n
        /\ \A k \in 0..(Len(code) - 1) : readVarint(SubSeq(code, 1, k), 1).num = Error

----------------------------------------------------------------------------
(* Directories of format 3. *)

serialize(entries) ==
  LET n == Len(entries)
      coded(i) == IF i > 1 /\ entries[i].offset = entries[i - 1].offset + entries[i - 1].length
                  THEN 0 ELSE entries[i].offset + 1
  IN  << n >> \o [i \in 1..n |-> entries[i].tileId - (IF i = 1 THEN 0 ELSE entries[i - 1].tileId)]
      \o [i \in 1..n |-> entries[i].runLength] \o [i \in 1..n |-> entries[i].length]
      \o [i \in 1..n |-> coded(i)]

\* Of a directory read back: for every tile id the entry that holds it is found, the last
\* one not after the id, if it is a leaf directory or its run reaches the id; a shortened
\* directory is an error.
Format3Finds ==
  input.kind = "directory" =>
    LET dir == input.entries
        read == deserializeIndex(serialize(dir))
        UpTo(id) == { i \in DOMAIN dir : dir[i].tileId <= id }
        Holds(i, id) == dir[i].runLength = 0 \/ id < dir[i].tileId + dir[i].runLength
    IN  /\ \A id \in 0..(Last(dir).tileId + 3) :
              findTile(read, id) = IF UpTo(id) # {} /\ Holds(Max(UpTo(id)), id)
                                   THEN dir[Max(UpTo(id))] ELSE None
        /\ \A k \in 0..(4 * Len(dir)) : deserializeIndex(SubSeq(serialize(dir), 1, k)) = Error

----------------------------------------------------------------------------
(* The tile numbering. *)

Distance(a, b) == IF a > b THEN a - b ELSE b - a

(* Tile ids number the tiles level by level without gap or repetition: the  *)
(* id of a tile leads back to it, stays within its level, and the next id   *)
(* of the level is a neighbouring tile (so that a run of ids is an area).   *)
(* A tile outside its level has no id.                                      *)
TileIdsAreACurve ==
  input.kind = "tile" =>
    LET z == input.z
        id == zxyToTileId(z, input.x, input.y)
        next == tileIdToZxy(id + 1)
    IN  /\ tileIdToZxy(id) = << z, input.x, input.y >>
        /\ id \in tzValues(z)..(tzValues(z + 1) - 1)
        /\ id + 1 < tzValues(z + 1) =>
             /\ next[1] = z
             /\ Distance(next[2], input.x) + Distance(next[3], input.y) = 1
        /\ zxyToTileId(z, 2^z, input.y) = Error /\ zxyToTileId(z, input.x, 2^z) = Error

----------------------------------------------------------------------------
(* Directories of formats 1 and 2.  input.root is the set of tiles in the   *)
(* root, input.leaf those in leaf directories of level input.level; format  *)
(* 1 leaves the order of the entries open (here reversed).                  *)

TileEntry(t) == [z |-> t[1], x |-> t[2], y |-> t[3],
                 offset |-> {t[1], 10 + t[2], 20 + t[3], 39}, length |-> 1]
Covering(t, level) == << level, t[2] \div 2^(t[1] - level), t[3] \div 2^(t[1] - level) >>
LeafEntry(l) == [z |-> 128 + l[1], x |-> l[2], y |-> l[3],
                 offset |-> {5, 10 + l[2], 20 + l[3]}, length |-> 17]
Ahead(entries, e) == { f \in entries : V2Before(f, e) }
Written(spec, entries) ==
  LET sorted == << >> \o [k \in 1..Cardinality(entries) |->
                             CHOOSE e \in entries : Cardinality(Ahead(entries, e)) = k - 1]
  IN  << >> \o (IF spec = 1 THEN Reverse(sorted) ELSE sorted)

\* A tile of the archive is found, in the root or in the leaf that covers it, and no
\* other tile is.
OldFormatsFind ==
  input.kind = "v2" =>
    LET leaves == { Covering(t, input.level) : t \in input.leaf }
        root == Written(input.spec, { TileEntry(t) : t \in input.root } \union { LeafEntry(l) : l \in leaves })
        leafAt == [o \in { LeafEntry(l).offset : l \in leaves } |->
                     Written(input.spec, { TileEntry(t) : t \in
                               { u \in input.leaf : LeafEntry(Covering(u, input.level)).offset = o } })]
    IN  \A z \in 0..2 : \A x, y \in 0..(2^z - 1) :
          v2Entry(input.spec, root, leafAt, z, x, y) =
            IF << z, x, y >> \in input.root \union input.leaf THEN TileEntry(<< z, x, y >>) ELSE V2None

(* The directories of every format lead from a tile to the entry that holds *)
(* it, through runs, gaps, leaf directories and any order of the entries,   *)
(* and from a tile the archive has not to none.                             *)
DirectoryFindsTile == Format3Finds /\ OldFormatsFind
============================================================================
