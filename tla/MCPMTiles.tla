----------------------------- MODULE MCPMTiles -----------------------------
(***************************************************************************)
(* The PMTiles reader on small instances: the client at work while the     *)
(* archive is replaced (input.kind = "client"), and the pure readers on    *)
(* one input each (every other kind).                                      *)
(***************************************************************************)
EXTENDS PMTiles, PMTilesCodec

CONSTANTS t1, t2, t3, md, hd

----------------------------------------------------------------------------
(* The client. *)

MCKind == [r \in Requests |-> IF r = md THEN "meta" ELSE IF r = hd THEN "header" ELSE "tile"]

\* Where the tiles are: t1 in a leaf, t2 in the root, later in a leaf, t3 in the
\* root, except in version 2, whose zoom levels leave it out.  In version 2
\* the leaves refer to each other for t1.
Holds(a, b, c) == [r \in Requests |-> CASE r = t1 -> a [] r = t2 -> b [] r = t3 -> c [] OTHER -> Absent]
MCEntry ==
  << [root |-> Holds("a", Tile, Tile), a |-> Holds(Tile, Absent, Absent), b |-> Holds(Absent, Absent, Absent)],
     [root |-> Holds("a", "b", Outside), a |-> Holds("b", Absent, Absent), b |-> Holds("a", Tile, Absent)],
     [root |-> Holds("a", Tile, Tile), a |-> Holds(Tile, Absent, Absent), b |-> Holds(Absent, Absent, Absent)] >>

Busy == { r \in Requests : req[r].pc # "idle" }

\* Which requests overlap, with how many replacements and faults.
InScene ==
  \/ Busy \subseteq {t1, t2} /\ noStore /\ version <= 2 /\ faults = 0
  \/ Busy \subseteq {t2, t3} /\ noStore /\ faults = 0
  \/ Busy \subseteq {t2, t3} /\ ~noStore /\ version <= 2 /\ faults = 0
  \/ Busy \subseteq {t2, md} /\ noStore /\ version <= 2
  \/ Busy \subseteq {t1} /\ noStore
  \/ Busy \subseteq {t3, hd} /\ noStore

----------------------------------------------------------------------------
(* The inputs of the readers. *)

\* Every number whose bits lie at the borders of the varint's groups, of the
\* low and high words and of a double's 53 bits.
Varints == { [kind |-> "varint", bits |-> b] :
               b \in SUBSET {0, 6, 7, 27, 28, 31, 32, 34, 35, 41, 52, 53, 63} }

DirsOf(n, ids, runs, lengths_, offsets) ==
  { [kind |-> "directory",
     entries |-> [i \in 1..n |-> [tileId |-> d[1][i], runLength |-> d[2][i],
                                  length |-> d[3][i], offset |-> d[4][i]]]] :
      d \in { t \in [1..n -> ids] : \A i \in 1..(n - 1) : t[i] < t[i + 1] }
            \X [1..n -> runs] \X [1..n -> lengths_] \X [1..n -> offsets] }
Directories == DirsOf(1, 0..2, 0..2, 1..2, 0..2) \union DirsOf(2, 0..4, 0..2, {1, 3}, {0, 1, 3})
               \union DirsOf(3, 0..4, {0, 2}, {2}, {0, 2, 4}) \union DirsOf(4, 0..5, {1}, {1}, {0, 1})

Tiles == UNION { { [kind |-> "tile", z |-> z, x |-> x, y |-> y] : x, y \in 0..(2^z - 1) } : z \in 0..5 }

OldArchives ==
  { [kind |-> "v2", spec |-> s, level |-> l, root |-> r, leaf |-> t] :
      s \in 1..2, l \in 1..2, r \in SUBSET { <<0, 0, 0>>, <<1, 0, 0>>, <<1, 1, 0>>, <<2, 2, 3>> },
      t \in SUBSET { <<2, 3, 2>>, <<2, 0, 1>>, <<2, 1, 1>>, <<2, 3, 3>> } }

Texts == { << >>, << Lit(97) >>, << Lit(97), Match(3, 1) >>, << Lit(97), Lit(98), Match(5, 2), Lit(200) >>,
           << Lit(1), Lit(0), Lit(255), Match(11, 3), Lit(97), Match(4, 5) >>, << Lit(0), Match(258, 1) >>,
           << Lit(9), Lit(8), Lit(7), Lit(6), Lit(5), Lit(4), Lit(3), Lit(2), Match(20, 7), Match(3, 6) >> }
Blocks == { [type |-> y, tokens |-> t] : y \in 1..2, t \in Texts }
          \union { [type |-> 0, tokens |-> << >>], [type |-> 0, tokens |-> << Lit(7), Lit(255), Lit(1) >>] }
Deflate(wrap, flags, plans) == { [kind |-> "deflate", wrap |-> wrap, flags |-> flags, plan |-> p] : p \in plans }
Streams ==
  Deflate("raw", {}, { << b >> : b \in Blocks })
  \union Deflate("raw", {}, { << b, c >> : b, c \in { d \in Blocks : Len(d.tokens) \in {0, 3, 4} } })
  \union Deflate("zlib", {}, { << b >> : b \in Blocks })
  \union UNION { Deflate("gzip", f, { << b >> : b \in Blocks }) : f \in {{}, {1}, {2}, {3, 4}, {1, 2, 3, 4}} }
  \* a match that reaches back into the block before it
  \union Deflate("raw", {}, { << [type |-> y, tokens |-> << Lit(97), Lit(98) >>],
                                 [type |-> w, tokens |-> << Match(4, 2), Lit(9) >>] >> : y \in 0..2, w \in 1..2 })

----------------------------------------------------------------------------
Inputs == Varints \union Directories \union Tiles \union OldArchives \union Streams

MCInit ==
  /\ Init
  /\ \/ input = [kind |-> "client"]
     \/ input \in Inputs /\ noStore
MCNext == Next /\ input.kind = "client" /\ UNCHANGED input /\ InScene'
MCSpec == MCInit /\ [][MCNext]_<< vars, input >> /\ Fairness
============================================================================
