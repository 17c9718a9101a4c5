---------------------------- MODULE PMTilesCodec ----------------------------
(***************************************************************************)
(* What the reader of module Inflate must compute, stated from RFC 1951:   *)
(* a DEFLATE encoder with its gzip and zlib containers and, as an          *)
(* invariant over the chosen input, that the reader undoes the writer.     *)
(***************************************************************************)
EXTENDS PMTilesFormats, Inflate

----------------------------------------------------------------------------
(* DEFLATE, from RFC 1951.  A token is a literal [lit] or a match [len, dist]. *)

Lit(b) == [lit |-> b, len |-> 0, dist |-> 0]
Match(n, d) == [lit |-> -1, len |-> n, dist |-> d]

\* What a sequence of tokens stands for, after the output before.
Expand(before, tokens) ==
  FoldLeft(LAMBDA out, t :
             IF t.len = 0 THEN Append(out, t.lit)
             ELSE out \o [k \in 1..t.len |-> out[Len(out) - t.dist + 1 + ((k - 1) % t.dist)]],
           before, tokens)

\* First value and extra bits of length code 257 + c and of distance code c.
LenFirst(c) == IF c < 8 THEN c + 3 ELSE IF c = 28 THEN 258
               ELSE (4 + (c % 4)) * 2^((c \div 4) - 1) + 3
LenExtra(c) == IF c < 8 \/ c = 28 THEN 0 ELSE (c \div 4) - 1
DistFirst(c) == IF c < 4 THEN c + 1 ELSE (2 + (c % 2)) * 2^((c \div 2) - 1) + 1
DistExtra(c) == IF c < 4 THEN 0 ELSE (c \div 2) - 1
LenCode(n) == Max({ c \in 0..28 : LenFirst(c) <= n })
DistCode(d) == Max({ c \in 0..29 : DistFirst(c) <= d })

Low(v, n) == [k \in 1..n |-> (v \div 2^(k - 1)) % 2]           \* low bit first

\* The canonical code: the code words in order of length, then of symbol.
Code(cd, sym) ==
  LET n == cd[sym + 1]
      shorter(k) == Cardinality({ t \in DOMAIN cd : cd[t] = k })
      rank == Cardinality({ t \in 1..sym : cd[t] = n })
  IN  Reverse(Low(rank + MapThenSumSet(LAMBDA k : shorter(k) * 2^(n - k), 1..(n - 1)), n))

TokenBits(t, lcd, dcd) ==
  IF t.len = 0 THEN Code(lcd, t.lit)
  ELSE LET c == LenCode(t.len) d == DistCode(t.dist)
       IN  Code(lcd, 257 + c) \o Low(t.len - LenFirst(c), LenExtra(c))
           \o Code(dcd, d) \o Low(t.dist - DistFirst(d), DistExtra(d))

Symbols(tokens, lcd, dcd) ==
  FoldLeft(LAMBDA b, t : b \o TokenBits(t, lcd, dcd), << >>, tokens) \o Code(lcd, 256)

\* Code lengths for a dynamic block: one bit for the first symbol in use, as
\* many as needed for the others.
LengthsFor(used, size) ==
  LET n == Cardinality(used)
      rest == 1 + Min({ k \in 0..5 : 2^k >= n - 1 })
  IN  [i \in 1..size |-> IF i - 1 \notin used THEN 0 ELSE IF i - 1 = Min(used) THEN 1 ELSE rest]

LitLengths(tokens) ==
  LET used == { IF t.len = 0 THEN t.lit ELSE 257 + LenCode(t.len) : t \in Range(tokens) } \union {256}
  IN  LengthsFor(used, 1 + Max(used))
DistLengths(tokens) ==
  LET used == { DistCode(t.dist) : t \in { u \in Range(tokens) : u.len > 0 } }
  IN  IF used = {} THEN << 0 >> ELSE LengthsFor(used, 1 + Max(used))

\* Run-length coded lengths, in a code that has one bit for a long run of zeros
\* and six for each of the 18 other symbols.
RunLengths == [k \in 1..19 |-> IF k = 19 THEN 1 ELSE 6]
RECURSIVE Runs(_, _)
Runs(cd, i) ==
  LET same == { n \in 1..(Len(cd) - i + 1) : \A k \in i..(i + n - 1) : cd[k] = cd[i] }
      n == Min({Max(same), IF cd[i] = 0 THEN 138 ELSE 6})
  IN  IF i > Len(cd) THEN << >>
      ELSE IF cd[i] = 0 /\ n >= 11 THEN Code(RunLengths, 18) \o Low(n - 11, 7) \o Runs(cd, i + n)
      ELSE IF cd[i] = 0 /\ n >= 3 THEN Code(RunLengths, 17) \o Low(n - 3, 3) \o Runs(cd, i + n)
      ELSE IF i > 1 /\ cd[i] = cd[i - 1] /\ n >= 3
           THEN Code(RunLengths, 16) \o Low(n - 3, 2) \o Runs(cd, i + n)
      ELSE Code(RunLengths, cd[i]) \o Runs(cd, i + 1)

DynamicBits(tokens) ==
  LET lcd == LitLengths(tokens) dcd == DistLengths(tokens)
  IN  Low(Len(lcd) - 257, 5) \o Low(Len(dcd) - 1, 5) \o Low(15, 4)
      \o FoldLeft(LAMBDA b, c : b \o Low(RunLengths[c + 1], 3), << >>, clim) \o Runs(lcd \o dcd, 1)
      \o Symbols(tokens, lcd, dcd)

Pad(b) == b \o [k \in 1..((8 - (Len(b) % 8)) % 8) |-> 0]
ByteBits(bytes) == FoldLeft(LAMBDA b, x : b \o Low(x, 8), << >>, bytes)
Bytes(b) == [i \in 1..(Len(Pad(b)) \div 8) |->
               MapThenSumSet(LAMBDA k : Pad(b)[8 * i - 7 + k] * 2^k, 0..7)]

\* The stream of a sequence of blocks [type, tokens]; a stored block holds the
\* literals of its tokens.
Deflated(plan) ==
  LET Block(b, i) ==
        LET t == plan[i].tokens
            head == b \o << IF i = Len(plan) THEN 1 ELSE 0 >> \o Low(plan[i].type, 2)
            raw == [k \in DOMAIN t |-> t[k].lit]
        IN  CASE plan[i].type = 0 -> Pad(head) \o Low(Len(raw), 16) \o Low(65535 - Len(raw), 16) \o ByteBits(raw)
              [] plan[i].type = 1 -> head \o Symbols(t, flt, fdt)
              [] plan[i].type = 2 -> head \o DynamicBits(t)
  IN  Bytes(FoldLeft(Block, << >>, [i \in DOMAIN plan |-> i]))

Content(plan) == FoldLeft(LAMBDA out, b : Expand(out, b.tokens), << >>, plan)

\* The containers; flags of a gzip header are the set of its one bits.
GzipHeader(flags) ==
  << 31, 139, 8, MapThenSumSet(LAMBDA f : 2^f, flags), 0, 0, 0, 0, 0, 3 >>
  \o (IF 2 \in flags THEN << 3, 0, 0, 9, 9 >> ELSE << >>)
  \o (IF 3 \in flags THEN << 110, 97, 0 >> ELSE << >>)
  \o (IF 4 \in flags THEN << 99, 0 >> ELSE << >>)
  \o (IF 1 \in flags THEN << 7, 7 >> ELSE << >>)
Contained(wrap, flags, plan) ==
  LET size == Len(Content(plan))
  IN  CASE wrap = "raw"  -> Deflated(plan)
        [] wrap = "zlib" -> << 120, 156 >> \o Deflated(plan) \o << 1, 2, 3, 4 >>
        [] wrap = "gzip" -> GzipHeader(flags) \o Deflated(plan)
                            \o << 1, 2, 3, 4, size % 256, size \div 256, 0, 0 >>

\* Of a stream that stands for content: it is read back, and a raw one that is cut
\* off anywhere is an error.
ReadsBack(stream, content, raw) ==
  /\ \A c \in {"gzip", "none", "brotli"} :
       defaultDecompress(stream, c) = CASE c = "gzip" -> content [] c = "none" -> stream [] OTHER -> Bad
  /\ raw => \A k \in 1..(Len(stream) - 1) : inflateSync(SubSeq(stream, 1, k)) = Bad

(* Decompression undoes compression: every block type, code lengths of any  *)
(* shape, overlapping matches, matches into an earlier block, any container. *)
(* A stream that was cut off anywhere is an error, never a shorter tile: the *)
(* bytes after its end read as zeros, which are valid codes.                 *)
InflateUndoesDeflate ==
  input.kind = "deflate" =>
    ReadsBack(Contained(input.wrap, input.flags, input.plan), Content(input.plan), input.wrap = "raw")
============================================================================
