------------------------------ MODULE Inflate ------------------------------
(***************************************************************************)
(* The decompressor that src/app/static/js/pmtiles.js falls back to where  *)
(* the browser has none (and always uses for archives of formats 1 and 2): *)
(* DEFLATE, bit by bit, inside gzip, zlib or no container at all.          *)
(*                                                                         *)
(* Data is a sequence of bytes 0..255.  The reader never stops at the end  *)
(* of its input by itself: bytes past the end read as 0, and it is the     *)
(* comparisons of the bit position with the length that find the end.      *)
(***************************************************************************)
EXTENDS Integers, Sequences, FiniteSetsExt, SequencesExt

CONSTANT OutBound      \* the size to which a growable output buffer grows at most
ASSUME OutBoundAssumption == OutBound \in Nat

Bad == << -1 >>        \* what the exception of err() leaves instead of an output
Stuck == [pos |-> -1, bt |-> 0, buf |-> << >>]      \* and instead of a decoder state

----------------------------------------------------------------------------
(* The tables: extra bits and first value of each length and distance code. *)

fleb == << 0,0,0,0,0,0,0,0, 1,1,1,1, 2,2,2,2, 3,3,3,3, 4,4,4,4, 5,5,5,5, 0, 0,0 >>
fdeb == << 0,0,0,0, 1,1, 2,2, 3,3, 4,4, 5,5, 6,6, 7,7, 8,8, 9,9, 10,10, 11,11, 12,12, 13,13, 0 >>
clim == << 16, 17, 18, 0, 8, 7, 9, 6, 10, 5, 11, 4, 12, 3, 13, 2, 14, 1, 15 >>

freb(eb, start) ==
  LET b[i \in 1..31] == IF i = 1 THEN start + 1 ELSE b[i - 1] + 2^eb[i - 1] IN b

fl == [freb(fleb, 2) EXCEPT ![29] = 258]
fd == freb(fdeb, 0)

----------------------------------------------------------------------------
(* Reading bits, low bit of each byte first. *)

ByteOf(d, o) == IF o < Len(d) THEN d[o + 1] ELSE 0
Bit(d, p) == (ByteOf(d, p \div 8) \div 2^(p % 8)) % 2

\* bits() and bits16(): the number in the n bits from p.
bits(d, p, n) == MapThenSumSet(LAMBDA k : Bit(d, p + k) * 2^k, 0..(n - 1))

shft(p) == (p + 7) \div 8

\* The n low bits of v in the opposite order (the table rev, shifted).
rev(v, n) == MapThenSumSet(LAMBDA k : ((v \div 2^k) % 2) * 2^(n - 1 - k), 0..(n - 1))

LongestCode(cd) == Max({0} \union { cd[i] : i \in DOMAIN cd })       \* max()

\* The decoding table of the code whose lengths are cd (a sequence; symbol i is
\* at i + 1): the mb next bits give the symbol and the length of its code, and
\* bits that start no code give length 0.
NoCode == [sym |-> 0, len |-> 0]

\* The symbols (plus one) whose codes have n bits, in order: they have the
\* consecutive codes from first[n] on.
OfLength(cd, n) == SelectSeq([i \in DOMAIN cd |-> i], LAMBDA i : cd[i] = n)

FirstCodes(cd, mb) ==
  LET first[n \in 0..mb] == IF n < 2 THEN 0 ELSE (first[n - 1] + Len(OfLength(cd, n - 1))) * 2 IN first

\* Should the codes overlap, the later symbol has overwritten the earlier one.
hMap(cd, mb) ==
  LET first == FirstCodes(cd, mb)
      Hits(v) == { i \in { LET r == v \div 2^(mb - n) - first[n]
                               s == OfLength(cd, n)
                           IN  IF r \in 0..(Len(s) - 1) THEN s[r + 1] ELSE 0 : n \in 1..mb } : i > 0 }
  IN  [idx \in 0..(2^mb - 1) |->
         LET S == Hits(rev(idx, mb))
         IN  IF S = {} THEN NoCode ELSE [sym |-> Max(S) - 1, len |-> cd[Max(S)]]]

Coder(cd) == [map |-> hMap(cd, LongestCode(cd)), len |-> LongestCode(cd)]

\* The fixed codes of block type 1.
flt == [i \in 1..288 |-> IF i <= 144 THEN 8 ELSE IF i <= 256 THEN 9 ELSE IF i <= 280 THEN 7 ELSE 8]
fdt == [i \in 1..32 |-> 5]
flrm == Coder(flt)
fdrm == Coder(fdt)

Decode(coder, d, p) == coder.map[bits(d, p, coder.len)]

----------------------------------------------------------------------------
(* One block.  A decoder state is the bit position, the output position and *)
(* the output buffer; a write outside the buffer is ignored.                *)

Put(buf, i, v) == IF i < Len(buf) THEN [buf EXCEPT ![i + 1] = v] ELSE buf

\* Stored block: its length is a 16-bit number after the next byte boundary
\* (its complement is not looked at).  set() throws if it does not fit.
stored(d, s) ==
  LET from == shft(s.pos) + 4
      l == bits(d, 8 * (from - 4), 16)
  IN  IF from + l > Len(d) \/ s.bt + l > Len(s.buf) THEN Stuck
      ELSE [pos |-> 8 * (from + l), bt |-> s.bt + l,
            buf |-> [i \in DOMAIN s.buf |-> IF i > s.bt /\ i <= s.bt + l
                                            THEN d[from + i - s.bt] ELSE s.buf[i]]]

\* The lengths of a dynamic block's codes: run-length coded in a code of its own.
\* The result is << lengths, position >>.  Bits that start no code read as length
\* 0 and are not skipped, so all further lengths are 0; and once the position is
\* past the end of the data the block fails, whatever the lengths are.
lengths(d, p, tl, clm) ==
  LET Zeros(n) == [k \in 1..n |-> 0]
      read[ldt \in Seq(Nat), q \in Nat] ==
        LET r == Decode(clm, d, q)
            at == q + r.len
            eb == IF r.sym = 16 THEN 2 ELSE IF r.sym = 17 THEN 3 ELSE 7
            n == bits(d, at, eb) + (IF r.sym = 18 THEN 11 ELSE 3)
            c == IF r.sym = 16 /\ ldt # << >> THEN Last(ldt) ELSE 0
        IN  IF Len(ldt) >= tl \/ q > 8 * Len(d) \/ r = NoCode
            THEN << SubSeq(ldt \o Zeros(tl), 1, tl), q >>
            ELSE IF r.sym < 16 THEN read[Append(ldt, r.sym), at]
            ELSE read[ldt \o [k \in 1..n |-> c], at + eb]
  IN  read[<< >>, p]

\* The two codes of a dynamic block and the position after them: hLit and tl - hLit
\* lengths, in a code whose own lengths are hcLen numbers of three bits.
Codes(l, hLit, tl) ==
  [lm |-> Coder(SubSeq(l[1], 1, hLit)), dm |-> Coder(SubSeq(l[1], hLit + 1, tl)), pos |-> l[2]]
lengthCode(d, p, hcLen) ==
  [c \in 1..19 |-> LET K == { i \in 1..hcLen : clim[i] = c - 1 }
                   IN  IF K = {} THEN 0 ELSE bits(d, p + 3 * (Max(K) - 1), 3)]
DynamicCodes(d, p, hLit, hcLen, tl) ==
  Codes(lengths(d, p + 3 * hcLen, tl, Coder(lengthCode(d, p, hcLen))), hLit, tl)
dynamic(d, p) ==
  LET hLit == bits(d, p, 5) + 257
  IN  DynamicCodes(d, p + 14, hLit, bits(d, p + 10, 4) + 4, hLit + bits(d, p + 5, 5) + 1)

\* Mutant: a match is copied as if its source were complete before it starts.
CopyAtOnce(buf, bt, end, dist) ==
  [i \in DOMAIN buf |-> IF i > bt /\ i <= end THEN buf[i - dist] ELSE buf[i]]

\* Copy a match, four bytes a round, so up to three bytes past its end.
Copy(buf, bt, end, dist) ==
  LET round(b, i) == FoldLeft(LAMBDA c, k : Put(c, i + k, ByteOf(c, i + k - dist)), b, <<0, 1, 2, 3>>)
      go[i \in Nat, b \in Seq(0..255)] == IF i >= end THEN b ELSE go[i + 4, round(b, i)]
  IN  go[bt, buf]

\* The length and the distance of the match whose length symbol is sym.
match(d, p, sym, dm) ==
  LET i == sym - 256
      add == IF sym > 264 THEN bits(d, p, fleb[i]) + fl[i] ELSE sym - 254
      q == IF sym > 264 THEN p + fleb[i] ELSE p
      c == Decode(dm, d, q)
      eb == IF c.sym > 3 THEN fdeb[c.sym + 1] ELSE 0
  IN  IF c = NoCode THEN [add |-> 0, dist |-> 0, pos |-> -1]
      ELSE [add |-> add, dist |-> fd[c.sym + 1] + bits(d, q + c.len, eb), pos |-> q + c.len + eb]

\* The symbols of a block, up to its end: a literal, the end or a match, read with
\* code c up to position pos.
RECURSIVE symbols(_, _, _, _)
Literal(d, s, lm, dm, sym, pos) ==
  symbols(d, [pos |-> pos, bt |-> s.bt + 1, buf |-> Put(s.buf, s.bt, sym)], lm, dm)
Matched(d, s, lm, dm, m) ==
  IF m.pos = -1 \/ m.pos > 8 * Len(d) \/ m.dist > s.bt THEN Stuck
  ELSE symbols(d, [pos |-> m.pos, bt |-> s.bt + m.add,
                   buf |-> Copy(s.buf, s.bt, s.bt + m.add, m.dist)], lm, dm)
Symbol(d, s, lm, dm, c, pos) ==
  IF pos > 8 * Len(d) \/ c = NoCode THEN Stuck
  ELSE IF c.sym < 256 THEN Literal(d, s, lm, dm, c.sym, pos)
  ELSE IF c.sym = 256 THEN [s EXCEPT !.pos = pos]
  ELSE Matched(d, s, lm, dm, match(d, pos, c.sym, dm))
Coded(d, s, lm, dm, c) == Symbol(d, s, lm, dm, c, s.pos + c.len)
symbols(d, s, lm, dm) == Coded(d, s, lm, dm, Decode(lm, d, s.pos))

\* The block at s, after its three bits; codes are those of a dynamic block there.
block(d, s, type, codes) ==
  CASE type = 0 -> stored(d, s)
    [] type = 1 -> IF s.pos > 8 * Len(d) THEN Stuck ELSE symbols(d, s, flrm, fdrm)
    [] type = 2 -> IF codes.pos > 8 * Len(d) THEN Stuck
                   ELSE symbols(d, [s EXCEPT !.pos = codes.pos], codes.lm, codes.dm)
    [] type = 3 -> Stuck

\* inflt(): blocks up to the final one.
RECURSIVE blocks(_, _)
Further(d, s, final) == IF s = Stuck \/ final = 1 THEN s ELSE blocks(d, s)
blocks(d, s) ==
  Further(d, block(d, [s EXCEPT !.pos = @ + 3], bits(d, s.pos + 1, 2), dynamic(d, s.pos + 3)),
          bits(d, s.pos, 1))

\* An empty input returns the buffer.
Output(s, size) == IF s = Stuck THEN Bad ELSE SubSeq(s.buf, 1, Min({s.bt, size}))
inflt(d, size) ==
  IF d = << >> THEN [i \in 1..size |-> 0]
  ELSE Output(blocks(d, [pos |-> 0, bt |-> 0, buf |-> [i \in 1..size |-> 0]]), size)

\* Without a buffer from the caller, one that grows as needed.
infltGrown(d) == IF d = << >> THEN << >> ELSE inflt(d, OutBound)

----------------------------------------------------------------------------
(* Containers. *)

\* Where the data of a gzip file starts: after the extra field, the name, the
\* comment (both end with a 0 byte) and the checksum of the header.
gzs(d) ==
  LET flg == ByteOf(d, 3)
      extra == IF (flg \div 4) % 2 = 1 THEN bits(d, 80, 16) + 2 ELSE 0
      skip[st \in Nat, zs \in Nat] ==
        IF zs = 0 THEN st ELSE skip[st + 1, IF ByteOf(d, st) = 0 THEN zs - 1 ELSE zs]
  IN  skip[10 + extra, ((flg \div 8) % 2) + ((flg \div 16) % 2)] + 2 * ((flg \div 2) % 2)

IsGzip(d) == ByteOf(d, 0) = 31 /\ ByteOf(d, 1) = 139 /\ ByteOf(d, 2) = 8
IsZlib(d) == /\ ByteOf(d, 0) % 16 = 8
             /\ ByteOf(d, 0) \div 16 <= 7
             /\ (256 * ByteOf(d, 0) + ByteOf(d, 1)) % 31 = 0

\* The size a gzip file announces (its upper bytes are 0 at the sizes here).
gzl(d) == d[Len(d) - 3] + 256 * d[Len(d) - 2]

gunzipSync(d) ==
  LET st == gzs(d)
  IN  IF st + 8 > Len(d) THEN Bad ELSE inflt(SubSeq(d, st + 1, Len(d) - 8), gzl(d))

\* zls(): two bytes, and bit 5 of the second asks for a dictionary.
unzlibSync(d) ==
  IF (ByteOf(d, 1) \div 32) % 2 = 1 THEN Bad ELSE infltGrown(SubSeq(d, 3, Len(d) - 4))

inflateSync(d) == infltGrown(d)

decompressSync(d) ==
  IF IsGzip(d) THEN gunzipSync(d) ELSE IF IsZlib(d) THEN unzlibSync(d) ELSE inflateSync(d)

\* The compression a header names.  A browser with a DecompressionStream lets it
\* do the same to a gzip file.
defaultDecompress(d, compression) ==
  CASE compression \in {"none", "unknown"} -> d
    [] compression = "gzip" -> decompressSync(d)
    [] OTHER -> Bad
============================================================================
