---------------------------- MODULE DynamicBlock ----------------------------
(***************************************************************************)
(* The head of a dynamic Deflate block: how fpng's encoder writes the      *)
(* lengths of its Huffman codes and how its decoder reads them back.       *)
(* Streams are sequences of bits.                                          *)
(***************************************************************************)
EXTENDS HuffmanCodes, FpngTables

Put(b, l) == [i \in 1 .. l |-> (b \div 2^(i - 1)) % 2]

PutCode(codes, s) == LET c == CHOOSE c \in codes : c.sym = s IN Put(c.code, c.size)

\* The next l bits at position p, those behind the end of the stream as zeros.
RECURSIVE Get(_, _, _)
Get(bits, p, l) ==
    IF l = 0 \/ p > Len(bits) THEN 0 ELSE bits[p] + 2 * Get(bits, p + 1, l - 1)

\* FlattenSeq(), in halves.
RECURSIVE Concat(_)
Concat(seqs) ==
    LET half == Len(seqs) \div 2
    IN  IF Len(seqs) <= 1 THEN FlattenSeq(seqs)
        ELSE Concat(SubSeq(seqs, 1, half)) \o Concat(SubSeq(seqs, half + 1, Len(seqs)))

----------------------------------------------------------------------------
(* The lengths of the codes are themselves packed: 16 repeats the last one *)
(* 3 to 6 times, 17 and 18 stand for 3 to 10 and 11 to 138 zeros.          *)

ExtraBits(sym) == CASE sym = 16 -> 2 [] sym = 17 -> 3 [] sym = 18 -> 7 [] OTHER -> 0

Copies(sym, n) == [i \in 1 .. n |-> <<sym, 0>>]

\* DEFL_RLE_PREV_CODE_SIZE() and DEFL_RLE_ZERO_CODE_SIZE()
PrevCodeSize(size, n) == IF n < 3 THEN Copies(size, n) ELSE << <<16, n - 3>> >>
ZeroCodeSize(n) ==
    CASE n < 3        -> Copies(0, n)
      [] n \in 3 .. 10 -> << <<17, n - 3>> >>
      [] OTHER        -> << <<18, n - 11>> >>

\* A count of n, flushed whenever it reaches most and at the end.
Flushed(n, most) == [i \in 1 .. (n + most - 1) \div most |-> IF i * most <= n THEN most ELSE n % most]

\* Wrong: zeros are flushed one too late.
RunLate(size, n) ==
    IF size = 0 THEN FlattenSeq([i \in DOMAIN Flushed(n, 139) |-> ZeroCodeSize(Flushed(n, 139)[i])])
    ELSE << <<size, 0>> >>
           \o FlattenSeq([i \in DOMAIN Flushed(n - 1, 6) |-> PrevCodeSize(size, Flushed(n - 1, 6)[i])])

\* The loop over code_sizes_to_pack, for a run of n equal lengths.
Run(size, n) ==
    IF size = 0 THEN FlattenSeq([i \in DOMAIN Flushed(n, 138) |-> ZeroCodeSize(Flushed(n, 138)[i])])
    ELSE << <<size, 0>> >>
           \o FlattenSeq([i \in DOMAIN Flushed(n - 1, 6) |-> PrevCodeSize(size, Flushed(n - 1, 6)[i])])

Packed(sizes) ==
    LET starts == SelectSeq([i \in DOMAIN sizes |-> i],
                            LAMBDA i : i = 1 \/ sizes[i] # sizes[i - 1]) \o <<Len(sizes) + 1>>
    IN  Concat([k \in 1 .. Len(starts) - 1 |->
                      Run(sizes[starts[k]], starts[k + 1] - starts[k])])

----------------------------------------------------------------------------

g_defl_packed_code_size_syms_swizzle ==
    <<16, 17, 18, 0, 8, 7, 9, 6, 10, 5, 11, 4, 12, 3, 13, 2, 14, 1, 15>>

\* How many lengths are written, and the lengths of symbols 0 to n - 1.
NumCodes(sizes, least) == Max({z.sym + 1 : z \in sizes} \cup {least})
Listed(sizes, n) ==
    SubSeq([i \in 1 .. n |-> SumFunction([z \in {y \in sizes : y.sym = i - 1} |-> z.size])], 1, n)

\* defl_start_dynamic_block(), from the lengths of the two tables.
DynamicBlock(lit_sizes, dist_sizes) ==
    LET num_lit_codes  == NumCodes(lit_sizes, 257)
        num_dist_codes == NumCodes(dist_sizes, 1)
        packed  == Packed(Listed(lit_sizes, num_lit_codes) \o Listed(dist_sizes, num_dist_codes))
        sizes   == CodeSizes([s \in 0 .. 18 |-> Cardinality({i \in DOMAIN packed : packed[i][1] = s})], 7)
        codes   == Codes(sizes)
        order   == g_defl_packed_code_size_syms_swizzle
        lengths == Listed(sizes, 19)
        num_bit_lengths == Max({i \in DOMAIN order : lengths[order[i] + 1] > 0} \cup {4})
    IN  Put(2, 2) \o Put(num_lit_codes - 257, 5) \o Put(num_dist_codes - 1, 5)
          \o Put(num_bit_lengths - 4, 4)
          \o Concat([i \in 1 .. num_bit_lengths |-> Put(lengths[order[i] + 1], 3)])
          \o Concat([i \in DOMAIN packed |->
                           PutCode(codes, packed[i][1]) \o Put(packed[i][2], ExtraBits(packed[i][1]))])

----------------------------------------------------------------------------
(* prepare_dynamic_block(), as a record that its loop over the packed      *)
(* lengths updates.  Its speculative table of pairs of literals, and the   *)
(* position it keeps in a bit buffer, only save lookups and reads.         *)

FPNG_DECODER_TABLE_BITS == 12

\* Up to the loop, from the bit after BTYPE.
Prepare(bits, p) ==
    LET num_lit_codes  == Get(bits, p, 5) + 257
        num_dist_codes == Get(bits, p + 5, 5) + 1
        num_clen_codes == Get(bits, p + 10, 4) + 4
        order  == g_defl_packed_code_size_syms_swizzle
        len(i) == Get(bits, p + 14 + 3 * (i - 1), 3)
        clen   == {[sym |-> order[i], size |-> len(i)] : i \in {j \in 1 .. num_clen_codes : len(j) > 0}}
        total  == num_lit_codes + num_dist_codes
    IN  [ok    |-> total <= 288 + 32 /\ IsDecodable(clen),
         pos   |-> p + 14 + 3 * num_clen_codes,
         table |-> Codes(clen),
         lits  |-> num_lit_codes,
         total |-> total,
         sizes |-> <<>>]

\* One iteration of the loop.
Unpack(bits, s) ==
    LET found == Matches(s.table, Get(bits, s.pos, FPNG_DECODER_TABLE_BITS))
        c     == CHOOSE x \in found : TRUE
        e     == Get(bits, s.pos + c.size, ExtraBits(c.sym))
        n     == CASE c.sym \in {16, 17} -> e + 3 [] c.sym = 18 -> e + 11 [] OTHER -> 1
        size  == CASE c.sym <= 15 -> c.sym [] c.sym = 16 -> Last(s.sizes) [] OTHER -> 0
    IN  IF \/ found = {}
           \/ c.sym \in FPNG_DECODER_TABLE_BITS + 1 .. 15
           \/ c.sym = 16 /\ s.sizes = <<>>
           \/ Len(s.sizes) + n > s.total
        THEN [s EXCEPT !.ok = FALSE]
        ELSE [s EXCEPT !.pos = @ + c.size + ExtraBits(c.sym),
                       !.sizes = @ \o [i \in 1 .. n |-> size]]

\* What is left once all lengths are read: the table of the literals.
LitSizes(s) == {[sym |-> i - 1, size |-> s.sizes[i]] : i \in {j \in 1 .. s.lits : s.sizes[j] > 0}}

prepare_dynamic_block(s, num_chans) ==
    LET dist == SubSeq(s.sizes, s.lits + 1, s.total)
        total_valid_distcodes == Cardinality({i \in DOMAIN dist : dist[i] = 1})
    IN  [ok    |-> /\ total_valid_distcodes \in {1, 2}
                   /\ num_chans \in DOMAIN dist /\ dist[num_chans] = 1
                   /\ total_valid_distcodes = 2 => dist[num_chans + 1] = 1
                   /\ IsDecodable(LitSizes(s)),
         pos   |-> s.pos,
         table |-> Codes(LitSizes(s))]
=============================================================================
