---------------------------- MODULE HuffmanCodes ----------------------------
(***************************************************************************)
(* fpng's Huffman codes: from how often each symbol occurs to the length   *)
(* of its code, from the lengths to the codes, and back from a code to its *)
(* symbol.  A table of lengths is a set of [sym, size] for the symbols in  *)
(* use, a table of codes one of [sym, size, code], where code holds the    *)
(* bits as they are sent, the first one lowest.                            *)
(***************************************************************************)
EXTENDS Integers, SequencesExt

UINT16_MAX == 65535
DEFL_MAX_SUPPORTED_HUFF_CODESIZE == 32

\* The sum of f[i] .. f[j], in halves: TLC's stack does not hold a recursion of some
\* hundred levels.
RECURSIVE SumFrom(_, _, _)
SumFrom(f, i, j) ==
    IF i > j THEN 0
    ELSE IF i = j THEN f[i]
    ELSE SumFrom(f, i, (i + j) \div 2) + SumFrom(f, (i + j) \div 2 + 1, j)

\* adjust_freq32(): the counts in 16 bits, those that would vanish raised to one.
\* Its last loop, for sums over 16 bits, changes only counts nobody reads again.
adjust_freq32(pFreq) ==
    LET total_freq == SumFrom(pFreq, 0, Cardinality(DOMAIN pFreq) - 1)
    IN  [s \in DOMAIN pFreq |->
           IF pFreq[s] = 0 THEN 0
           ELSE LET f == (pFreq[s] * UINT16_MAX) \div total_freq IN IF f = 0 THEN 1 ELSE f]

----------------------------------------------------------------------------
(* The symbols in use, lightest first: a radix sort over two bytes.         *)

Digit(key, pass) == (key \div 256^pass) % 256

\* A pass keeps the order of symbols with the same digit.
RadixPass(syms, pass) ==
    LET with(d) == SelectSeq(syms, LAMBDA s : Digit(s.key, pass) = d)
        digits  == SelectSeq([d \in 1 .. 256 |-> d - 1], LAMBDA d : with(d) # <<>>)
    IN  FlattenSeq([i \in DOMAIN digits |-> with(digits[i])])

defl_radix_sort_syms(syms) ==
    IF \A i \in DOMAIN syms : Digit(syms[i].key, 1) = 0
    THEN RadixPass(syms, 0)
    ELSE RadixPass(RadixPass(syms, 0), 1)

----------------------------------------------------------------------------
(* Moffat and Katajainen's algorithm, in place: A[root] is the lightest    *)
(* inner node not used yet and A[leaf] the lightest leaf; an inner node    *)
(* that is used becomes the index of its parent.  Sums keep 16 bits.       *)

Lighter(s, next) ==
    IF s.leaf >= Cardinality(DOMAIN s.A) \/ (s.root < next /\ s.A[s.root] < s.A[s.leaf])
    THEN [s EXCEPT !.sum = @ + s.A[s.root], !.A[s.root] = next, !.root = @ + 1]
    ELSE [s EXCEPT !.sum = @ + s.A[s.leaf], !.leaf = @ + 1]

RECURSIVE Combined(_, _)
Combined(s, next) ==
    LET t == Lighter(Lighter([s EXCEPT !.sum = 0], next), next)
    IN  IF next >= Cardinality(DOMAIN s.A) - 1 THEN s.A
        ELSE Combined([t EXCEPT !.A[next] = t.sum % (UINT16_MAX + 1)], next + 1)

\* From the keys, lightest first, how many codes there are of each length.
defl_calculate_minimum_redundancy(keys) ==
    LET n     == Len(keys)
        first == (keys[1] + keys[2]) % (UINT16_MAX + 1)
        A     == Combined([A    |-> [i \in 0 .. n - 1 |-> IF i = 0 THEN first ELSE keys[i + 1]],
                           root |-> 0, leaf |-> 2, sum |-> 0], 1)
        depth[next \in 0 .. n - 2] == IF next = n - 2 THEN 0 ELSE depth[A[next]] + 1
        used(d) == Cardinality({next \in 0 .. n - 2 : depth[next] = d})
    IN  [l \in 1 .. DEFL_MAX_SUPPORTED_HUFF_CODESIZE |->
           IF n <= 1 THEN (IF l = 1 THEN n ELSE 0)
           ELSE 2 * used(l - 1) - used(l)]

\* The while loop: one of the longest codes goes, and a shorter one is split in two.
RECURSIVE Shorten(_, _)
Shorten(num_codes, max) ==
    LET total == SumFunction([i \in 1 .. max |-> num_codes[i] * 2^(max - i)])
        i     == Max({k \in 1 .. max - 1 : num_codes[k] > 0})
    IN  IF total = 2^max THEN num_codes
        ELSE Shorten([num_codes EXCEPT ![max] = @ - 1, ![i] = @ - 1, ![i + 1] = @ + 2], max)

\* Wrong: the codes over the limit are only cut to it.
defl_huffman_enforce_max_code_sizeCut(num_codes, code_list_len, max) ==
    SubSeq(num_codes, 1, max - 1)
      \o <<SumFunctionOnSet(num_codes, max .. DEFL_MAX_SUPPORTED_HUFF_CODESIZE)>>

defl_huffman_enforce_max_code_size(num_codes, code_list_len, max) ==
    LET cut == SubSeq(num_codes, 1, max - 1)
                 \o <<SumFunctionOnSet(num_codes, max .. DEFL_MAX_SUPPORTED_HUFF_CODESIZE)>>
    IN  IF code_list_len <= 1 THEN cut ELSE Shorten(cut, max)

\* The first half of defl_optimize_huffman_table(): the lengths of the codes, the
\* longest ones for the lightest symbols.
CodeSizes(count, code_size_limit) ==
    LET all  == SelectSeq([i \in 1 .. Cardinality(DOMAIN count) |-> i - 1], LAMBDA s : count[s] > 0)
        syms == defl_radix_sort_syms([i \in DOMAIN all |-> [key |-> count[all[i]], sym |-> all[i]]])
        n    == Len(syms)
        num_codes == defl_huffman_enforce_max_code_size(
                       defl_calculate_minimum_redundancy([i \in 1 .. n |-> syms[i].key]),
                       n, code_size_limit)
        upto(l)   == SumFunctionOnSet(num_codes, 1 .. l)
        size(j)   == CHOOSE l \in 1 .. code_size_limit : n - j \in upto(l - 1) .. upto(l) - 1
    IN  {[sym |-> syms[j].sym, size |-> size(j)] : j \in 1 .. n}

----------------------------------------------------------------------------

RECURSIVE Reversed(_, _)
Reversed(code, l) == IF l = 0 THEN 0 ELSE (code % 2) * 2^(l - 1) + Reversed(code \div 2, l - 1)

\* Its second half, and that of build_decoder_table(): the symbols of each length
\* get consecutive codes, in their order.
Codes(sizes) ==
    LET sized(l) == {z \in sizes : z.size = l}
        next_code[l \in 1 .. 15] ==
          IF l = 1 THEN 0 ELSE (next_code[l - 1] + Cardinality(sized(l - 1))) * 2
        coded(l) ==
          LET same  == sized(l)
              first == next_code[l]
              nth(z) == Cardinality({y \in same : y.sym < z.sym})
          IN  {[sym |-> z.sym, size |-> l, code |-> Reversed(first + nth(z), l)] : z \in same}
    IN  UNION {coded(l) : l \in 1 .. 15}

\* What build_decoder_table() refuses: codes that do not use up the bit patterns,
\* unless there is one code only.
UsedUp(sizes) ==
    SumFrom([l \in 1 .. 15 |-> Cardinality({z \in sizes : z.size = l}) * 2^(15 - l)], 1, 15)
IsDecodable(sizes) == Cardinality(sizes) = 1 \/ UsedUp(sizes) = 2^15

\* The table at the next bits: a code that they begin with, if there is one.
Matches(table, next_bits) == {c \in table : next_bits % 2^c.size = c.code}
=============================================================================
