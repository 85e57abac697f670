----------------------------- MODULE FpngEncode -----------------------------
(***************************************************************************)
(* fpng_encode_image_to_file(): the last thing dump_usage() does, with     *)
(* three channels and no flags, and what else its parameters allow.        *)
(*                                                                         *)
(* A pixel is a sequence of bytes.  What is sent is a sequence of tokens,  *)
(* each what one PUT_BITS_FLUSH ends: literal symbols, or a match of so    *)
(* many bytes against the pixel before.  A symbol's code and the extra     *)
(* bits of a match are kept as numbers, value * 16 + number of bits, like  *)
(* the entries of g_dyn_huff_3_codes.  The checksums are left out: the     *)
(* decoder only looks at those of chunks that are constants.               *)
(***************************************************************************)
EXTENDS DynamicBlock

CONSTANTS Pictures,                \* [chans, lines]: the images to encode
          FPNG_MAX_SUPPORTED_DIM,  \* 2^24 in the code
          HeaderDim,               \* 2^16: IHDR gets the low 16 bits of a width or height
          MaxPixels,               \* 2^30: the decoder refuses more
          UINT32_MAX,              \* 2^32 - 1
          MaxRawBlock,             \* UINT16_MAX in the code
          Losses                   \* how many bytes a write that fails may leave out

VARIABLES picture,
          flags,     \* of FPNG_ENCODE_SLOWER and FPNG_FORCE_UNCOMPRESSED
          pc,
          x, y,      \* the pixel that is looked at
          tokens,
          counts,    \* FPNG_ENCODE_SLOWER: how often each symbol occurs
          codes,     \* the codes of the symbols, from symbol 0
          zlib,      \* the data of the IDAT chunk
          file,      \* the chunks behind IHDR
          size       \* of the file on disk

encoded == <<picture, flags, x, y, tokens, counts, codes, zlib, file, size>>

----------------------------------------------------------------------------

CeilDiv(n, d) == (n + d - 1) \div d
U32(n) == n % (UINT32_MAX + 1)

w   == Len(picture.lines[1])
h   == Len(picture.lines)
bpl == w * picture.chans

\* apply_filter(): the difference to the line above, but for the first line.
Filter(row) == IF row = 1 THEN 0 ELSE 2
Filtered(row, col) ==
    LET p == picture.lines[row][col]
    IN  IF Filter(row) = 0 THEN p
        ELSE [c \in DOMAIN p |-> (p[c] - picture.lines[row - 1][col][c]) % 256]

Literal(lits) == [lits |-> lits, match |-> 0]
Match(n)      == [lits |-> <<>>, match |-> n]

\* The longest match the loops look for, in bytes.
MaxMatch(chans) == IF chans = 3 THEN 255 ELSE 252

\* How many pixels of the line, from (x, y), are like the one before.
RunLength ==
    LET most == Min({MaxMatch(picture.chans) \div picture.chans, w - x + 1})
    IN  Max({n \in 0 .. most :
               \A k \in 0 .. n - 1 : Filtered(y, x + k) = Filtered(y, x - 1)})

MatchSym(n)   == g_defl_len_sym(n - 3)
MatchExtra(n) == g_defl_len_extra(n - 3)
SizeOf(group) == group % 16

\* pixel_deflate_dyn_4_rle_one_pass() writes literals when they take fewer bits
\* than a match of one pixel.
LiteralsAreCheaper(lits) ==
    /\ picture.chans = 4 /\ flags = {}
    /\ SizeOf(codes[MatchSym(4) + 1]) + MatchExtra(4) + 1
         > SumFrom([c \in 1 .. 4 |-> SizeOf(codes[lits[c] + 1])], 1, 4)

\* What is written for a token.
Groups(t) ==
    [i \in DOMAIN t.lits |-> codes[t.lits[i] + 1]]
      \o IF t.match = 0 THEN <<>>
         ELSE LET e == MatchExtra(t.match)
              IN  <<codes[MatchSym(t.match) + 1], ((t.match - 3) % 2^e) * 16 + e + 1>>

BitsOf(groups) == SumFrom([i \in DOMAIN groups |-> SizeOf(groups[i])], 1, Len(groups))

\* How often a symbol occurs among the tokens.
lit_freq(s) ==
    SumFrom([i \in DOMAIN tokens |->
               IF tokens[i].match > 0 THEN (IF MatchSym(tokens[i].match) = s THEN 1 ELSE 0)
               ELSE Cardinality({c \in DOMAIN tokens[i].lits : tokens[i].lits[c] = s})],
            1, Len(tokens))

\* The codes of a table, from symbol 0.
CodeList(table) ==
    LET of(s) == {c \in table : c.sym = s}
    IN  SubSeq([i \in 1 .. 288 |->
                  IF of(i - 1) = {} THEN 0
                  ELSE LET c == CHOOSE c \in of(i - 1) : TRUE IN c.code * 16 + c.size], 1, 288)

StaticHead(prefix, bitbuf) ==
    Concat([i \in 1 .. Len(prefix) - 2 |-> Put(prefix[i + 2], 8)]) \o Put(bitbuf[1], bitbuf[2])

----------------------------------------------------------------------------

PNG_HEADER_SIZE == 58
NoZlib == [kind |-> "none"]

Init ==
    /\ picture \in Pictures
    /\ flags \in SUBSET {"FPNG_ENCODE_SLOWER", "FPNG_FORCE_UNCOMPRESSED"}
    /\ pc = "begin"
    /\ x = 1 /\ y = 1
    /\ tokens = <<>> /\ counts = <<>> /\ codes = <<>>
    /\ zlib = NoZlib
    /\ file = <<>>
    /\ size = 0

\* What the filters write into temp_buf, and the size it gets.
LinesSize == (bpl + 1) * h
TempSize  == U32(LinesSize + 7)

\* The guards, the filters, and the table of the one-pass encoders.  What happens
\* behind a store outside a buffer is not modelled.
Begin ==
    /\ pc = "begin"
    /\ pc' = IF w * h > UINT32_MAX \/ Max({w, h}) > FPNG_MAX_SUPPORTED_DIM THEN "failed"
             ELSE IF LinesSize > TempSize THEN "overrun"
             ELSE IF "FPNG_FORCE_UNCOMPRESSED" \in flags THEN "raw"
             ELSE "line"
    /\ codes' = IF pc' # "line" \/ flags # {} THEN <<>>
                ELSE IF picture.chans = 3 THEN g_dyn_huff_3_codes
                ELSE g_dyn_huff_4_codes
    /\ UNCHANGED <<picture, flags, x, y, tokens, counts, zlib, file, size>>

\* The filter and the first pixel of a line, which the one-pass encoder for three
\* channels flushes together.
Line ==
    /\ pc = "line" /\ y <= h
    /\ LET filter == <<Filter(y)>>
           lits   == Filtered(y, 1)
       IN  tokens' = tokens \o IF picture.chans = 3 /\ flags = {} THEN <<Literal(filter \o lits)>>
                               ELSE <<Literal(filter), Literal(lits)>>
    /\ x' = 2
    /\ pc' = "pixel"
    /\ UNCHANGED <<picture, flags, y, counts, codes, zlib, file, size>>

\* The rest of the line, in literals and matches.
Pixel ==
    /\ pc = "pixel" /\ x <= w
    /\ LET n    == RunLength
           lits == Filtered(y, x)
       IN  IF n = 0 \/ (n = 1 /\ LiteralsAreCheaper(lits))
           THEN /\ tokens' = Append(tokens, Literal(lits))
                /\ x' = x + 1
           ELSE /\ tokens' = Append(tokens, Match(n * picture.chans))
                /\ x' = x + n
    /\ UNCHANGED <<picture, flags, pc, y, counts, codes, zlib, file, size>>

EndLine ==
    /\ pc = "pixel" /\ x > w
    /\ y' = y + 1
    /\ pc' = IF y < h THEN "line" ELSE IF flags = {} THEN "emit" ELSE "count"
    /\ UNCHANGED <<picture, flags, x, tokens, counts, codes, zlib, file, size>>

\* The two-pass encoders count the symbols, and make codes for them.
Count ==
    /\ pc = "count"
    /\ counts' = adjust_freq32([s \in 0 .. 287 |-> IF s = 256 THEN 1 ELSE lit_freq(s)])
    /\ pc' = "codes"
    /\ UNCHANGED <<picture, flags, x, y, tokens, codes, zlib, file, size>>

MakeCodes ==
    /\ pc = "codes"
    /\ codes' = CodeList(Codes(CodeSizes(counts, 12)))
    /\ pc' = "emit"
    /\ UNCHANGED <<picture, flags, x, y, tokens, counts, zlib, file, size>>

\* From BFINAL to the first symbol.
BlockHead ==
    IF flags = {}
    THEN IF picture.chans = 3 THEN StaticHead(g_dyn_huff_3, DYN_HUFF_3_BITBUF)
                              ELSE StaticHead(g_dyn_huff_4, DYN_HUFF_4_BITBUF)
    ELSE LET dist == [s \in 0 .. 31 |-> IF s \in {picture.chans - 1, picture.chans} THEN 1 ELSE 0]
         IN  Put(1, 1) \o DynamicBlock(CodeSizes(counts, 12), CodeSizes(dist, 12))

\* The size of out_buf, in a first guess, and what is left of one behind the header.
FirstSize    == 8 * (U32(PNG_HEADER_SIZE + LinesSize + 7) \div 8)
RoomIn(total) == U32(total - PNG_HEADER_SIZE)

\* The last flush stores eight bytes wherever it starts; then come the end of the
\* block and the Adler-32.  If that does not fit, nothing is compressed.
Emit ==
    /\ pc = "emit"
    /\ LET head    == BlockHead
           groups  == Concat([i \in DOMAIN tokens |-> Groups(tokens[i])])
           all     == Append(groups, codes[256 + 1])
           len     == 2 + CeilDiv(Len(head) + BitsOf(all), 8) + 4
           flushed == 2 + (Len(head) + BitsOf(groups) - BitsOf(Groups(Last(tokens)))) \div 8
       IN  IF FirstSize < PNG_HEADER_SIZE THEN pc' = "overrun" /\ UNCHANGED zlib
           ELSE IF flushed + 8 > RoomIn(FirstSize) \/ len > RoomIn(FirstSize)
           THEN pc' = "raw" /\ UNCHANGED zlib
           ELSE /\ zlib' = [kind |-> "dynamic", head |-> head, groups |-> all, len |-> len]
                /\ pc' = "write"
    /\ UNCHANGED <<picture, flags, x, y, tokens, counts, codes, file, size>>

\* Wrong: room for the header of one stored block.
RawSizeOfOneBlock(n) == U32(PNG_HEADER_SIZE + 6 + n + 5)

\* The size of out_buf when n bytes are stored.
RawSize(n) == U32(PNG_HEADER_SIZE + 6 + n + (U32(n + MaxRawBlock - 1) \div MaxRawBlock) * 5)

\* write_raw_block(): the lines, unfiltered, in stored blocks.
Raw ==
    /\ pc = "raw"
    /\ LET bytes  == Concat([r \in 1 .. h |-> <<0>> \o Concat(picture.lines[r])])
           sizes  == Flushed(Len(bytes), MaxRawBlock)
           start(i) == SumFrom(sizes, 1, i - 1)
           blocks == [i \in DOMAIN sizes |-> SubSeq(bytes, start(i) + 1, start(i) + sizes[i])]
           len    == 2 + 5 * Len(blocks) + Len(bytes) + 4
       IN  IF RawSize(Len(bytes)) < PNG_HEADER_SIZE THEN pc' = "overrun" /\ UNCHANGED zlib
           ELSE IF len > RoomIn(RawSize(Len(bytes)))
           THEN pc' = "miscomputed" /\ UNCHANGED zlib
           ELSE /\ zlib' = [kind |-> "raw", blocks |-> blocks, len |-> len]
                /\ pc' = "write"
    /\ UNCHANGED <<picture, flags, x, y, tokens, counts, codes, file, size>>

ChunkBytes(chunk) == 12 + chunk.len
BytesIn(chunks) == SumFrom([i \in DOMAIN chunks |-> ChunkBytes(chunks[i])], 1, Len(chunks))

IHDR_END == 33   \* the signature and IHDR
FileBytes(chunks) == IHDR_END + BytesIn(chunks)

\* The file, or when fwrite() comes short or fclose() fails, as much of it as got there.
Write ==
    /\ pc = "write"
    /\ file' = << [type |-> "fdEC", len |-> 5], [type |-> "IDAT", len |-> zlib.len],
                  [type |-> "IEND", len |-> 0] >>
    /\ \/ pc' = "written" /\ size' = FileBytes(file')
       \/ \E lost \in Losses \cap 0 .. FileBytes(file') :
            pc' = "failed" /\ size' = FileBytes(file') - lost
    /\ UNCHANGED <<picture, flags, x, y, tokens, counts, codes, zlib>>

Encode == Begin \/ Line \/ Pixel \/ EndLine \/ Count \/ MakeCodes \/ Emit \/ Raw \/ Write
=============================================================================
