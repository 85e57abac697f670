----------------------------- MODULE FpngDecode -----------------------------
(***************************************************************************)
(* fpng_decode_file() on a file that fpng_encode_image_to_file() wrote,    *)
(* that a short write left cut off, or that another program has arranged   *)
(* anew.  The decoders read up to three symbols ahead where their tables   *)
(* hold pairs; here a symbol is read when it is used.                      *)
(***************************************************************************)
EXTENDS FpngEncode

VARIABLES rewritten,   \* has another program changed the file?
          desired,     \* desired_channels
          status,      \* what fpng_decode_file() returns
          block,       \* the record of prepare_dynamic_block()
          bits,        \* how many bits behind the zlib header are read
          at,          \* index of the next group, or of the next stored block
          delta,       \* prev_delta_r, ...
          out,         \* the lines that are complete
          cur,         \* the line at hand
          raster       \* the bytes of stored blocks

decoder == <<rewritten, desired, status, block, bits, at, delta, out, cur, raster>>
vars    == <<pc, encoded, decoder>>

NoBlock == [ok |-> FALSE]

DecodeInit ==
    /\ Init
    /\ rewritten = FALSE
    /\ desired = 0
    /\ status = "none"
    /\ block = NoBlock
    /\ bits = 0 /\ at = 1
    /\ delta = <<>>
    /\ out = <<>> /\ cur = <<>>
    /\ raster = <<>>

----------------------------------------------------------------------------
(* Another program: it may add an ancillary or a critical chunk, move the  *)
(* private chunk fdEC behind IDAT or drop it, and cut IDAT in two.         *)

Inserted(chunk, i) == SubSeq(file, 1, i - 1) \o <<chunk>> \o SubSeq(file, i, Len(file))

Rewrite ==
    /\ pc = "written" /\ ~rewritten
    /\ rewritten' = TRUE
    /\ \/ \E type \in {"tEXt", "PLTE", "fdEC"}, i \in DOMAIN file :
            file' = Inserted([type |-> type, len |-> 5], i)
       \/ file' = <<file[2], file[1], file[3]>>
       \/ file' = Tail(file)
       \/ \E cut \in {1, 7} :
            file' = <<file[1], [file[2] EXCEPT !.len = @ - cut],
                      [file[2] EXCEPT !.len = cut], file[3]>>
    /\ size' = FileBytes(file')
    /\ UNCHANGED <<picture, flags, pc, x, y, tokens, counts, codes, zlib,
                   desired, status, block, bits, at, delta, out, cur, raster>>

----------------------------------------------------------------------------
(* fpng_get_info_internal().                                               *)

\* Wrong: the chunk's checksum may be missing.
ChunkFitsUnsummed(ofs, chunk) == size - ofs >= 8 /\ ofs + 8 + chunk.len <= size

ChunkFits(ofs, chunk) == size - ofs >= 12 /\ ofs + ChunkBytes(chunk) <= size

\* The scan of the chunks from the i-th on, at ofs.
RECURSIVE Scan(_, _, _, _)
Scan(i, ofs, found_fdec_chunk, idats) ==
    LET c    == file[i]
        next(fdec, n) == Scan(i + 1, ofs + ChunkBytes(c), fdec, n)
    IN  IF ~ChunkFits(ofs, c) THEN "FAILED_CHUNK_PARSING" ELSE
        CASE c.type = "IEND" -> IF found_fdec_chunk /\ idats = 1 THEN "SUCCESS" ELSE "NOT_FPNG"
          [] c.type = "IDAT" ->
               IF idats > 0 \/ ~found_fdec_chunk THEN "NOT_FPNG"
               ELSE IF c.len < 7 THEN "FAILED_INVALID_IDAT"
               ELSE next(found_fdec_chunk, 1)
          [] c.type = "fdEC" -> IF found_fdec_chunk THEN "NOT_FPNG" ELSE next(TRUE, idats)
          [] c.type = "PLTE" -> "NOT_FPNG"
          [] OTHER -> next(found_fdec_chunk, idats)

\* The size of the picture, as IHDR has it.
width  == w % HeaderDim
height == h % HeaderDim
src_bpl == width * picture.chans

fpng_get_info_internal ==
    CASE size < PNG_HEADER_SIZE -> "FAILED_NOT_PNG"
      [] size >= PNG_HEADER_SIZE /\ (0 \in {width, height} \/ width * height > MaxPixels) ->
           "FAILED_INVALID_DIMENSIONS"
      [] OTHER -> Scan(1, IHDR_END, FALSE, 0)

idat_len == LET i == CHOOSE i \in DOMAIN file : file[i].type = "IDAT" IN file[i].len

\* What stands in the way of a decoder that is to make so many channels.
Refusal(channels) ==
    IF size > UINT32_MAX THEN "FILE_TOO_LARGE"
    ELSE IF fpng_get_info_internal # "SUCCESS" THEN fpng_get_info_internal
    ELSE IF width * height * channels > UINT32_MAX THEN "FAILED_DIMENSIONS_TOO_LARGE"
    ELSE "none"

\* Opens the file, looks for its chunks, and at the first block of IDAT.
Open ==
    /\ pc \in {"written", "failed"} /\ size > 0
    /\ desired' \in {3, 4}
    /\ LET refusal == Refusal(desired')
       IN  IF refusal # "none"
           THEN status' = refusal /\ pc' = "decoded" /\ UNCHANGED <<block, bits>>
           ELSE /\ UNCHANGED status
                /\ IF zlib.kind = "raw"
                   THEN pc' = "stored" /\ UNCHANGED <<block, bits>>
                   ELSE /\ pc' = "lengths"
                        /\ block' = Prepare(zlib.head, 4)
                        /\ bits' = Len(zlib.head)
    /\ UNCHANGED <<encoded, rewritten, at, delta, out, cur, raster>>

End(result) == status' = result /\ pc' = "decoded"
NotFpng     == End("NOT_FPNG") /\ UNCHANGED <<block, bits, at, delta, out, cur>>

----------------------------------------------------------------------------
(* fpng_pixel_zlib_decompress_3() and _4().                                *)

\* The lengths of the codes, then the table of the literals.
Lengths ==
    /\ pc = "lengths"
    /\ CASE ~block.ok -> NotFpng
         [] block.ok /\ Len(block.sizes) < block.total ->
              /\ block' = Unpack(zlib.head, block)
              /\ UNCHANGED <<pc, status, bits, at, delta, out, cur>>
         [] OTHER ->
              /\ block' = prepare_dynamic_block(block, picture.chans)
              /\ pc' = "filter"
              /\ UNCHANGED <<status, bits, at, delta, out, cur>>
    /\ UNCHANGED <<encoded, rewritten, desired, raster>>

\* The symbol whose code comes next, if there is one.
SymbolAt(i) ==
    LET found == {c \in block.table : c.code * 16 + c.size = zlib.groups[i]}
    IN  IF found = {} THEN -1 ELSE (CHOOSE c \in found : TRUE).sym

\* The filter of the next line, which must be the one the encoder uses.
FilterLit ==
    /\ pc = "filter" /\ Len(out) < height
    /\ IF block.ok /\ SymbolAt(at) = Filter(Len(out) + 1)
       THEN /\ bits' = bits + SizeOf(zlib.groups[at])
            /\ at' = at + 1
            /\ delta' = [c \in 1 .. picture.chans |-> 0]
            /\ cur' = <<>>
            /\ pc' = "row"
            /\ UNCHANGED <<status, block, out>>
       ELSE NotFpng
    /\ UNCHANGED <<encoded, rewritten, desired, raster>>

\* The pixel at the end of the line at hand, from its difference to the line above.
Decoded(d, col) ==
    [c \in 1 .. desired |->
       IF c > picture.chans THEN 255
       ELSE IF out = <<>> THEN d[c]
       ELSE (out[Len(out)][col][c] + d[c]) % 256]

\* A symbol below 256 begins a pixel.
LitPixel ==
    /\ pc = "row" /\ Len(cur) < width
    /\ SymbolAt(at) < 256
    /\ LET lits == [c \in 1 .. picture.chans |-> SymbolAt(at + c - 1)]
       IN  IF \A c \in DOMAIN lits : lits[c] \in 0 .. 255
           THEN /\ cur' = Append(cur, Decoded(lits, Len(cur) + 1))
                /\ delta' = lits
                /\ bits' = bits + BitsOf(SubSeq(zlib.groups, at, at + picture.chans - 1))
                /\ at' = at + picture.chans
                /\ UNCHANGED <<pc, status, block, out>>
           ELSE NotFpng
    /\ UNCHANGED <<encoded, rewritten, desired, raster>>

\* Wrong: the run repeats the pixel, not its difference to the one above.
RunOfPixels(n) == [i \in 1 .. n |-> cur[Len(cur)]]

\* The pixels of a run: the last difference, applied to each one above.
RunOf(n) == [i \in 1 .. n |-> Decoded(delta, Len(cur) + i)]

\* Any other is the length of a match: whole pixels of this line, and no end of block.
\* That three channels match as a whole is asserted.
RunPixels ==
    /\ pc = "row" /\ Len(cur) < width
    /\ SymbolAt(at) >= 256
    /\ LET sym == SymbolAt(at) - 256
           e   == s_length_extra[sym]
           run_len == s_length_range[sym] + ((zlib.groups[at + 1] \div 16) % 2^e)
           n   == run_len \div picture.chans
           whole == run_len % picture.chans = 0
       IN  IF sym > 0 /\ ~whole /\ picture.chans = 3
           THEN pc' = "aborted" /\ UNCHANGED <<status, block, bits, at, delta, out, cur>>
           ELSE IF sym > 0 /\ whole /\ Len(cur) + n <= width
           THEN /\ cur' = cur \o RunOf(n)
                /\ bits' = bits + SizeOf(zlib.groups[at]) + e + 1
                /\ at' = at + 2
                /\ UNCHANGED <<pc, status, block, delta, out>>
           ELSE NotFpng
    /\ UNCHANGED <<encoded, rewritten, desired, raster>>

RowEnd ==
    /\ pc = "row" /\ Len(cur) = width
    /\ out' = Append(out, cur)
    /\ pc' = "filter"
    /\ UNCHANGED <<encoded, rewritten, desired, status, block, bits, at, delta, cur, raster>>

\* The end of the block, and of the chunk four bytes behind it.
BlockEnd ==
    /\ pc = "filter" /\ Len(out) = height
    /\ IF SymbolAt(at) = 256 /\ 2 + CeilDiv(bits + SizeOf(zlib.groups[at]), 8) + 4 = idat_len
       THEN End("SUCCESS") /\ UNCHANGED <<block, bits, at, delta, out, cur>>
       ELSE NotFpng
    /\ UNCHANGED <<encoded, rewritten, desired, raster>>

----------------------------------------------------------------------------
(* fpng_pixel_zlib_raw_decompress().                                       *)

\* A stored block.
Stored ==
    /\ pc = "stored" /\ at <= Len(zlib.blocks)
    /\ raster' = raster \o zlib.blocks[at]
    /\ at' = at + 1
    /\ UNCHANGED <<pc, encoded, rewritten, desired, status, block, bits, delta, out, cur>>

\* The bytes as lines, each behind a filter of zero.  One more filter may follow.
StoredEnd ==
    /\ pc = "stored" /\ at > Len(zlib.blocks)
    /\ LET line(r) == (r - 1) * (src_bpl + 1) + 1
           byte(r, col, c) == raster[line(r) + (col - 1) * picture.chans + c]
       IN  IF /\ Len(raster) - height * (src_bpl + 1) \in {0, 1}
              /\ \A r \in 1 .. height + 1 : line(r) \in DOMAIN raster => raster[line(r)] = 0
              /\ 2 + 5 * Len(zlib.blocks) + Len(raster) + 4 = idat_len
           THEN /\ out' = [r \in 1 .. height |-> [col \in 1 .. width |-> [c \in 1 .. desired |->
                             IF c > picture.chans THEN 255 ELSE byte(r, col, c)]]]
                /\ End("SUCCESS")
                /\ UNCHANGED <<block, bits, at, delta, cur>>
           ELSE NotFpng
    /\ UNCHANGED <<encoded, rewritten, desired, raster>>

Decode ==
    \/ Open \/ Lengths \/ FilterLit \/ LitPixel \/ RunPixels \/ RowEnd \/ BlockEnd
    \/ Stored \/ StoredEnd

Next == (Encode /\ UNCHANGED decoder) \/ Rewrite \/ Decode

Spec == DecodeInit /\ [][Next]_vars

----------------------------------------------------------------------------

Converted(p) == [c \in 1 .. desired |-> IF c > picture.chans THEN 255 ELSE p[c]]

\* A file that was written whole and left alone decodes, unless the picture is larger
\* than IHDR or the decoder allows (the encoder does not mind, fpng.cpp:1670), or the
\* file or what is to be made of it takes more bytes than 32 bits count (3104, 3173).
\* Whatever is decoded is the picture: alpha dropped or set to 255 as asked, whether
\* its lines went through filters, runs and codes or into stored blocks
\* (fpng.h:102-103, fpng.cpp:1730); and the assertion about a match, 2303, holds.
DecodesToPicture ==
    /\ pc # "aborted"
    /\ pc = "decoded" =>
         /\ status = "SUCCESS" =>
              out = [r \in 1 .. h |-> [col \in 1 .. w |-> Converted(picture.lines[r][col])]]
         /\ /\ ~rewritten /\ size = FileBytes(file)
            /\ w < HeaderDim /\ h < HeaderDim /\ w * h <= MaxPixels
            /\ size <= UINT32_MAX /\ w * h * desired <= UINT32_MAX
            => status = "SUCCESS"

\* A file that a failed write left incomplete (fpng.cpp:1821, 1827) is never decoded,
\* however little of it is missing.
TruncatedIsRefused ==
    pc = "decoded" /\ size < FileBytes(file) =>
      status \in {"FILE_TOO_LARGE", "FAILED_NOT_PNG", "FAILED_INVALID_DIMENSIONS",
                  "FAILED_CHUNK_PARSING"}

\* The decoder reads the very codes that the encoder writes with, be it from the
\* beginning of the file that fpng is compiled with and the table that goes with it
\* (fpng.cpp:532-562), or from the packed lengths of a two-pass encoder.
TablesAgree ==
    pc = "filter" /\ at = 1 =>
      CodeList(block.table) = [i \in 1 .. 288 |-> codes[i]]

RECURSIVE LeastCost(_)
LeastCost(weights) ==
    LET least(W) == CHOOSE a \in W : \A b \in W : a[1] <= b[1]
        a == least(weights)
        b == least(weights \ {a})
    IN  IF Cardinality(weights) = 1 THEN 0
        ELSE a[1] + b[1] + LeastCost((weights \ {a, b}) \cup {<<a[1] + b[1], a[2]>>})

\* The codes of a two-pass encoder use up the bit patterns, have at most 12 bits,
\* which is all the decoder's tables have room for, never give a heavier symbol more
\* bits than a lighter one, and are as short as Huffman's when that limit does not
\* bind (fpng.cpp:639-709).
CodesAreOptimal ==
    pc = "emit" /\ counts # <<>> =>
      LET used  == {s \in DOMAIN counts : counts[s] > 0}
          l(s)  == SizeOf(codes[s + 1])
          sizes == {[sym |-> s, size |-> l(s)] : s \in used}
      IN  /\ UsedUp(sizes) = 2^15
          /\ \A s \in used : l(s) \in 1 .. 12
          /\ \A s, t \in used : counts[s] > counts[t] => l(s) <= l(t)
          /\ (\A s \in used : l(s) < 12) =>
               SumFrom([s \in DOMAIN counts |-> counts[s] * l(s)], 0, 287)
                 = LeastCost({<<counts[s], s>> : s \in used})

\* Nothing is stored outside temp_buf and out_buf, and the size of the stored blocks
\* is computed right (the assertions of fpng.cpp:1745, 1753 and 1760), for the pictures
\* whose stored blocks take no more bytes than 32 bits count.  For larger ones, which
\* the guard of 1670 lets pass, the sizes of the buffers wrap (1686, 1705, 1747).
BuffersHold ==
    pc \in {"overrun", "miscomputed"} =>
      PNG_HEADER_SIZE + 6 + LinesSize + CeilDiv(LinesSize, MaxRawBlock) * 5 > UINT32_MAX
=============================================================================
