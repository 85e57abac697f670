---------------------------- MODULE UsageDiagram ----------------------------
(***************************************************************************)
(* dump_usage(): the picture of the buffer file, one pixel for every four  *)
(* bytes, with each block's size written over it.  It holds m_mutex from   *)
(* beginning to end, so the two lists it walks do not change.  The floats  *)
(* of the code are taken as exact, which they are for files below 2^24     *)
(* bytes and for the store's own of 2^29.                                  *)
(***************************************************************************)
EXTENDS Integers, Sequences, FiniteSets

CONSTANTS Layouts,               \* [db_size, used, free]: the files to draw, each
                                 \* list a sequence of [offset, data_size]
          MAX_DIAGRAM_DIMENSION

NUM_BYTES_PER_PIXEL == 4
HeaderBytes == 16   \* sizeof(BufferHeader)
BlockBytes  == 24   \* sizeof(Block)

Colours == {"black", "annotation", "overhead", "data", "unused"}

BlocksOf(l) == {l.used[i] : i \in DOMAIN l.used} \cup {l.free[i] : i \in DOMAIN l.free}
EndOf(b)    == b.offset + BlockBytes + b.data_size

ASSUME LayoutAssumption ==
    /\ MAX_DIAGRAM_DIMENSION \in Nat
    /\ \A l \in Layouts :
         /\ l.db_size \in Nat /\ l.db_size >= HeaderBytes
         /\ {l.used, l.free} \subseteq Seq([offset : Nat, data_size : Nat])
         /\ \A b \in BlocksOf(l) : HeaderBytes <= b.offset /\ EndOf(b) <= l.db_size
         /\ \A b, c \in BlocksOf(l) : \/ b = c
                                      \/ EndOf(b) <= c.offset
                                      \/ EndOf(c) <= b.offset
         \* No block is in a list twice, nor in both.
         /\ \A i, j \in DOMAIN l.used : l.used[i] = l.used[j] => i = j
         /\ \A i, j \in DOMAIN l.free : l.free[i] = l.free[j] => i = j
         /\ \A i \in DOMAIN l.used, j \in DOMAIN l.free : l.used[i] # l.free[j]

VARIABLES layout,    \* the file, while m_mutex is held
          pc,
          next,      \* index of the block the current loop is at
          num_cols, num_rows,
          image      \* m_image: pixel -> colour

vars == <<layout, pc, next, num_cols, num_rows, image>>

----------------------------------------------------------------------------
(* The dimensions of the picture.                                          *)

CeilDiv(n, d) == (n + d - 1) \div d

num_pixels == CeilDiv(layout.db_size, NUM_BYTES_PER_PIXEL)

\* The square root, rounded up.
diagram_dimension_px ==
    CHOOSE c \in 0 .. num_pixels :
      /\ num_pixels <= c * c
      /\ \A d \in 0 .. c - 1 : d * d < num_pixels

Pixels == 0 .. num_rows * num_cols - 1

\* Wrong: only the row is looked at.
xy_to_idxAnyColumn(x, y) ==
    IF y \in 0 .. num_rows - 1 THEN y * num_cols + x ELSE -1

xy_to_idx(x, y) ==
    IF x \in 0 .. num_cols - 1 /\ y \in 0 .. num_rows - 1 THEN y * num_cols + x ELSE -1

idx_to_xy(i) == IF i \in Pixels THEN <<i % num_cols, i \div num_cols>> ELSE <<-1, -1>>

\* set_pixel() at each of these: a nonnegative index is not looked at, so one
\* outside the picture writes outside m_image.
Painted(pixels, colour) ==
    LET written == {i \in pixels : i >= 0}
    IN  [i \in DOMAIN image \cup written |-> IF i \in written THEN colour ELSE image[i]]

----------------------------------------------------------------------------
(* Blocks.                                                                 *)

PixelOf(byte) == byte \div NUM_BYTES_PER_PIXEL
Overhead == BlockBytes \div NUM_BYTES_PER_PIXEL

HeaderPixels(b) == PixelOf(b.offset) .. PixelOf(b.offset) + Overhead - 1

\* Wrong: a last pixel that the block has a part of is drawn too.
DataPixelsRoundedUp(b) ==
    LET pixel_offset == PixelOf(b.offset + BlockBytes)
    IN  pixel_offset .. pixel_offset + CeilDiv(b.data_size, NUM_BYTES_PER_PIXEL) - 1

DataPixels(b) ==
    LET pixel_offset == PixelOf(b.offset + BlockBytes)
    IN  pixel_offset .. pixel_offset + PixelOf(b.data_size) - 1

\* Wrong: the data begins where the block does.
PlottedFromOffset(b, colour) ==
    [i \in DOMAIN image \cup HeaderPixels(b) |->
       IF i \in PixelOf(b.offset) .. PixelOf(b.offset) + PixelOf(b.data_size) - 1 THEN colour
       ELSE IF i \in HeaderPixels(b) THEN "overhead" ELSE image[i]]

\* One iteration of either loop that plots.
Plotted(b, colour) ==
    [i \in DOMAIN image \cup HeaderPixels(b) \cup DataPixels(b) |->
       IF i \in DataPixels(b) THEN colour
       ELSE IF i \in HeaderPixels(b) THEN "overhead" ELSE image[i]]

----------------------------------------------------------------------------
(* Annotations: "U:" or "F:", the size in decimal, "B".                    *)

\* The rows of the glyphs in use, bit x of each for column x.
font8x8_basic ==
    [c \in 48 .. 58 \cup {66, 70, 85} |->
       CASE c = 48 -> <<62, 99, 115, 123, 111, 103, 62, 0>>    \* 0
         [] c = 49 -> <<12, 14, 12, 12, 12, 12, 63, 0>>
         [] c = 50 -> <<30, 51, 48, 28, 6, 51, 63, 0>>
         [] c = 51 -> <<30, 51, 48, 28, 48, 51, 30, 0>>
         [] c = 52 -> <<56, 60, 54, 51, 127, 48, 120, 0>>
         [] c = 53 -> <<63, 3, 31, 48, 48, 51, 30, 0>>
         [] c = 54 -> <<28, 6, 3, 31, 51, 51, 30, 0>>
         [] c = 55 -> <<63, 51, 48, 24, 12, 12, 12, 0>>
         [] c = 56 -> <<30, 51, 51, 30, 51, 51, 30, 0>>
         [] c = 57 -> <<30, 51, 51, 62, 48, 24, 14, 0>>        \* 9
         [] c = 58 -> <<0, 12, 12, 0, 0, 12, 12, 0>>           \* :
         [] c = 66 -> <<63, 102, 102, 62, 102, 102, 63, 0>>    \* B
         [] c = 70 -> <<127, 70, 22, 30, 22, 6, 15, 0>>        \* F
         [] c = 85 -> <<51, 51, 51, 51, 51, 51, 63, 0>>]       \* U

\* The columns and rows of a glyph's pixels.
Ink(c) == {p \in (0 .. 7) \X (0 .. 7) : (font8x8_basic[c][p[2] + 1] \div 2^p[1]) % 2 = 1}

\* A number as snprintf() writes it: nine digits do for a file that is drawn.
Decimal(n) ==
    LET len == Cardinality({k \in 1 .. 9 : k = 1 \/ n >= 10^(k - 1)})
    IN  [i \in 1 .. len |-> 48 + ((n \div 10^(len - i)) % 10)]

\* The pixels draw_text() sets: those outside the picture are left out.
TextPixels(x_start, y_start, text) ==
    UNION {{xy_to_idx(x_start + 8 * (i - 1) + p[1], y_start + p[2]) : p \in Ink(text[i])} :
           i \in DOMAIN text}

\* One iteration of either loop that annotates.  A block that ends the picture is
\* annotated from the corner before the first pixel.
Annotated(b, letter) ==
    LET start == idx_to_xy(PixelOf(b.offset + BlockBytes) + 1)
        text  == <<letter, 58>> \o Decimal(b.data_size) \o <<66>>
    IN  Painted(TextPixels(start[1], start[2], text), "annotation")

----------------------------------------------------------------------------

Init ==
    /\ layout \in Layouts
    /\ pc = "begin"
    /\ next = 1
    /\ num_cols = 0 /\ num_rows = 0
    /\ image = <<>>

\* Too big to draw, or a black picture with the header in it.
Begin ==
    /\ pc = "begin"
    /\ IF diagram_dimension_px > MAX_DIAGRAM_DIMENSION
       THEN pc' = "refused" /\ UNCHANGED <<num_cols, num_rows, image>>
       ELSE /\ pc' = "plot_used"
            /\ num_cols' = diagram_dimension_px
            /\ num_rows' = CeilDiv(num_pixels, num_cols')
            /\ image' = [i \in Pixels' \cup 0 .. PixelOf(HeaderBytes) - 1 |->
                           IF i < PixelOf(HeaderBytes) THEN "overhead" ELSE "black"]
    /\ UNCHANGED <<layout, next>>

\* A while loop over a list: one step for each block and one to leave it.
Loop(from, list, painted, to) ==
    /\ pc = from
    /\ IF next <= Len(list)
       THEN /\ image' = painted
            /\ next' = next + 1
            /\ UNCHANGED pc
       ELSE /\ pc' = to
            /\ next' = 1
            /\ UNCHANGED image
    /\ UNCHANGED <<layout, num_cols, num_rows>>

PlotUsed     == Loop("plot_used", layout.used, Plotted(layout.used[next], "data"), "plot_free")
PlotFree     == Loop("plot_free", layout.free, Plotted(layout.free[next], "unused"), "annotate_used")
AnnotateUsed == Loop("annotate_used", layout.used, Annotated(layout.used[next], 85), "annotate_free")
AnnotateFree == Loop("annotate_free", layout.free, Annotated(layout.free[next], 70), "encode")

\* The picture goes to fpng_encode_image_to_file(): module FpngEncode.
Next == Begin \/ PlotUsed \/ PlotFree \/ AnnotateUsed \/ AnnotateFree

Spec == Init /\ [][Next]_vars

----------------------------------------------------------------------------

\* The variables keep to their types; above all, no pixel is written outside
\* m_image, of which set_pixel() only looks at the sign of an index
\* (file_backed_buffer_diagrammer.cpp:53).
StaysInImage ==
    /\ pc \in {"begin", "refused", "plot_used", "plot_free", "annotate_used",
               "annotate_free", "encode"}
    /\ next \in Nat \ {0}
    /\ {num_cols, num_rows} \subseteq Nat
    /\ pc \notin {"begin", "refused"} => image \in [Pixels -> Colours]

\* While blocks are plotted, no pixel is painted twice: whatever their offsets and
\* sizes are modulo the four bytes of a pixel, blocks do not hide each other.
NoPixelTwice ==
    [][\A i \in DOMAIN image :
         pc \in {"plot_used", "plot_free"} /\ image[i] # "black" => image'[i] = image[i]]_vars

\* Before text covers it, a pixel in the colour of data, or of unused space, shows
\* at least one byte of the data of a used, or of a free, block.
ColoursAreHonest ==
    LET shows(i, list) ==
          \E n \in DOMAIN list :
            \E a \in list[n].offset + BlockBytes .. EndOf(list[n]) - 1 : PixelOf(a) = i
    IN  pc \in {"plot_used", "plot_free", "annotate_used"} =>
          \A i \in DOMAIN image : /\ image[i] = "data" => shows(i, layout.used)
                                  /\ image[i] = "unused" => shows(i, layout.free)
=============================================================================
