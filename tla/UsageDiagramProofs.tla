------------------------- MODULE UsageDiagramProofs -------------------------
(***************************************************************************)
(* Proofs about dump_usage(): for every file of any size, with any blocks  *)
(* that lie apart in it, no pixel is written outside m_image, none is      *)
(* painted twice while blocks are plotted, and each colour shows bytes of  *)
(* the kind it stands for.                                                 *)
(*                                                                         *)
(* The argument is about areas: a block's pixels are among those from its  *)
(* first byte's to the one before its end's, and these areas are apart     *)
(* because the blocks are, wherever in a pixel a block begins.  So a       *)
(* block's pixels are black until it is plotted.                           *)
(***************************************************************************)
EXTENDS UsageDiagram, TLAPS, FiniteSetTheorems

\* What a layout is, of LayoutAssumption.
BlockType == [offset : Nat, data_size : Nat]

\* A block is a block wherever it is listed.
LEMMA ListedBlocks ==
    ASSUME NEW l \in Layouts
    PROVE  /\ l.db_size \in Nat /\ l.db_size >= HeaderBytes
           /\ l.used \in Seq(BlockType) /\ l.free \in Seq(BlockType)
           /\ \A i \in DOMAIN l.used : /\ l.used[i] \in BlockType
                                       /\ HeaderBytes <= l.used[i].offset
                                       /\ EndOf(l.used[i]) <= l.db_size
           /\ \A i \in DOMAIN l.free : /\ l.free[i] \in BlockType
                                       /\ HeaderBytes <= l.free[i].offset
                                       /\ EndOf(l.free[i]) <= l.db_size
<1>1. /\ l.db_size \in Nat /\ l.db_size >= HeaderBytes
      /\ l.used \in Seq(BlockType) /\ l.free \in Seq(BlockType)
      /\ \A b \in BlocksOf(l) : HeaderBytes <= b.offset /\ EndOf(b) <= l.db_size
  BY LayoutAssumption DEF BlockType
<1>2. /\ \A i \in DOMAIN l.used : l.used[i] \in BlockType /\ l.used[i] \in BlocksOf(l)
      /\ \A i \in DOMAIN l.free : l.free[i] \in BlockType /\ l.free[i] \in BlocksOf(l)
  BY <1>1 DEF BlocksOf
<1> QED
  BY <1>1, <1>2

\* The pixels a block has all of, or the first part of.
Area(b) == PixelOf(b.offset) .. PixelOf(EndOf(b)) - 1

\* The overhead and the data of a block are drawn in its area.
LEMMA DrawnInArea ==
    ASSUME NEW b \in BlockType
    PROVE  /\ HeaderPixels(b) \subseteq Area(b) /\ DataPixels(b) \subseteq Area(b)
           /\ Area(b) \subseteq Int
<1>1. b.offset \in Nat /\ b.data_size \in Nat
  BY DEF BlockType
<1>2. /\ PixelOf(b.offset) \in Nat /\ PixelOf(b.data_size) \in Nat
      /\ PixelOf(b.offset + BlockBytes) \in Nat /\ PixelOf(EndOf(b)) \in Nat
      /\ PixelOf(b.offset + BlockBytes) = PixelOf(b.offset) + 6
      /\ PixelOf(EndOf(b)) >= PixelOf(b.offset + BlockBytes) + PixelOf(b.data_size)
  BY <1>1 DEF PixelOf, EndOf, BlockBytes, NUM_BYTES_PER_PIXEL
<1>3. Overhead = 6
  BY DEF Overhead, BlockBytes, NUM_BYTES_PER_PIXEL
<1> QED
  BY <1>2, <1>3 DEF Area, HeaderPixels, DataPixels

\* Blocks that lie apart in the file have areas that lie apart in the picture.
LEMMA AreasApart ==
    ASSUME NEW b \in BlockType, NEW c \in BlockType,
           EndOf(b) <= c.offset \/ EndOf(c) <= b.offset
    PROVE  Area(b) \cap Area(c) = {}
<1>1. /\ b.offset \in Nat /\ b.data_size \in Nat
      /\ c.offset \in Nat /\ c.data_size \in Nat
      /\ EndOf(b) \in Nat /\ EndOf(c) \in Nat
  BY DEF BlockType, EndOf, BlockBytes
<1>2. /\ {PixelOf(b.offset), PixelOf(EndOf(b))} \subseteq Nat
      /\ {PixelOf(c.offset), PixelOf(EndOf(c))} \subseteq Nat
      /\ PixelOf(EndOf(b)) <= PixelOf(c.offset) \/ PixelOf(EndOf(c)) <= PixelOf(b.offset)
  BY <1>1 DEF PixelOf, NUM_BYTES_PER_PIXEL
<1> QED
  BY <1>2 DEF Area

\* Two places of the lists hold blocks with areas apart.
LEMMA ListsApart ==
    ASSUME NEW l \in Layouts
    PROVE  /\ \A i, j \in DOMAIN l.used : i # j => Area(l.used[i]) \cap Area(l.used[j]) = {}
           /\ \A i, j \in DOMAIN l.free : i # j => Area(l.free[i]) \cap Area(l.free[j]) = {}
           /\ \A i \in DOMAIN l.used, j \in DOMAIN l.free :
                Area(l.used[i]) \cap Area(l.free[j]) = {}
<1>1. \A b, c \in BlocksOf(l) : b = c \/ EndOf(b) <= c.offset \/ EndOf(c) <= b.offset
  BY LayoutAssumption
<1>2. /\ \A i, j \in DOMAIN l.used : l.used[i] = l.used[j] => i = j
      /\ \A i, j \in DOMAIN l.free : l.free[i] = l.free[j] => i = j
      /\ \A i \in DOMAIN l.used, j \in DOMAIN l.free : l.used[i] # l.free[j]
  BY LayoutAssumption
<1>3. \A b, c \in BlocksOf(l) : b \in BlockType /\ c \in BlockType /\ b # c
                                 => Area(b) \cap Area(c) = {}
  BY <1>1, AreasApart
<1>4. /\ \A i \in DOMAIN l.used : l.used[i] \in BlocksOf(l) /\ l.used[i] \in BlockType
      /\ \A i \in DOMAIN l.free : l.free[i] \in BlocksOf(l) /\ l.free[i] \in BlockType
  BY ListedBlocks DEF BlocksOf
<1> QED
  BY <1>2, <1>3, <1>4

----------------------------------------------------------------------------

\* A file has at least the pixels of its header, and a block's are among the file's.
LEMMA FilePixels ==
    ASSUME NEW l \in Layouts, layout = l
    PROVE  /\ num_pixels \in Nat /\ num_pixels >= 4
           /\ \A b \in BlockType : EndOf(b) <= l.db_size => Area(b) \subseteq 0 .. num_pixels - 1
<1>1. l.db_size \in Nat /\ l.db_size >= 16
  BY ListedBlocks DEF HeaderBytes
<1>2. num_pixels = (l.db_size + 3) \div 4
  BY <1>1 DEF num_pixels, CeilDiv, NUM_BYTES_PER_PIXEL
<1>3. num_pixels \in Nat /\ num_pixels >= 4
  BY <1>1, <1>2
<1>4. ASSUME NEW b \in BlockType, EndOf(b) <= l.db_size
      PROVE  Area(b) \subseteq 0 .. num_pixels - 1
  <2>1. b.offset \in Nat /\ b.data_size \in Nat /\ EndOf(b) \in Nat
    BY DEF BlockType, EndOf, BlockBytes
  <2>2. PixelOf(b.offset) \in Nat /\ PixelOf(EndOf(b)) \in Nat /\ PixelOf(EndOf(b)) <= num_pixels
    BY <1>1, <1>2, <1>4, <2>1 DEF PixelOf, NUM_BYTES_PER_PIXEL
  <2> QED
    BY <1>3, <2>2 DEF Area
<1> QED
  BY <1>3, <1>4

\* Rounding up: enough pieces of d for n.
LEMMA EnoughPieces ==
    ASSUME NEW n \in Nat, NEW d \in Nat \ {0}
    PROVE  CeilDiv(n, d) \in Nat /\ n <= CeilDiv(n, d) * d
<1> DEFINE q == (n + d - 1) \div d
           r == (n + d - 1) % d
<1>1. q \in Nat /\ r \in 0 .. d - 1 /\ n + d - 1 = d * q + r
  OBVIOUS
<1>2. d * q = q * d
  BY <1>1
<1> HIDE DEF q, r
<1>3. q * d \in Nat
  BY <1>1
<1>4. n <= q * d
  BY <1>1, <1>2, <1>3
<1> QED
  BY <1>1, <1>4 DEF q, CeilDiv

\* The side of the square is defined: there is a least number with a square that
\* is enough, the number of those with a square that is not.
LEMMA SideExists ==
    ASSUME num_pixels \in Nat, num_pixels >= 4
    PROVE  /\ diagram_dimension_px \in Nat \ {0}
           /\ num_pixels <= diagram_dimension_px * diagram_dimension_px
<1> DEFINE n == num_pixels
           TooSmall == {c \in 0 .. n : c * c < n}
           P(c) == n <= c * c /\ \A d \in 0 .. c - 1 : d * d < n
           k == Cardinality(TooSmall)
<1>1. n \in Nat /\ n >= 4
  OBVIOUS
<1> HIDE DEF n
<1>2. n <= n * n
  BY <1>1
<1>3. \A c, d \in Nat : d <= c => d * d \in Nat /\ c * c \in Nat /\ d * d <= c * c
  <2> SUFFICES ASSUME NEW c \in Nat, NEW d \in Nat, d <= c
               PROVE  d * d <= c * c
    OBVIOUS
  <2>1. d * d <= d * c
    OBVIOUS
  <2>2. d * c <= c * c
    OBVIOUS
  <2> QED
    BY <2>1, <2>2
<1>4. /\ IsFiniteSet(TooSmall) /\ k \in Nat
      /\ \A T : TooSmall \subseteq T /\ IsFiniteSet(T) => k <= Cardinality(T)
      /\ \A T : T \subseteq TooSmall => Cardinality(T) <= k
  <2>1. IsFiniteSet(0 .. n) /\ TooSmall \subseteq 0 .. n
    BY <1>1, FS_Interval
  <2> HIDE DEF TooSmall
  <2> QED
    BY <2>1, FS_Subset, FS_CardinalityType
<1>5. \A d \in 0 .. n : IsFiniteSet(0 .. d - 1) /\ Cardinality(0 .. d - 1) = d
  BY <1>1, FS_Interval
<1>6. \A d \in 0 .. n : d \notin TooSmall => k <= d
  <2> SUFFICES ASSUME NEW d \in 0 .. n, d \notin TooSmall
               PROVE  k <= d
    OBVIOUS
  <2>1. TooSmall \subseteq 0 .. d - 1
    BY <1>1, <1>3
  <2> HIDE DEF TooSmall, k
  <2> QED
    BY <1>4, <1>5, <2>1
<1>7. k \in 0 .. n
  <2>1. n \notin TooSmall
    BY <1>1, <1>2
  <2> HIDE DEF TooSmall, k
  <2> QED
    BY <1>1, <1>4, <1>6, <2>1
<1>8. k \notin TooSmall
  <2> SUFFICES ASSUME k \in TooSmall
               PROVE  FALSE
    OBVIOUS
  <2>1. PICK c \in TooSmall : c = k
    OBVIOUS
  <2>2. c \in 0 .. n - 1
    BY <1>1, <1>2, <2>1
  <2>3. 0 .. c \subseteq TooSmall
    BY <1>1, <1>3, <2>2, c \in TooSmall
  <2>4. Cardinality(0 .. c) = c + 1
    BY <2>2, FS_Interval, <1>1
  <2> HIDE DEF TooSmall, k
  <2>5. c + 1 <= k
    BY <1>4, <2>3, <2>4
  <2> QED
    BY <1>7, <2>1, <2>5, <2>2, <1>1
<1>9. P(k)
  <2>1. n <= k * k
    <3> HIDE DEF k
    <3> QED
      BY <1>1, <1>3, <1>7, <1>8
  <2>2. ASSUME NEW d \in 0 .. k - 1
        PROVE  d * d < n
    <3>1. d \in TooSmall
      <4> HIDE DEF TooSmall, k
      <4> QED
        BY <1>1, <1>6, <1>7
    <3> QED
      BY <3>1
  <2> HIDE DEF k
  <2> QED
    BY <2>1, <2>2
<1> HIDE DEF k, TooSmall
<1>10. \E s \in 0 .. n : P(s)
  BY <1>7, <1>9
<1>11. diagram_dimension_px = CHOOSE s \in 0 .. n : P(s)
  BY DEF diagram_dimension_px, n
<1>12. diagram_dimension_px \in 0 .. n /\ P(diagram_dimension_px)
  <2> HIDE DEF P
  <2> QED
    BY <1>10, <1>11
<1>13. diagram_dimension_px # 0
  BY <1>1, <1>12
<1> QED
  BY <1>1, <1>12, <1>13 DEF n

----------------------------------------------------------------------------
(* The inductive invariant.                                                *)

Plotting == pc \in {"plot_used", "plot_free"}
Drawing  == pc \in {"plot_used", "plot_free", "annotate_used", "annotate_free", "encode"}

\* The picture has a pixel for every four bytes of the file, perhaps more.
BigEnough == Drawing => num_pixels <= num_rows * num_cols /\ num_rows * num_cols \in Nat

BlackIn(b) == \A i \in Area(b) : image[i] = "black"

\* The blocks still to be plotted are where the picture is black.
AheadIsBlack ==
    /\ pc = "plot_used" => /\ \A j \in DOMAIN layout.used : next <= j => BlackIn(layout.used[j])
                           /\ \A j \in DOMAIN layout.free : BlackIn(layout.free[j])
    /\ pc = "plot_free" => \A j \in DOMAIN layout.free : next <= j => BlackIn(layout.free[j])

DiagramInv ==
    /\ layout \in Layouts
    /\ StaysInImage
    /\ BigEnough
    /\ AheadIsBlack
    /\ ColoursAreHonest

\* A listed block's area lies in the picture.
LEMMA AreaInPicture ==
    ASSUME DiagramInv, Drawing
    PROVE  /\ \A j \in DOMAIN layout.used : Area(layout.used[j]) \subseteq Pixels
           /\ \A j \in DOMAIN layout.free : Area(layout.free[j]) \subseteq Pixels
<1>1. layout \in Layouts
  BY DEF DiagramInv
<1>2. num_pixels \in Nat /\ \A b \in BlockType :
        EndOf(b) <= layout.db_size => Area(b) \subseteq 0 .. num_pixels - 1
  BY <1>1, FilePixels
<1>3. 0 .. num_pixels - 1 \subseteq Pixels
  <2>1. num_pixels <= num_rows * num_cols /\ num_rows * num_cols \in Nat
    BY DEF DiagramInv, BigEnough
  <2> HIDE DEF num_pixels
  <2>2. PICK p \in Nat : p = num_rows * num_cols
    BY <2>1
  <2> QED
    BY <1>2, <2>1, <2>2 DEF Pixels
<1> QED
  BY <1>1, <1>2, <1>3, ListedBlocks

\* xy_to_idx() answers a pixel of the picture, or -1 when asked for another.
LEMMA IndexOfPixel ==
    ASSUME num_cols \in Nat, num_rows \in Nat, NEW x, NEW y
    PROVE  xy_to_idx(x, y) \in Pixels \cup {-1}
<1>1. CASE x \in 0 .. num_cols - 1 /\ y \in 0 .. num_rows - 1
  <2>1. /\ y * num_cols + x \in Nat
        /\ y * num_cols + x < (y + 1) * num_cols
        /\ (y + 1) * num_cols <= num_rows * num_cols
    <3>1. x \in Nat /\ y \in Nat /\ y * num_cols \in Nat
      BY <1>1
    <3>2. (y + 1) * num_cols = y * num_cols + num_cols
      BY <1>1
    <3>3. PICK d \in Nat : num_rows = y + 1 + d
      <4>1. num_rows - y - 1 \in Nat /\ num_rows = y + 1 + (num_rows - y - 1)
        BY <1>1
      <4> QED
        BY <4>1
    <3>4. num_rows * num_cols = (y + 1) * num_cols + d * num_cols /\ d * num_cols \in Nat
      BY <1>1, <3>1, <3>3
    <3> QED
      BY <1>1, <3>1, <3>2, <3>4
  <2>2. num_rows * num_cols \in Nat
    OBVIOUS
  <2>3. y * num_cols + x \in Pixels
    BY <1>1, <2>1, <2>2 DEF Pixels
  <2> QED
    BY <1>1, <2>3 DEF xy_to_idx
<1>2. CASE ~ (x \in 0 .. num_cols - 1 /\ y \in 0 .. num_rows - 1)
  BY <1>2 DEF xy_to_idx
<1> QED
  BY <1>1, <1>2

\* Text, wherever it begins, is written into the picture, and only adds annotation.
LEMMA AnnotatedInPicture ==
    ASSUME DiagramInv, Drawing, NEW b, NEW letter
    PROVE  /\ Annotated(b, letter) \in [Pixels -> Colours]
           /\ \A i \in Pixels : Annotated(b, letter)[i] \in {"annotation", image[i]}
<1> DEFINE written(ps) == {i \in ps : i >= 0}
<1>1. /\ num_cols \in Nat /\ num_rows \in Nat
      /\ image \in [Pixels -> Colours]
  BY DEF DiagramInv, StaysInImage, Drawing
<1>2. \A x, y, text : TextPixels(x, y, text) \subseteq Pixels \cup {-1}
  BY <1>1, IndexOfPixel DEF TextPixels
<1>3. Pixels \subseteq Nat
  BY DEF Pixels
<1>4. ASSUME NEW ps, ps \subseteq Pixels \cup {-1}
      PROVE  /\ Painted(ps, "annotation") \in [Pixels -> Colours]
             /\ \A i \in Pixels : Painted(ps, "annotation")[i] \in {"annotation", image[i]}
  <2>1. written(ps) \subseteq Pixels
    <3> SUFFICES ASSUME NEW i \in ps, i >= 0
                 PROVE  i \in Pixels
      OBVIOUS
    <3>1. i \in Pixels \/ i = -1
      BY <1>4
    <3>2. ~ (-1 >= 0)
      OBVIOUS
    <3> QED
      BY <3>1, <3>2
  <2>2. DOMAIN image \cup written(ps) = Pixels
    BY <1>1, <2>1
  <2>3. Painted(ps, "annotation") =
          [i \in Pixels |-> IF i \in written(ps) THEN "annotation" ELSE image[i]]
    BY <2>2 DEF Painted
  <2> HIDE DEF written
  <2> QED
    BY <1>1, <2>3 DEF Colours
<1> QED
  BY <1>2, <1>4 DEF Annotated

\* Plotting a block of the picture gives a picture: its area gets the colour where
\* its data is, and keeps what it had where nothing is drawn.
LEMMA PlottedPicture ==
    ASSUME image \in [Pixels -> Colours], NEW b \in BlockType, Area(b) \subseteq Pixels,
           NEW colour \in Colours
    PROVE  /\ Plotted(b, colour) \in [Pixels -> Colours]
           /\ \A i \in Pixels : /\ i \in DataPixels(b) => Plotted(b, colour)[i] = colour
                                /\ i \notin DataPixels(b) =>
                                     Plotted(b, colour)[i] \in {"overhead", image[i]}
                                /\ i \notin Area(b) => Plotted(b, colour)[i] = image[i]
<1>1. HeaderPixels(b) \subseteq Area(b) /\ DataPixels(b) \subseteq Area(b)
  BY DrawnInArea
<1>2. DOMAIN image \cup HeaderPixels(b) \cup DataPixels(b) = Pixels
  BY <1>1
<1> HIDE DEF HeaderPixels, DataPixels, Area, Pixels
<1>3. Plotted(b, colour) =
        [i \in Pixels |-> IF i \in DataPixels(b) THEN colour
                          ELSE IF i \in HeaderPixels(b) THEN "overhead" ELSE image[i]]
  BY <1>2 DEF Plotted
<1> QED
  BY <1>1, <1>3 DEF Colours

\* A pixel in the colour of a block's data shows a byte of it: the pixel's last one.
LEMMA DataIsShown ==
    ASSUME NEW b \in BlockType, NEW i \in DataPixels(b)
    PROVE  \E a \in b.offset + BlockBytes .. EndOf(b) - 1 : PixelOf(a) = i
<1>1. b.offset \in Nat /\ b.data_size \in Nat
  BY DEF BlockType
<1>2. i \in (b.offset + 24) \div 4 .. (b.offset + 24) \div 4 + b.data_size \div 4 - 1
  BY DEF DataPixels, PixelOf, BlockBytes, NUM_BYTES_PER_PIXEL
<1>3. i \in Int /\ 4 * i + 3 >= b.offset + 24 /\ 4 * i + 3 <= b.offset + 24 + b.data_size - 1
  BY <1>1, <1>2
<1>4. (4 * i + 3) \div 4 = i
  BY <1>3
<1>5. /\ 4 * i + 3 \in b.offset + BlockBytes .. EndOf(b) - 1
      /\ PixelOf(4 * i + 3) = i
  BY <1>1, <1>3, <1>4 DEF EndOf, BlockBytes, PixelOf, NUM_BYTES_PER_PIXEL
<1> QED
  BY <1>5

----------------------------------------------------------------------------
(* Each action.                                                            *)

\* The picture begins black, and big enough for the header.
LEMMA BeginStep == DiagramInv /\ Begin => DiagramInv'
<1> SUFFICES ASSUME DiagramInv, Begin
             PROVE  DiagramInv'
  OBVIOUS
<1>1. layout \in Layouts /\ layout' = layout /\ next' = next /\ next \in Nat \ {0}
  BY DEF DiagramInv, Begin, StaysInImage
<1>2. num_pixels \in Nat /\ num_pixels >= 4
  BY <1>1, FilePixels
<1>3. num_pixels' = num_pixels
  BY <1>1 DEF num_pixels
<1>4. CASE pc' = "refused"
  <2>1. UNCHANGED <<num_cols, num_rows, image>>
    BY <1>4 DEF Begin
  <2> QED
    BY <1>1, <1>4, <2>1 DEF DiagramInv, StaysInImage, BigEnough, Drawing, AheadIsBlack,
                            ColoursAreHonest
<1>5. CASE pc' # "refused"
  <2>1. /\ pc' = "plot_used"
        /\ num_cols' = diagram_dimension_px
        /\ num_rows' = CeilDiv(num_pixels, num_cols')
        /\ image' = [i \in Pixels' \cup 0 .. PixelOf(HeaderBytes) - 1 |->
                       IF i < PixelOf(HeaderBytes) THEN "overhead" ELSE "black"]
    BY <1>5 DEF Begin
  <2>2. num_cols' \in Nat \ {0}
    BY <1>2, <2>1, SideExists
  <2> HIDE DEF num_pixels, diagram_dimension_px
  <2>3. num_rows' \in Nat /\ num_pixels <= num_rows' * num_cols'
    BY <1>2, <2>1, <2>2, EnoughPieces
  <2>4. PICK p \in Nat : p = num_rows' * num_cols'
    <3>1. \A r, c \in Nat : r * c \in Nat
      OBVIOUS
    <3> QED
      BY <2>2, <2>3, <3>1
  <2>5. Pixels' = 0 .. p - 1 /\ p >= 4
    BY <1>2, <2>3, <2>4 DEF Pixels
  <2>6. PixelOf(HeaderBytes) = 4
    BY DEF PixelOf, HeaderBytes, NUM_BYTES_PER_PIXEL
  <2>7. image' = [i \in Pixels' |-> IF i < 4 THEN "overhead" ELSE "black"]
    <3>1. Pixels' \cup 0 .. 3 = Pixels'
      BY <2>5
    <3> QED
      BY <2>1, <2>6, <3>1
  <2>8. image' \in [Pixels' -> Colours] /\ \A i \in Pixels' : image'[i] \in {"overhead", "black"}
    BY <2>7 DEF Colours
  <2>9. StaysInImage'
    BY <1>1, <2>1, <2>2, <2>3, <2>8 DEF StaysInImage
  <2>10. BigEnough'
    BY <1>3, <2>3, <2>4 DEF BigEnough
  <2>11. ASSUME NEW b \in BlockType, HeaderBytes <= b.offset, EndOf(b) <= layout.db_size
         PROVE  BlackIn(b)'
    <3>1. Area(b) \subseteq 0 .. num_pixels - 1
      BY <1>1, <2>11, FilePixels
    <3>2. PixelOf(b.offset) \in Nat /\ PixelOf(b.offset) >= 4
      BY <2>11 DEF BlockType, PixelOf, HeaderBytes, NUM_BYTES_PER_PIXEL
    <3>3. \A i \in Area(b) : i \in Int /\ i >= 4
      BY <3>2, DrawnInArea DEF Area
    <3>4. \A i \in Area(b) : i \in Pixels'
      BY <1>2, <2>3, <2>4, <2>5, <3>1
    <3> QED
      BY <2>7, <3>3, <3>4 DEF BlackIn
  <2>12. AheadIsBlack'
    <3>1. /\ \A j \in DOMAIN layout.used : BlackIn(layout.used[j])'
          /\ \A j \in DOMAIN layout.free : BlackIn(layout.free[j])'
      BY <1>1, <2>11, ListedBlocks
    <3> QED
      BY <1>1, <2>1, <3>1 DEF AheadIsBlack, BlackIn
  <2>13. ColoursAreHonest'
    BY <2>8 DEF ColoursAreHonest
  <2> QED
    BY <1>1, <2>9, <2>10, <2>12, <2>13 DEF DiagramInv
<1> QED
  BY <1>4, <1>5

\* A turn of a plotting loop over a list, in the colour of its data.
LEMMA PlotStep ==
    ASSUME DiagramInv, Plotting,
           NEW list, list = (IF pc = "plot_used" THEN layout.used ELSE layout.free),
           next \in DOMAIN list,
           NEW colour, colour = (IF pc = "plot_used" THEN "data" ELSE "unused"),
           image' = Plotted(list[next], colour), next' = next + 1,
           UNCHANGED <<layout, pc, num_cols, num_rows>>
    PROVE  /\ DiagramInv'
           /\ \A i \in DOMAIN image : image[i] # "black" => image'[i] = image[i]
<1> DEFINE b == list[next]
<1>1. /\ layout \in Layouts /\ pc \in {"plot_used", "plot_free"} /\ Drawing
      /\ image \in [Pixels -> Colours] /\ next \in Nat \ {0}
      /\ {num_cols, num_rows} \subseteq Nat
  BY DEF Plotting, Drawing, DiagramInv, StaysInImage
<1>2. b \in BlockType /\ Area(b) \subseteq Pixels
  BY <1>1, ListedBlocks, AreaInPicture
<1>3. Pixels' = Pixels
  BY DEF Pixels
<1>4. BlackIn(b)
  BY <1>1 DEF DiagramInv, AheadIsBlack
<1>5. colour \in Colours
  BY DEF Colours
<1>6. /\ image' \in [Pixels -> Colours]
      /\ \A i \in Pixels : /\ i \in DataPixels(b) => image'[i] = colour
                           /\ i \notin DataPixels(b) => image'[i] \in {"overhead", image[i]}
                           /\ i \notin Area(b) => image'[i] = image[i]
  BY <1>1, <1>2, <1>5, PlottedPicture
<1> HIDE DEF b
<1>7. StaysInImage'
  BY <1>1, <1>3, <1>6 DEF StaysInImage
<1>8. BigEnough'
  BY DEF DiagramInv, BigEnough, Drawing, num_pixels
<1>9. AheadIsBlack'
  <2>1. ASSUME NEW c, BlackIn(c), Area(c) \subseteq Pixels, Area(c) \cap Area(b) = {}
        PROVE  BlackIn(c)'
    BY <1>6, <2>1 DEF BlackIn, Area, EndOf
  <2>2. /\ \A j \in DOMAIN layout.used : Area(layout.used[j]) \subseteq Pixels
        /\ \A j \in DOMAIN layout.free : Area(layout.free[j]) \subseteq Pixels
    BY <1>1, AreaInPicture
  <2>3. \A j \in DOMAIN list : next < j => Area(list[j]) \cap Area(b) = {}
    <3>1. DOMAIN list \subseteq Nat
      BY <1>1, ListedBlocks
    <3>2. \A j \in DOMAIN list : next < j => j # next
      BY <1>1, <3>1
    <3>3. \A j \in DOMAIN list : j # next => Area(list[j]) \cap Area(list[next]) = {}
      BY <1>1, ListsApart
    <3> QED
      BY <3>2, <3>3 DEF b
  <2>4. \A j \in DOMAIN list : next + 1 <= j => j \in Nat /\ next < j /\ next <= j
    BY <1>1, ListedBlocks
  <2>5. CASE pc = "plot_used"
    <3>1. \A j \in DOMAIN layout.free : Area(layout.free[j]) \cap Area(b) = {}
      BY <1>1, <2>5, ListsApart DEF b
    <3>2. /\ \A j \in DOMAIN layout.used : next + 1 <= j => BlackIn(layout.used[j])'
          /\ \A j \in DOMAIN layout.free : BlackIn(layout.free[j])'
      BY <2>1, <2>2, <2>3, <2>4, <2>5, <3>1 DEF DiagramInv, AheadIsBlack
    <3> QED
      BY <2>5, <3>2 DEF AheadIsBlack, BlackIn
  <2>6. CASE pc = "plot_free"
    <3>1. \A j \in DOMAIN layout.free : next + 1 <= j => BlackIn(layout.free[j])'
      BY <2>1, <2>2, <2>3, <2>4, <2>6 DEF DiagramInv, AheadIsBlack
    <3> QED
      BY <2>6, <3>1 DEF AheadIsBlack, BlackIn
  <2> QED
    BY <1>1, <2>5, <2>6
<1>10. ColoursAreHonest'
  <2> DEFINE shows(i, l) == \E n \in DOMAIN l :
               \E a \in l[n].offset + BlockBytes .. EndOf(l[n]) - 1 : PixelOf(a) = i
  <2>1. \A i \in DataPixels(b) : shows(i, list)
    BY <1>2, DataIsShown DEF b
  <2>2. \A i \in Pixels : /\ image[i] = "data" => shows(i, layout.used)
                          /\ image[i] = "unused" => shows(i, layout.free)
    BY <1>1 DEF DiagramInv, ColoursAreHonest
  <2> HIDE DEF shows
  <2>3. \A i \in Pixels : /\ image'[i] = "data" => shows(i, layout.used)
                          /\ image'[i] = "unused" => shows(i, layout.free)
    BY <1>1, <1>6, <2>1, <2>2
  <2>4. DOMAIN image' = Pixels
    BY <1>6
  <2> QED
    BY <2>3, <2>4 DEF ColoursAreHonest, shows
<1>11. \A i \in DOMAIN image : image[i] # "black" => image'[i] = image[i]
  BY <1>1, <1>4, <1>6 DEF BlackIn
<1> QED
  BY <1>1, <1>7, <1>8, <1>9, <1>10, <1>11 DEF DiagramInv

\* Writing a block's size over the picture keeps within it.
LEMMA AnnotateStep ==
    ASSUME DiagramInv, pc \in {"annotate_used", "annotate_free"}, NEW b, NEW letter,
           image' = Annotated(b, letter), next' = next + 1,
           UNCHANGED <<layout, pc, num_cols, num_rows>>
    PROVE  DiagramInv'
<1>1. /\ layout \in Layouts /\ Drawing /\ next \in Nat \ {0}
      /\ {num_cols, num_rows} \subseteq Nat
  BY DEF Drawing, DiagramInv, StaysInImage
<1>2. Pixels' = Pixels
  BY DEF Pixels
<1>3. /\ image' \in [Pixels -> Colours]
      /\ \A i \in Pixels : image'[i] \in {"annotation", image[i]}
  BY <1>1, AnnotatedInPicture
<1>4. StaysInImage' /\ BigEnough' /\ AheadIsBlack'
  BY <1>1, <1>2, <1>3
     DEF DiagramInv, StaysInImage, BigEnough, Drawing, num_pixels, AheadIsBlack
<1>5. ColoursAreHonest'
  <2>1. DOMAIN image' = Pixels /\ DOMAIN image = Pixels
    BY <1>1, <1>3 DEF DiagramInv, StaysInImage, Drawing
  <2> QED
    BY <1>3, <2>1 DEF DiagramInv, ColoursAreHonest
<1> QED
  BY <1>1, <1>4, <1>5 DEF DiagramInv

\* Leaving a loop begins the next with the picture as it is.
LEMMA LeaveLoop ==
    ASSUME DiagramInv, NEW to, next' = 1, pc' = to,
           <<pc, to>> \in {<<"plot_used", "plot_free">>, <<"plot_free", "annotate_used">>,
                           <<"annotate_used", "annotate_free">>,
                           <<"annotate_free", "encode">>},
           UNCHANGED <<layout, num_cols, num_rows, image>>
    PROVE  DiagramInv'
<1>1. Pixels' = Pixels
  BY DEF Pixels
<1>2. layout' \in Layouts /\ StaysInImage' /\ BigEnough'
  BY <1>1 DEF DiagramInv, StaysInImage, BigEnough, Drawing, num_pixels
<1>3. AheadIsBlack'
  BY DEF DiagramInv, AheadIsBlack, BlackIn
<1>4. ColoursAreHonest'
  BY DEF DiagramInv, ColoursAreHonest
<1> QED
  BY <1>2, <1>3, <1>4 DEF DiagramInv

\* Every step keeps the invariant, and one that plots keeps every painted pixel.
LEMMA DiagramStep ==
    ASSUME DiagramInv, [Next]_vars
    PROVE  /\ DiagramInv'
           /\ \A i \in DOMAIN image :
                pc \in {"plot_used", "plot_free"} /\ image[i] # "black" => image'[i] = image[i]
<1>1. /\ DOMAIN layout.used = 1 .. Len(layout.used) /\ Len(layout.used) \in Nat
      /\ DOMAIN layout.free = 1 .. Len(layout.free) /\ Len(layout.free) \in Nat
      /\ next \in Nat \ {0}
  BY ListedBlocks DEF DiagramInv, StaysInImage
<1>2. CASE Begin
  BY <1>2, BeginStep DEF Begin
<1>3. CASE PlotUsed
  <2>1. CASE next <= Len(layout.used)
    <3>1. /\ pc = "plot_used" /\ next \in DOMAIN layout.used
          /\ image' = Plotted(layout.used[next], "data") /\ next' = next + 1
          /\ UNCHANGED <<layout, pc, num_cols, num_rows>>
      BY <1>1, <1>3, <2>1 DEF PlotUsed, Loop
    <3> QED
      BY <3>1, PlotStep DEF Plotting
  <2>2. CASE ~ (next <= Len(layout.used))
    <3>1. /\ pc = "plot_used" /\ pc' = "plot_free" /\ next' = 1
          /\ UNCHANGED <<layout, num_cols, num_rows, image>>
      BY <1>3, <2>2 DEF PlotUsed, Loop
    <3> QED
      BY <3>1, LeaveLoop
  <2> QED
    BY <2>1, <2>2
<1>4. CASE PlotFree
  <2>1. CASE next <= Len(layout.free)
    <3>1. /\ pc = "plot_free" /\ next \in DOMAIN layout.free
          /\ image' = Plotted(layout.free[next], "unused") /\ next' = next + 1
          /\ UNCHANGED <<layout, pc, num_cols, num_rows>>
      BY <1>1, <1>4, <2>1 DEF PlotFree, Loop
    <3> QED
      BY <3>1, PlotStep DEF Plotting
  <2>2. CASE ~ (next <= Len(layout.free))
    <3>1. /\ pc = "plot_free" /\ pc' = "annotate_used" /\ next' = 1
          /\ UNCHANGED <<layout, num_cols, num_rows, image>>
      BY <1>4, <2>2 DEF PlotFree, Loop
    <3> QED
      BY <3>1, LeaveLoop
  <2> QED
    BY <2>1, <2>2
<1>5. CASE AnnotateUsed
  <2>1. CASE next <= Len(layout.used)
    BY <1>5, <2>1, AnnotateStep DEF AnnotateUsed, Loop
  <2>2. CASE ~ (next <= Len(layout.used))
    BY <1>5, <2>2, LeaveLoop DEF AnnotateUsed, Loop
  <2> QED
    BY <2>1, <2>2
<1>6. CASE AnnotateFree
  <2>1. CASE next <= Len(layout.free)
    BY <1>6, <2>1, AnnotateStep DEF AnnotateFree, Loop
  <2>2. CASE ~ (next <= Len(layout.free))
    BY <1>6, <2>2, LeaveLoop DEF AnnotateFree, Loop
  <2> QED
    BY <2>1, <2>2
<1>7. CASE UNCHANGED vars
  <2>1. UNCHANGED <<layout, pc, next, num_cols, num_rows, image>>
    BY <1>7 DEF vars
  <2>2. Pixels' = Pixels
    BY <2>1 DEF Pixels
  <2>3. layout' \in Layouts /\ StaysInImage' /\ BigEnough'
    BY <2>1, <2>2 DEF DiagramInv, StaysInImage, BigEnough, Drawing, num_pixels
  <2>4. AheadIsBlack' /\ ColoursAreHonest'
    BY <2>1 DEF DiagramInv, AheadIsBlack, BlackIn, ColoursAreHonest
  <2> QED
    BY <2>1, <2>3, <2>4 DEF DiagramInv
<1> QED
  BY <1>2, <1>3, <1>4, <1>5, <1>6, <1>7 DEF Next

----------------------------------------------------------------------------

\* The invariant of dump_usage() holds from beginning to end.
THEOREM DiagramInvariance == Spec => []DiagramInv
<1>1. Init => DiagramInv
  BY DEF Init, DiagramInv, StaysInImage, BigEnough, Drawing, AheadIsBlack, ColoursAreHonest
<1>2. DiagramInv /\ [Next]_vars => DiagramInv'
  BY DiagramStep
<1> QED
  BY <1>1, <1>2, PTL DEF Spec

\* Whatever the blocks, their sizes and the text over them, no pixel is written
\* outside m_image.
THEOREM NothingOutsideTheImage == Spec => []StaysInImage
<1>1. DiagramInv => StaysInImage
  BY DEF DiagramInv
<1> QED
  BY <1>1, DiagramInvariance, PTL

\* Before text covers it, a pixel in a block's colour shows bytes of such a block.
THEOREM ColoursShowBlocks == Spec => []ColoursAreHonest
<1>1. DiagramInv => ColoursAreHonest
  BY DEF DiagramInv
<1> QED
  BY <1>1, DiagramInvariance, PTL

\* While blocks are plotted they do not hide each other, nor the header.
THEOREM BlocksDoNotHide == Spec => NoPixelTwice
<1>1. DiagramInv /\ [Next]_vars =>
        [\A i \in DOMAIN image :
           pc \in {"plot_used", "plot_free"} /\ image[i] # "black" => image'[i] = image[i]]_vars
  BY DiagramStep
<1> QED
  BY <1>1, DiagramInvariance, PTL DEF Spec, NoPixelTwice
=============================================================================
