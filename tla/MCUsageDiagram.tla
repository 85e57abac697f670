--------------------------- MODULE MCUsageDiagram ---------------------------
(* Small files for UsageDiagram: up to three blocks that fill the file.     *)
EXTENDS UsageDiagram, SequencesExt

DataSizes == {1, 2, 3, 4, 7, 20}

\* The blocks behind the header, from the sizes of their data and whether used.
RECURSIVE Blocks(_, _)
Blocks(offset, s) ==
    IF s = <<>> THEN <<>>
    ELSE <<[offset |-> offset, data_size |-> s[1].size]>>
           \o Blocks(offset + BlockBytes + s[1].size, Tail(s))

Piece == [size : DataSizes, used : BOOLEAN]

\* Blocks to the end of the file; no two neighbours are free, the free list is in
\* the order of the offsets and the used list in any order.
SmallLayouts ==
    UNION {UNION {
      LET blocks == Blocks(HeaderBytes, s)
          used   == {blocks[i] : i \in {j \in 1 .. n : s[j].used}}
      IN  {[db_size |-> EndOf(blocks[n]),
            used    |-> order,
            free    |-> SelectSeq(blocks, LAMBDA b : b \notin used)] : order \in SetToSeqs(used)}
      : s \in {t \in [1 .. n -> Piece] :
                 \A i \in 1 .. n - 1 : t[i].used \/ t[i + 1].used}}
      : n \in 1 .. 3}
=============================================================================
