------------------------------- MODULE MCFpng -------------------------------
(* Pictures for FpngDecode: lines of runs of a few colours.                 *)
EXTENDS FpngDecode

Colour(chans, c) == SubSeq(<<<<0, 0, 0, 255>>, <<200, 30, 7, 255>>, <<255, 1, 30, 0>>>>[c], 1, chans)

\* A line from the colours and lengths of its runs.
LineOf(chans, runs) ==
    Concat([i \in DOMAIN runs |-> [k \in 1 .. runs[i][2] |-> Colour(chans, runs[i][1])]])

Drawn(chans, lines) == [chans |-> chans, lines |-> [r \in DOMAIN lines |-> LineOf(chans, lines[r])]]

Drawings ==
    { << << <<1, 1>> >> >>,
      << << <<2, 2>>, <<3, 1>> >>, << <<2, 2>>, <<1, 1>> >> >>,
      << << <<1, 64>>, <<2, 1>> >> , << <<1, 64>>, <<3, 1>> >> >>,
      << << <<2, 86>>, <<3, 2>>, <<1, 1>> >> >>,
      << << <<1, 501>> >> >>,   \* too wide for the encoder
      [r \in 1 .. 44 |-> << <<1, 44>> >>],   \* too many pixels for the encoder
      << << <<1, 480>> >> >>,   \* the decoder's limit: too many bytes in four channels
      << << <<1, 464>> >> >>,   \* in four channels, too many for out_buf
      << << <<1, 445>> >> >>, << << <<1, 303>> >>, << <<1, 303>> >> >>,   \* if stored
      << << <<1, 438>> >> >>,   \* and then too large a file
      << << <<1, 490>> >> >>,   \* too wide for IHDR
      << << <<1, 250>> >>, << <<1, 250>> >> >>,   \* too many pixels for the decoder
      << << <<1, 90>> >>, << <<1, 20>>, <<2, 70>> >>, << <<1, 20>>, <<2, 69>>, <<1, 1>> >> >>,
      << << <<2, 1>>, <<3, 130>>, <<2, 2>> >>, << <<3, 131>>, <<1, 2>> >> >> }

\* One whose bytes, with a filter and the end of the block once each, occur about as
\* often as Lucas's numbers say: Huffman's codes would have up to 13 bits.
Often == <<3, 4, 7, 11, 18, 29, 47, 76, 123, 199, 322, 520>>
Byte(i) == CHOOSE b \in DOMAIN Often : i \in SumFrom(Often, 1, b - 1) .. SumFrom(Often, 1, b) - 1
Skewed ==
    [chans |-> 3,
     lines |-> << SubSeq([col \in 1 .. 453 |-> SubSeq([c \in 1 .. 3 |->
                            Byte(((col * 3 + c) * 397) % 1359)], 1, 3)], 1, 453) >>]

SmallPictures == {Drawn(chans, d) : chans \in {3, 4}, d \in Drawings} \cup {Skewed}
SmallLosses   == 0 .. 40
=============================================================================
